------------------------- MODULE SignerFlowsProofs -------------------------
(***************************************************************************)
(* TLAPS proofs about SignerFlows, for every set of workers, txsets and    *)
(* tokens and every configuration: who owns a request, how often a token   *)
(* reaches the wallet, the one-shot executor the flows implement, and that *)
(* events, proofs and relayed bytes lead back to one signature.            *)
(***************************************************************************)
EXTENDS SignerFlows, TLAPS

(* The workers that have a wallet answer in hand.                          *)
Answered == {"complete", "respond"} \cup Recording

(* The workers that consumed a token for a wallet call not made yet.       *)
Armed == {"quorum", "seller", "wallet"}

(* A worker past Receive holds an issued token.                            *)
HoldsToken ==
    \A w \in Workers : pc[w] # "idle" => jti[w] \in Jtis /\ token[jti[w]] # NoToken

(* A worker that got the wallet's answer still has it.                     *)
HoldsAnswer == \A w \in Workers : pc[w] \in Answered => out[w] \in Txsets

(* Exactly the completed rows have a cached response ...                   *)
ResultIffCompleted == \A r \in Requests : dedup[r] = "completed" <=> result[r] # None

(* ... a worker serving a duplicate has seen one ...                       *)
CachedIsCompleted ==
    \A w \in Workers : pc[w] \in {"consume_cached", "cached"} => dedup[Req(w)] = "completed"

(* ... and the worker that completed a request caches what it answers.     *)
CachedIsAnswer ==
    \A w \in Workers : pc[w] \in Recording \cup {"respond"} =>
        result[Req(w)] = out[w]

(* A token nobody consumed has not reached the wallet, and neither has the *)
(* token of a worker that is about to call it.                             *)
UnspentUncalled ==
    /\ \A j \in Jtis : j \notin consumed => calls[j] = 0
    /\ \A w \in Workers : pc[w] \in Armed => jti[w] \in consumed /\ calls[jti[w]] = 0

(* The inductive invariant.                                                *)
IInv ==
    /\ TypeOK
    /\ HoldsToken
    /\ HoldsAnswer
    /\ RequestExclusive
    /\ ResultIffCompleted
    /\ CachedIsCompleted
    /\ CachedIsAnswer
    /\ UnspentUncalled
    /\ JtiSingleUse

-----------------------------------------------------------------------------
USE DEF vars, dbVars, orchVars, workerVars, history, Goto, Advance, Return
USE DEF Owning, Recording, PCs, Statuses, Answered, Armed

(* A worker past Receive serves a well-formed request.                     *)
LEMMA RequestOfWorker ==
    ASSUME TypeOK, HoldsToken, NEW w \in Workers, pc[w] # "idle"
    PROVE  Req(w) \in Requests /\ Txset(w) \in Txsets
BY DEF TypeOK, HoldsToken, Req, Txset, Tokens, Requests

(* start_sign_request takes only an absent row, so no other owner of the   *)
(* req_id exists and no cached answer is lost.                             *)
LEMMA StartSignRequestStep ==
    ASSUME IInv, NEW w \in Workers, StartSignRequest(w)
    PROVE  IInv'
<1> USE DEF IInv, StartSignRequest, RowFree
<1>1. Req(w) \in Requests /\ jti[w] \in Jtis /\ token[jti[w]] # NoToken
  BY RequestOfWorker DEF HoldsToken
<1>2. \A v \in Workers : pc[v] # "idle" => Req(v) \in Requests
  BY RequestOfWorker
<1>3. TypeOK'
  BY <1>1, SignerConstants DEF TypeOK, HoldsAnswer, ResultIffCompleted, CachedIsCompleted
<1>4. HoldsToken' /\ HoldsAnswer'
  BY <1>1 DEF TypeOK, HoldsToken, HoldsAnswer
<1>5. RequestExclusive'
  BY <1>1, <1>2 DEF TypeOK, HoldsToken, RequestExclusive, Req
<1>6. ResultIffCompleted'
  BY <1>1, SignerConstants DEF TypeOK, HoldsAnswer, ResultIffCompleted
<1>7. CachedIsCompleted' /\ CachedIsAnswer'
  BY <1>1, <1>2 DEF TypeOK, HoldsToken, RequestExclusive, ResultIffCompleted,
     CachedIsCompleted, CachedIsAnswer, Req
<1>8. UnspentUncalled' /\ JtiSingleUse'
  BY <1>1 DEF TypeOK, UnspentUncalled, JtiSingleUse
<1> QED BY <1>3, <1>4, <1>5, <1>6, <1>7, <1>8

(* A duplicate goes on only when its row is completed.                     *)
LEMMA GetSignRequestStep ==
    ASSUME IInv, NEW w \in Workers, GetSignRequest(w)
    PROVE  IInv'
<1> USE DEF IInv, GetSignRequest
<1>1. Req(w) \in Requests /\ jti[w] \in Jtis /\ token[jti[w]] # NoToken
  BY RequestOfWorker DEF HoldsToken
<1>3. TypeOK'
  BY <1>1, SignerConstants DEF TypeOK, HoldsAnswer, ResultIffCompleted, CachedIsCompleted
<1>4. HoldsToken' /\ HoldsAnswer'
  BY <1>1 DEF TypeOK, HoldsToken, HoldsAnswer
<1>5. RequestExclusive'
  BY <1>1 DEF TypeOK, HoldsToken, RequestExclusive, Req
<1>6. ResultIffCompleted'
  BY <1>1, SignerConstants DEF TypeOK, HoldsAnswer, ResultIffCompleted
<1>7. CachedIsCompleted' /\ CachedIsAnswer'
  BY <1>1 DEF TypeOK, HoldsToken, RequestExclusive, ResultIffCompleted,
     CachedIsCompleted, CachedIsAnswer, Req
<1>8. UnspentUncalled' /\ JtiSingleUse'
  BY <1>1 DEF TypeOK, UnspentUncalled, JtiSingleUse
<1> QED BY <1>3, <1>4, <1>5, <1>6, <1>7, <1>8

(* A duplicate of a completed request consumes its own token.              *)
LEMMA ConsumeForCachedReplyStep ==
    ASSUME IInv, NEW w \in Workers, ConsumeForCachedReply(w)
    PROVE  IInv'
<1> USE DEF IInv, ConsumeForCachedReply, JtiReplayed
<1>1. Req(w) \in Requests /\ jti[w] \in Jtis /\ token[jti[w]] # NoToken
  BY RequestOfWorker DEF HoldsToken
<1>3. TypeOK'
  BY <1>1, SignerConstants DEF TypeOK, HoldsAnswer, ResultIffCompleted, CachedIsCompleted
<1>4. HoldsToken' /\ HoldsAnswer'
  BY <1>1 DEF TypeOK, HoldsToken, HoldsAnswer
<1>5. RequestExclusive'
  BY <1>1 DEF TypeOK, HoldsToken, RequestExclusive, Req
<1>6. ResultIffCompleted'
  BY <1>1, SignerConstants DEF TypeOK, HoldsAnswer, ResultIffCompleted
<1>7. CachedIsCompleted' /\ CachedIsAnswer'
  BY <1>1 DEF TypeOK, HoldsToken, RequestExclusive, ResultIffCompleted,
     CachedIsCompleted, CachedIsAnswer, Req
<1>8. UnspentUncalled' /\ JtiSingleUse'
  BY <1>1 DEF TypeOK, UnspentUncalled, JtiSingleUse
<1> QED BY <1>3, <1>4, <1>5, <1>6, <1>7, <1>8

(* The cached response of a completed row is a real answer.                *)
LEMMA ReturnCachedResultStep ==
    ASSUME IInv, NEW w \in Workers, ReturnCachedResult(w)
    PROVE  IInv'
<1> USE DEF IInv, ReturnCachedResult, Reply
<1>1. Req(w) \in Requests /\ jti[w] \in Jtis /\ token[jti[w]] # NoToken
  BY RequestOfWorker DEF HoldsToken
<1>3. TypeOK'
  BY <1>1, SignerConstants DEF TypeOK, HoldsAnswer, ResultIffCompleted, CachedIsCompleted
<1>4. HoldsToken' /\ HoldsAnswer'
  BY <1>1 DEF TypeOK, HoldsToken, HoldsAnswer
<1>5. RequestExclusive'
  BY <1>1 DEF TypeOK, HoldsToken, RequestExclusive, Req
<1>6. ResultIffCompleted'
  BY <1>1, SignerConstants DEF TypeOK, HoldsAnswer, ResultIffCompleted
<1>7. CachedIsCompleted' /\ CachedIsAnswer'
  BY <1>1 DEF TypeOK, HoldsToken, RequestExclusive, ResultIffCompleted,
     CachedIsCompleted, CachedIsAnswer, Req
<1>8. UnspentUncalled' /\ JtiSingleUse'
  BY <1>1 DEF TypeOK, UnspentUncalled, JtiSingleUse
<1> QED BY <1>3, <1>4, <1>5, <1>6, <1>7, <1>8

(* The seller gate moves an owner on or sends it to abort its own row.     *)
LEMMA CheckSellerProofStep ==
    ASSUME IInv, NEW w \in Workers, CheckSellerProof(w)
    PROVE  IInv'
<1> USE DEF IInv, CheckSellerProof
<1>1. Req(w) \in Requests /\ jti[w] \in Jtis /\ token[jti[w]] # NoToken
  BY RequestOfWorker DEF HoldsToken
<1>3. TypeOK'
  BY <1>1, SignerConstants DEF TypeOK, HoldsAnswer, ResultIffCompleted, CachedIsCompleted
<1>4. HoldsToken' /\ HoldsAnswer'
  BY <1>1 DEF TypeOK, HoldsToken, HoldsAnswer
<1>5. RequestExclusive'
  BY <1>1 DEF TypeOK, HoldsToken, RequestExclusive, Req
<1>6. ResultIffCompleted'
  BY <1>1, SignerConstants DEF TypeOK, HoldsAnswer, ResultIffCompleted
<1>7. CachedIsCompleted' /\ CachedIsAnswer'
  BY <1>1 DEF TypeOK, HoldsToken, RequestExclusive, ResultIffCompleted,
     CachedIsCompleted, CachedIsAnswer, Req
<1>8. UnspentUncalled' /\ JtiSingleUse'
  BY <1>1 DEF TypeOK, UnspentUncalled, JtiSingleUse
<1> QED BY <1>3, <1>4, <1>5, <1>6, <1>7, <1>8

(* complete_sign_request_with_result turns the owner's row into a completed*)
(* one; every other worker serves a different req_id or an older answer.   *)
LEMMA CompleteSignRequestStep ==
    ASSUME IInv, NEW w \in Workers, CompleteSignRequest(w)
    PROVE  IInv'
<1> USE DEF IInv, CompleteSignRequest, CachedResponse, IsSign
<1>1. Req(w) \in Requests /\ jti[w] \in Jtis /\ token[jti[w]] # NoToken
  BY RequestOfWorker DEF HoldsToken
<1>2. \A v \in Workers : pc[v] # "idle" => Req(v) \in Requests
  BY RequestOfWorker
<1>3. TypeOK'
  BY <1>1, SignerConstants DEF TypeOK, HoldsAnswer, ResultIffCompleted, CachedIsCompleted
<1>4. HoldsToken' /\ HoldsAnswer'
  BY <1>1 DEF TypeOK, HoldsToken, HoldsAnswer
<1>5. RequestExclusive'
  BY <1>1, <1>2 DEF TypeOK, HoldsToken, RequestExclusive, Req
<1>6. ResultIffCompleted'
  BY <1>1, SignerConstants DEF TypeOK, HoldsAnswer, ResultIffCompleted
<1>7. CachedIsCompleted'
  BY <1>1, <1>2 DEF TypeOK, CachedIsCompleted, Req
<1>8. CachedIsAnswer'
  <2>1. dedup[Req(w)] = "in_progress"
    BY DEF RequestExclusive
  <2>2. ASSUME NEW v \in Workers, v # w, pc[v] \in Recording \cup {"respond"}
        PROVE  Req(v) # Req(w) /\ result[Req(v)] = out[v]
    <3>1. result[Req(v)] = out[v] /\ out[v] \in Txsets /\ Req(v) \in Requests
      BY <1>2, <2>2 DEF CachedIsAnswer, HoldsAnswer
    <3>2. dedup[Req(v)] = "completed"
      BY <3>1, SignerConstants DEF ResultIffCompleted
    <3> QED BY <3>1, <3>2, <2>1
  <2>3. \A v \in Workers : Req(v)' = Req(v)
    BY <2>1 DEF Req
  <2> QED BY <1>1, <1>2, <2>1, <2>2, <2>3 DEF TypeOK, CachedIsAnswer
<1>9. UnspentUncalled' /\ JtiSingleUse'
  BY <1>1 DEF TypeOK, UnspentUncalled, JtiSingleUse
<1> QED BY <1>3, <1>4, <1>5, <1>6, <1>7, <1>8, <1>9

(* Storing the proof of the requested txset, or failing to.                *)
LEMMA StoreQuorumSignProofStep ==
    ASSUME IInv, NEW w \in Workers, StoreQuorumSignProof(w)
    PROVE  IInv'
<1> USE DEF IInv, StoreQuorumSignProof, UpsertProof
<1>1. Req(w) \in Requests /\ jti[w] \in Jtis /\ token[jti[w]] # NoToken
  BY RequestOfWorker DEF HoldsToken
<1>3. TypeOK'
  BY <1>1, SignerConstants DEF TypeOK, HoldsAnswer, ResultIffCompleted, CachedIsCompleted
<1>4. HoldsToken' /\ HoldsAnswer'
  BY <1>1 DEF TypeOK, HoldsToken, HoldsAnswer
<1>5. RequestExclusive'
  BY <1>1 DEF TypeOK, HoldsToken, RequestExclusive, Req
<1>6. ResultIffCompleted'
  BY <1>1, SignerConstants DEF TypeOK, HoldsAnswer, ResultIffCompleted
<1>7. CachedIsCompleted' /\ CachedIsAnswer'
  BY <1>1 DEF TypeOK, HoldsToken, RequestExclusive, ResultIffCompleted,
     CachedIsCompleted, CachedIsAnswer, Req
<1>8. UnspentUncalled' /\ JtiSingleUse'
  BY <1>1 DEF TypeOK, UnspentUncalled, JtiSingleUse
<1> QED BY <1>3, <1>4, <1>5, <1>6, <1>7, <1>8

(* Storing the proof of the signed artifact, or failing to.                *)
LEMMA StoreArtifactProofStep ==
    ASSUME IInv, NEW w \in Workers, StoreArtifactProof(w)
    PROVE  IInv'
<1> USE DEF IInv, StoreArtifactProof, UpsertProof
<1>1. Req(w) \in Requests /\ jti[w] \in Jtis /\ token[jti[w]] # NoToken
  BY RequestOfWorker DEF HoldsToken
<1>3. TypeOK'
  BY <1>1, SignerConstants DEF TypeOK, HoldsAnswer, ResultIffCompleted, CachedIsCompleted
<1>4. HoldsToken' /\ HoldsAnswer'
  BY <1>1 DEF TypeOK, HoldsToken, HoldsAnswer
<1>5. RequestExclusive'
  BY <1>1 DEF TypeOK, HoldsToken, RequestExclusive, Req
<1>6. ResultIffCompleted'
  BY <1>1, SignerConstants DEF TypeOK, HoldsAnswer, ResultIffCompleted
<1>7. CachedIsCompleted' /\ CachedIsAnswer'
  BY <1>1 DEF TypeOK, HoldsToken, RequestExclusive, ResultIffCompleted,
     CachedIsCompleted, CachedIsAnswer, Req
<1>8. UnspentUncalled' /\ JtiSingleUse'
  BY <1>1 DEF TypeOK, UnspentUncalled, JtiSingleUse
<1> QED BY <1>3, <1>4, <1>5, <1>6, <1>7, <1>8

(* A failed database call drops the worker's memory, never a row.          *)
LEMMA StorageFailureStep ==
    ASSUME IInv, NEW w \in Workers, StorageFailure(w)
    PROVE  IInv'
<1> USE DEF IInv, StorageFailure, LeftBehind
<1>1. Req(w) \in Requests /\ jti[w] \in Jtis /\ token[jti[w]] # NoToken
  BY RequestOfWorker DEF HoldsToken
<1>3. TypeOK'
  BY <1>1, SignerConstants DEF TypeOK, HoldsAnswer, ResultIffCompleted, CachedIsCompleted
<1>4. HoldsToken' /\ HoldsAnswer'
  BY <1>1 DEF TypeOK, HoldsToken, HoldsAnswer
<1>5. RequestExclusive'
  BY <1>1 DEF TypeOK, HoldsToken, RequestExclusive, Req
<1>6. ResultIffCompleted'
  BY <1>1, SignerConstants DEF TypeOK, HoldsAnswer, ResultIffCompleted
<1>7. CachedIsCompleted' /\ CachedIsAnswer'
  BY <1>1 DEF TypeOK, HoldsToken, RequestExclusive, ResultIffCompleted,
     CachedIsCompleted, CachedIsAnswer, Req
<1>8. UnspentUncalled' /\ JtiSingleUse'
  BY <1>1 DEF TypeOK, UnspentUncalled, JtiSingleUse
<1> QED BY <1>3, <1>4, <1>5, <1>6, <1>7, <1>8

(* A dropped handler takes the worker's memory with it, never a row.       *)
LEMMA HandlerDroppedStep ==
    ASSUME IInv, NEW w \in Workers, HandlerDropped(w)
    PROVE  IInv'
<1> USE DEF IInv, HandlerDropped, LeftBehind
<1>1. Req(w) \in Requests /\ jti[w] \in Jtis /\ token[jti[w]] # NoToken
  BY RequestOfWorker DEF HoldsToken
<1>3. TypeOK'
  BY <1>1, SignerConstants DEF TypeOK, HoldsAnswer, ResultIffCompleted, CachedIsCompleted
<1>4. HoldsToken' /\ HoldsAnswer'
  BY <1>1 DEF TypeOK, HoldsToken, HoldsAnswer
<1>5. RequestExclusive'
  BY <1>1 DEF TypeOK, HoldsToken, RequestExclusive, Req
<1>6. ResultIffCompleted'
  BY <1>1, SignerConstants DEF TypeOK, HoldsAnswer, ResultIffCompleted
<1>7. CachedIsCompleted' /\ CachedIsAnswer'
  BY <1>1 DEF TypeOK, HoldsToken, RequestExclusive, ResultIffCompleted,
     CachedIsCompleted, CachedIsAnswer, Req
<1>8. UnspentUncalled' /\ JtiSingleUse'
  BY <1>1 DEF TypeOK, UnspentUncalled, JtiSingleUse
<1> QED BY <1>3, <1>4, <1>5, <1>6, <1>7, <1>8

(* Consuming the token's jti: a replayed jti sends the worker to the abort,
   a fresh one arms it for its single wallet call.                         *)
LEMMA ConsumeActionJtiStep ==
    ASSUME IInv, NEW w \in Workers, ConsumeActionJti(w)
    PROVE  IInv'
<1> USE DEF IInv, ConsumeActionJti, JtiReplayed, IsSign
<1>1. Req(w) \in Requests /\ jti[w] \in Jtis /\ token[jti[w]] # NoToken
  BY RequestOfWorker DEF HoldsToken
<1>3. TypeOK'
  BY <1>1, SignerConstants DEF TypeOK
<1>4. HoldsToken' /\ HoldsAnswer'
  BY <1>1 DEF TypeOK, HoldsToken, HoldsAnswer
<1>5. RequestExclusive'
  BY <1>1 DEF TypeOK, HoldsToken, RequestExclusive, Req
<1>6. ResultIffCompleted'
  BY <1>1 DEF TypeOK, ResultIffCompleted
<1>7. CachedIsCompleted' /\ CachedIsAnswer'
  BY <1>1 DEF TypeOK, HoldsToken, CachedIsCompleted, CachedIsAnswer, Req
<1>8. UnspentUncalled'
  BY <1>1 DEF TypeOK, UnspentUncalled
<1>9. JtiSingleUse'
  BY <1>1 DEF TypeOK, UnspentUncalled, JtiSingleUse
<1> QED BY <1>3, <1>4, <1>5, <1>6, <1>7, <1>8, <1>9

(* The abort deletes an in-progress row only, which carries no answer.      *)
LEMMA AbortSignRequestStep ==
    ASSUME IInv, NEW w \in Workers, AbortSignRequest(w)
    PROVE  IInv'
<1> USE DEF IInv, AbortSignRequest, AfterAbort
<1>1. Req(w) \in Requests /\ jti[w] \in Jtis /\ token[jti[w]] # NoToken
  BY RequestOfWorker DEF HoldsToken
<1>3. TypeOK'
  BY <1>1, SignerConstants DEF TypeOK, HoldsAnswer
<1>4. HoldsToken' /\ HoldsAnswer'
  BY <1>1 DEF TypeOK, HoldsToken, HoldsAnswer
<1>5. RequestExclusive'
  BY <1>1 DEF TypeOK, HoldsToken, RequestExclusive, Req
<1>6. ResultIffCompleted'
  BY <1>1, SignerConstants DEF TypeOK, ResultIffCompleted
<1>7. CachedIsCompleted' /\ CachedIsAnswer'
  BY <1>1 DEF TypeOK, HoldsToken, RequestExclusive, ResultIffCompleted,
     CachedIsCompleted, CachedIsAnswer, Req
<1>8. UnspentUncalled' /\ JtiSingleUse'
  BY <1>1 DEF TypeOK, UnspentUncalled, JtiSingleUse
<1> QED BY <1>3, <1>4, <1>5, <1>6, <1>7, <1>8

(* Recording the sign event touches the event log and the step alone.       *)
LEMMA RecordSignEventStep ==
    ASSUME IInv, NEW w \in Workers, RecordSignEvent(w)
    PROVE  IInv'
<1> USE DEF IInv, RecordSignEvent, InsertEvent
<1>1. Req(w) \in Requests /\ jti[w] \in Jtis /\ token[jti[w]] # NoToken
  BY RequestOfWorker DEF HoldsToken
<1>3. TypeOK'
  BY <1>1, SignerConstants DEF TypeOK, HoldsAnswer
<1>4. HoldsToken' /\ HoldsAnswer'
  BY <1>1 DEF TypeOK, HoldsToken, HoldsAnswer
<1>5. RequestExclusive'
  BY <1>1 DEF TypeOK, HoldsToken, RequestExclusive, Req
<1>6. ResultIffCompleted'
  BY <1>1, SignerConstants DEF TypeOK, ResultIffCompleted
<1>7. CachedIsCompleted' /\ CachedIsAnswer'
  BY <1>1 DEF TypeOK, HoldsToken, RequestExclusive, ResultIffCompleted,
     CachedIsCompleted, CachedIsAnswer, Req
<1>8. UnspentUncalled' /\ JtiSingleUse'
  BY <1>1 DEF TypeOK, UnspentUncalled, JtiSingleUse
<1> QED BY <1>3, <1>4, <1>5, <1>6, <1>7, <1>8

(* Recording the event of the signed artifact, likewise.                    *)
LEMMA RecordArtifactEventStep ==
    ASSUME IInv, NEW w \in Workers, RecordArtifactEvent(w)
    PROVE  IInv'
<1> USE DEF IInv, RecordArtifactEvent, InsertEvent, ArtifactTxset
<1>1. Req(w) \in Requests /\ jti[w] \in Jtis /\ token[jti[w]] # NoToken
  BY RequestOfWorker DEF HoldsToken
<1>3. TypeOK'
  BY <1>1, SignerConstants DEF TypeOK, HoldsAnswer
<1>4. HoldsToken' /\ HoldsAnswer'
  BY <1>1 DEF TypeOK, HoldsToken, HoldsAnswer
<1>5. RequestExclusive'
  BY <1>1 DEF TypeOK, HoldsToken, RequestExclusive, Req
<1>6. ResultIffCompleted'
  BY <1>1, SignerConstants DEF TypeOK, ResultIffCompleted
<1>7. CachedIsCompleted' /\ CachedIsAnswer'
  BY <1>1 DEF TypeOK, HoldsToken, RequestExclusive, ResultIffCompleted,
     CachedIsCompleted, CachedIsAnswer, Req
<1>8. UnspentUncalled' /\ JtiSingleUse'
  BY <1>1 DEF TypeOK, UnspentUncalled, JtiSingleUse
<1> QED BY <1>3, <1>4, <1>5, <1>6, <1>7, <1>8

(* Every step of the system preserves the invariant.                       *)
LEMMA IInvInductive ==
    ASSUME IInv, [Next]_vars
    PROVE  IInv'
<1> USE SignerConstants
<1> USE DEF IInv, TypeOK, HoldsToken, HoldsAnswer, RequestExclusive, ResultIffCompleted,
            CachedIsCompleted, CachedIsAnswer, UnspentUncalled, JtiSingleUse,
            Req, Txset, Tokens, Requests, Ops, SignReq, SubmitReq
<1>1. ASSUME NEW j \in Jtis, NEW t \in Txsets, IssueSignToken(j, t)
     PROVE  IInv'
  BY <1>1 DEF IssueSignToken
<1>2. ASSUME NEW j \in Jtis, NEW t \in Txsets, IssueSubmitToken(j, t)
     PROVE  IInv'
  BY <1>2 DEF IssueSubmitToken
<1>3. ASSUME NEW t \in Txsets, NEW s \in SellerJtis, SellerStoresProof(t, s)
     PROVE  IInv'
  BY <1>3 DEF SellerStoresProof
<1>4. ASSUME NEW w \in Workers, NEW j \in Jtis, Receive(w, j)
     PROVE  IInv'
  BY <1>4 DEF Receive
<1>5. ASSUME NEW w \in Workers, ConsumeActionJti(w)
     PROVE  IInv'
  BY <1>5, ConsumeActionJtiStep
<1>6. ASSUME NEW w \in Workers, AbortSignRequest(w)
     PROVE  IInv'
  BY <1>6, AbortSignRequestStep
<1>7. ASSUME NEW w \in Workers, CheckArbiterProof(w)
     PROVE  IInv'
  BY <1>7 DEF CheckArbiterProof
<1>8. ASSUME NEW w \in Workers, WalletRefuses(w)
     PROVE  IInv'
  BY <1>8 DEF WalletRefuses, WalletCall
<1>9. ASSUME NEW w \in Workers, RecordSignEvent(w)
     PROVE  IInv'
  BY <1>9, RecordSignEventStep
<1>10. ASSUME NEW w \in Workers, RecordArtifactEvent(w)
     PROVE  IInv'
  BY <1>10, RecordArtifactEventStep
<1>11. ASSUME NEW w \in Workers, Respond(w)
     PROVE  IInv'
  BY <1>11 DEF Respond, Reply
<1>12. ASSUME NEW w \in Workers, NEW a \in Txsets, WalletOk(w, a)
     PROVE  IInv'
  BY <1>12 DEF WalletOk, WalletCall, Effect
<1>13. ASSUME NEW w \in Workers, NEW a \in Txsets, WalletAnswerLost(w, a)
     PROVE  IInv'
  BY <1>13 DEF WalletAnswerLost, WalletCall, Effect
<1>14. ASSUME Crash
     PROVE  IInv'
  BY <1>14, RequestOfWorker DEF Crash, LeftBehind
<1>15. ASSUME NEW w \in Workers, WorkerStep(w)
     PROVE  IInv'
  BY <1>15, <1>5, <1>6, <1>7, <1>8, <1>9, <1>10, <1>11, <1>12, <1>13,
     StartSignRequestStep, GetSignRequestStep, ConsumeForCachedReplyStep,
     ReturnCachedResultStep, CheckSellerProofStep, CompleteSignRequestStep,
     StoreQuorumSignProofStep, StoreArtifactProofStep, Zenon
  DEF WorkerStep, Wallet
<1>16. ASSUME NEW t \in Txsets, NEW j \in Jtis, OperatorStoresProof(t, j)
     PROVE  IInv'
  BY <1>16 DEF OperatorStoresProof
<1>17. CASE UNCHANGED vars
  BY <1>17
<1> QED
  BY <1>1, <1>2, <1>3, <1>4, <1>14, <1>15, <1>16, <1>17, StorageFailureStep,
     HandlerDroppedStep, Zenon
  DEF Next, ControlPlane

(* The empty database of a fresh signer satisfies the invariant.           *)
LEMMA IInvInit == Init => IInv
BY SignerConstants DEF Init, IInv, TypeOK, HoldsToken, HoldsAnswer, RequestExclusive,
   ResultIffCompleted, CachedIsCompleted, CachedIsAnswer, UnspentUncalled, JtiSingleUse

(* The invariant holds in every reachable state.                           *)
LEMMA IInvAlways == Spec => []IInv
BY IInvInit, IInvInductive, PTL DEF Spec

(* The signer's tables and workers keep their types, whatever fails.       *)
THEOREM SignerTypes == Spec => []TypeOK
<1>1. IInv => TypeOK
  BY DEF IInv
<1> QED BY <1>1, IInvAlways, PTL

(* Two workers never run one req_id at the same time, so no worker         *)
(* completes or deletes another's row of sign_request_dedup.               *)
THEOREM SignerExclusive == Spec => []RequestExclusive
<1>1. IInv => RequestExclusive
  BY DEF IInv
<1> QED BY <1>1, IInvAlways, PTL

(* An action token reaches the wallet at most once.                        *)
THEOREM TokenSingleUse == Spec => []JtiSingleUse
<1>1. IInv => JtiSingleUse
  BY DEF IInv
<1> QED BY <1>1, IInvAlways, PTL

-----------------------------------------------------------------------------
(* A step of the flows leaves completed requests, their cached answers and *)
(* their wallet effects alone: only the owner of an in_progress row can    *)
(* complete it, delete it or call the wallet for it.                       *)
LEMMA CompletedStable ==
    ASSUME IInv, [Next]_vars, NEW r \in Requests, dedup[r] = "completed"
    PROVE  /\ dedup'[r] = "completed"
           /\ result'[r] = result[r]
           /\ \A d \in done' \ done : d.req # r
<1> DEFINE Stable == /\ dedup'[r] = "completed"
                     /\ result'[r] = result[r]
                     /\ \A d \in done' \ done : d.req # r
<1> USE DEF IInv
<1>1. ASSUME UNCHANGED <<dedup, result, done>>
      PROVE  Stable
  BY <1>1
<1>2. ASSUME NEW w \in Workers, WorkerStep(w)
      PROVE  Stable
  <2>1. CASE StartSignRequest(w)
    BY <2>1, RequestOfWorker DEF StartSignRequest, RowFree, TypeOK
  <2>2. CASE AbortSignRequest(w)
    BY <2>2, RequestOfWorker DEF AbortSignRequest, AfterAbort, TypeOK
  <2>3. CASE CompleteSignRequest(w)
    BY <2>3, RequestOfWorker DEF CompleteSignRequest, TypeOK
  <2>4. ASSUME NEW a \in Txsets, WalletOk(w, a) \/ WalletAnswerLost(w, a)
        PROVE  Stable
    BY <2>4 DEF WalletOk, WalletAnswerLost, Effect, RequestExclusive
  <2>5. CASE WalletRefuses(w) \/ GetSignRequest(w) \/ ConsumeForCachedReply(w)
    BY <1>1, <2>5 DEF WalletRefuses, GetSignRequest, ConsumeForCachedReply
  <2>6. CASE ReturnCachedResult(w) \/ ConsumeActionJti(w) \/ Respond(w)
    BY <1>1, <2>6 DEF ReturnCachedResult, ConsumeActionJti, Respond
  <2>7. CASE CheckArbiterProof(w) \/ CheckSellerProof(w)
    BY <1>1, <2>7 DEF CheckArbiterProof, CheckSellerProof
  <2>8. CASE \/ RecordSignEvent(w) \/ StoreQuorumSignProof(w)
             \/ RecordArtifactEvent(w) \/ StoreArtifactProof(w)
    BY <1>1, <2>8 DEF RecordSignEvent, StoreQuorumSignProof, RecordArtifactEvent,
                      StoreArtifactProof
  <2> QED BY <1>2, <2>1, <2>2, <2>3, <2>4, <2>5, <2>6, <2>7, <2>8, Zenon
          DEF WorkerStep, Wallet
<1>3. ASSUME NEW w \in Workers, StorageFailure(w) \/ HandlerDropped(w)
      PROVE  Stable
  BY <1>1, <1>3 DEF StorageFailure, HandlerDropped
<1>4. ASSUME NEW w \in Workers, NEW j \in Jtis, Receive(w, j)
      PROVE  Stable
  BY <1>1, <1>4 DEF Receive
<1>5. CASE ControlPlane
  BY <1>1, <1>5 DEF ControlPlane, IssueSignToken, IssueSubmitToken, SellerStoresProof,
                    OperatorStoresProof
<1>6. CASE Crash \/ UNCHANGED vars
  BY <1>1, <1>6 DEF Crash
<1> QED BY <1>2, <1>3, <1>4, <1>5, <1>6 DEF Next

(* A completed request is never signed or relayed again and its cached     *)
(* answer never changes.                                                   *)
THEOREM CompletedIsFinal == Spec => CompletedNeverReruns
<1>1. IInv /\ [Next]_vars =>
        [\A r \in Requests : dedup[r] = "completed" =>
            /\ dedup'[r] = "completed"
            /\ result'[r] = result[r]
            /\ \A d \in done' \ done : d.req # r]_vars
  BY CompletedStable
<1> QED BY <1>1, IInvAlways, PTL DEF Spec, CompletedNeverReruns

-----------------------------------------------------------------------------
(* A step of the flows decides one undecided request, answers with a       *)
(* decided outcome, or is invisible to a caller.                           *)
LEMMA StepRefines ==
    ASSUME IInv, [Next]_vars
    PROVE  [Abstract!Next]_(Abstract!vars)
<1> USE DEF IInv
<1>1. ASSUME UNCHANGED <<result, replies>>
      PROVE  UNCHANGED Abstract!vars
  BY <1>1 DEF Abstract!vars
<1>2. ASSUME NEW w \in Workers, ReturnCachedResult(w)
      PROVE  Abstract!Next
  <2>1. Req(w) \in Requests /\ result[Req(w)] # None
    BY <1>2, RequestOfWorker DEF ReturnCachedResult, CachedIsCompleted, ResultIffCompleted
  <2>2. Abstract!Answer(Req(w))
    BY <1>2, <2>1 DEF ReturnCachedResult, Reply, Abstract!Answer
  <2> QED BY <2>1, <2>2 DEF Abstract!Next
<1>3. ASSUME NEW w \in Workers, Respond(w)
      PROVE  Abstract!Next
  <2>1. Req(w) \in Requests /\ out[w] \in Txsets /\ result[Req(w)] = out[w]
    BY <1>3, RequestOfWorker DEF Respond, HoldsAnswer, CachedIsAnswer
  <2>2. Abstract!Answer(Req(w))
    BY <1>3, <2>1, SignerConstants DEF Respond, Reply, Abstract!Answer
  <2> QED BY <2>1, <2>2 DEF Abstract!Next
<1>4. ASSUME NEW w \in Workers, CompleteSignRequest(w)
      PROVE  Abstract!Next
  <2>1. Req(w) \in Requests /\ out[w] \in Txsets
    BY <1>4, RequestOfWorker DEF CompleteSignRequest, HoldsAnswer
  <2>2. dedup[Req(w)] = "in_progress" /\ result[Req(w)] = None
    BY <1>4, <2>1 DEF CompleteSignRequest, RequestExclusive, ResultIffCompleted
  <2>3. Abstract!Decide(Req(w), out[w])
    BY <1>4, <2>1, <2>2 DEF CompleteSignRequest, CachedResponse, Abstract!Decide
  <2> QED BY <2>1, <2>3 DEF Abstract!Next
<1>5. ASSUME NEW w \in Workers, WorkerStep(w)
      PROVE  Abstract!Next \/ UNCHANGED Abstract!vars
  <2>1. CASE StartSignRequest(w) \/ GetSignRequest(w) \/ ConsumeForCachedReply(w)
    BY <1>1, <2>1 DEF StartSignRequest, GetSignRequest, ConsumeForCachedReply
  <2>2. CASE ConsumeActionJti(w) \/ AbortSignRequest(w)
    BY <1>1, <2>2 DEF ConsumeActionJti, AbortSignRequest
  <2>3. CASE CheckArbiterProof(w) \/ CheckSellerProof(w)
    BY <1>1, <2>3 DEF CheckArbiterProof, CheckSellerProof
  <2>4. CASE Wallet(w)
    BY <1>1, <2>4 DEF Wallet, WalletOk, WalletAnswerLost, WalletRefuses
  <2>5. CASE \/ RecordSignEvent(w) \/ StoreQuorumSignProof(w)
             \/ RecordArtifactEvent(w) \/ StoreArtifactProof(w)
    BY <1>1, <2>5 DEF RecordSignEvent, StoreQuorumSignProof, RecordArtifactEvent,
                      StoreArtifactProof
  <2> QED BY <1>2, <1>3, <1>4, <1>5, <2>1, <2>2, <2>3, <2>4, <2>5, Zenon DEF WorkerStep
<1>6. ASSUME NEW w \in Workers, StorageFailure(w) \/ HandlerDropped(w)
      PROVE  UNCHANGED Abstract!vars
  BY <1>1, <1>6 DEF StorageFailure, HandlerDropped
<1>7. ASSUME NEW w \in Workers, NEW j \in Jtis, Receive(w, j)
      PROVE  UNCHANGED Abstract!vars
  BY <1>1, <1>7 DEF Receive
<1>8. CASE ControlPlane
  BY <1>1, <1>8 DEF ControlPlane, IssueSignToken, IssueSubmitToken, SellerStoresProof,
                    OperatorStoresProof
<1>9. CASE Crash \/ UNCHANGED vars
  BY <1>1, <1>9 DEF Crash
<1> QED BY <1>5, <1>6, <1>7, <1>8, <1>9, Zenon DEF Next

(* The flows implement the one-shot executor: one outcome per req_id, and  *)
(* every caller that gets an answer gets that outcome, whatever crashes,   *)
(* fails or is retried.                                                    *)
THEOREM SignerImplementsOneShot == Spec => OneShotSpec
<1>1. Init => Abstract!Init
  BY DEF Init, Abstract!Init
<1>2. IInv /\ [Next]_vars => [Abstract!Next]_(Abstract!vars)
  BY StepRefines
<1> QED BY <1>1, <1>2, IInvAlways, PTL DEF Spec, OneShotSpec, Abstract!Spec

-----------------------------------------------------------------------------
(***************************************************************************)
(* The record of signatures.  An event or a proof names a token; that the  *)
(* token really signed those bytes, and that no other signature claims     *)
(* them, follows from what the wallet did so far.                          *)
(***************************************************************************)
Signed == {d \in done : d.req.op = "sign_multisig"}

(* What the wallet did, it did for the request of an issued token.         *)
DoneUnderToken == \A d \in done : token[d.jti] # NoToken /\ token[d.jti].req = d.req

(* No two signatures produced the same bytes, and bytes the wallet made up *)
(* itself were never given to it to sign.                                  *)
OneProducer == \A d, e \in Signed : d.out = e.out => d = e
ForeignIsFresh == \A d, e \in Signed : d.out # d.req.txset => e.req.txset # d.out

(* An event names the signature that completed its request.                *)
Explains(e, t) == t \in {e.req.txset, e.out} /\ result[e.req] = e.out
EventsExplained ==
    \A t \in Txsets : events[t] # None =>
        \E e \in Signed : events[t] = e.jti /\ Explains(e, t)

(* Relayed bytes have an event.                                            *)
RelayedHasEvent ==
    \A d \in done : d.req.op = "submit_multisig" => events[d.req.txset] # None

(* What worker w has recorded and checked so far.                          *)
Entry(w) == [jti |-> jti[w], req |-> Req(w), out |-> out[w]]
InStep(w) ==
    /\ pc[w] \in Recording \cup {"complete"} => Entry(w) \in done
    /\ pc[w] \in Recording => IsSign(w)
    /\ pc[w] = "seller" \/ (pc[w] = "wallet" /\ ~IsSign(w)) => events[Txset(w)] # None
    /\ pc[w] \in Recording \ {"event"} => events[Txset(w)] = jti[w]
    /\ pc[w] = "artifact_proof" => events[out[w]] = jti[w]

RecordInv ==
    /\ DoneUnderToken
    /\ OneProducer
    /\ ForeignIsFresh
    /\ EventsExplained
    /\ RelayedHasEvent
    /\ \A w \in Workers : InStep(w)

(* Nothing is recorded yet.                                                *)
LEMMA RecordInit == Init => RecordInv
BY DEF Init, RecordInv, DoneUnderToken, OneProducer, ForeignIsFresh, EventsExplained,
       RelayedHasEvent, InStep, Signed

(* Two signatures that explain events of the same bytes are one signature. *)
LEMMA OneExplanation ==
    ASSUME IInv, OneProducer, ForeignIsFresh, NEW t \in Txsets,
           NEW d \in Signed, NEW e \in Signed, Explains(d, t), Explains(e, t)
    PROVE  d = e
<1>1. /\ d.req \in Requests /\ e.req \in Requests
      /\ d.req.op = "sign_multisig" /\ e.req.op = "sign_multisig"
  BY DEF IInv, TypeOK, Signed
<1>2. ASSUME d.req.txset = e.req.txset PROVE d.req = e.req
  BY <1>1, <1>2 DEF Requests
<1>3. CASE d.req.txset = e.req.txset
  <2>1. d.out = e.out
    BY <1>2, <1>3 DEF Explains
  <2> QED
    BY <2>1 DEF OneProducer
<1>4. CASE d.out = e.out
  BY <1>4 DEF OneProducer
<1>5. CASE d.out = e.req.txset
  BY <1>3, <1>5 DEF ForeignIsFresh
<1>6. CASE e.out = d.req.txset
  BY <1>3, <1>6 DEF ForeignIsFresh
<1> QED
  BY <1>3, <1>4, <1>5, <1>6 DEF Explains

-----------------------------------------------------------------------------
(* Nothing is unsaid: what the wallet did, events and tokens stay.         *)
OnlyGrows ==
    /\ done \subseteq done'
    /\ \A t \in Txsets : events[t] # None => events'[t] = events[t]
    /\ \A j \in Jtis : token[j] # NoToken => token'[j] = token[j]

(* No action deletes from done, from sign_events or from the tokens.       *)
LEMMA StepGrows == ASSUME IInv, [Next]_vars PROVE OnlyGrows
<1>0. TypeOK
  BY DEF IInv
<1>1. ASSUME UNCHANGED <<done, events, token>> PROVE OnlyGrows
  BY <1>1 DEF OnlyGrows
<1>2. ASSUME NEW w \in Workers, WorkerStep(w) PROVE OnlyGrows
  <2>1. CASE StartSignRequest(w) \/ GetSignRequest(w) \/ ConsumeForCachedReply(w)
    BY <1>1, <2>1 DEF StartSignRequest, GetSignRequest, ConsumeForCachedReply
  <2>2. CASE ReturnCachedResult(w) \/ ConsumeActionJti(w) \/ AbortSignRequest(w) \/ Respond(w)
    BY <1>1, <2>2 DEF ReturnCachedResult, ConsumeActionJti, AbortSignRequest, Respond
  <2>3. CASE CheckArbiterProof(w) \/ CheckSellerProof(w)
    BY <1>1, <2>3 DEF CheckArbiterProof, CheckSellerProof
  <2>4. CASE Wallet(w)
    BY <2>4 DEF Wallet, WalletOk, WalletAnswerLost, WalletRefuses, Effect, OnlyGrows
  <2>5. CASE CompleteSignRequest(w) \/ StoreQuorumSignProof(w) \/ StoreArtifactProof(w)
    BY <1>1, <2>5 DEF CompleteSignRequest, StoreQuorumSignProof, StoreArtifactProof
  <2>6. CASE RecordSignEvent(w) \/ RecordArtifactEvent(w)
    BY <1>0, <2>6 DEF RecordSignEvent, RecordArtifactEvent, InsertEvent, TypeOK, OnlyGrows
  <2> QED
    BY <1>2, <2>1, <2>2, <2>3, <2>4, <2>5, <2>6, Zenon DEF WorkerStep
<1>3. ASSUME NEW j \in Jtis, NEW t \in Txsets, IssueSignToken(j, t) \/ IssueSubmitToken(j, t)
      PROVE  OnlyGrows
  BY <1>0, <1>3 DEF IssueSignToken, IssueSubmitToken, TypeOK, OnlyGrows
<1>4. ASSUME NEW w \in Workers, NEW j \in Jtis, Receive(w, j) PROVE OnlyGrows
  BY <1>1, <1>4 DEF Receive
<1>5. CASE \E t \in Txsets, s \in SellerJtis : SellerStoresProof(t, s)
  BY <1>1, <1>5 DEF SellerStoresProof
<1>6. CASE \E j \in Jtis, t \in Txsets : OperatorStoresProof(t, j)
  BY <1>1, <1>6 DEF OperatorStoresProof
<1>7. CASE \E w \in Workers : StorageFailure(w) \/ HandlerDropped(w)
  BY <1>1, <1>7 DEF StorageFailure, HandlerDropped
<1>8. CASE Crash \/ UNCHANGED vars
  BY <1>1, <1>8 DEF Crash
<1> QED
  BY <1>2, <1>3, <1>4, <1>5, <1>6, <1>7, <1>8 DEF Next, ControlPlane

(* What the wallet does for w.                                             *)
WalletActs(w, a) == WalletOk(w, a) \/ WalletAnswerLost(w, a)

(* Only the wallet adds to done.                                           *)
LEMMA OnlyWalletActs ==
    ASSUME [Next]_vars
    PROVE  done' = done \/ \E w \in Workers, a \in Txsets : WalletActs(w, a)
<1>1. ASSUME NEW w \in Workers, WorkerStep(w)
      PROVE  done' = done \/ \E a \in Txsets : WalletActs(w, a)
  BY <1>1 DEF WorkerStep, Wallet, WalletRefuses, WalletActs, StartSignRequest, GetSignRequest,
     ConsumeForCachedReply, ReturnCachedResult, ConsumeActionJti, AbortSignRequest,
     CheckArbiterProof, CheckSellerProof, CompleteSignRequest, RecordSignEvent,
     StoreQuorumSignProof, RecordArtifactEvent, StoreArtifactProof, Respond
<1> QED
  BY <1>1 DEF Next, ControlPlane, IssueSignToken, IssueSubmitToken, OperatorStoresProof,
     SellerStoresProof, Receive, StorageFailure, HandlerDropped, Crash

(* The wallet refuses bytes it signed and answers with bytes it never      *)
(* returned; bytes of its own making no token asks for.                    *)
LEMMA DoneKeeps ==
    ASSUME IInv, RecordInv, [Next]_vars
    PROVE  DoneUnderToken' /\ OneProducer' /\ ForeignIsFresh'
<1> USE DEF RecordInv
<1>1. TypeOK /\ OnlyGrows
  BY StepGrows DEF IInv
<1>2. \A d \in done : token'[d.jti] # NoToken /\ token'[d.jti].req = d.req
  BY <1>1 DEF TypeOK, OnlyGrows, DoneUnderToken
<1>3. CASE done' = done
  BY <1>2, <1>3 DEF DoneUnderToken, OneProducer, ForeignIsFresh, Signed
<1>4. ASSUME NEW w \in Workers, NEW a \in Txsets, WalletActs(w, a)
      PROVE  DoneUnderToken' /\ OneProducer' /\ ForeignIsFresh'
  <2> DEFINE d == [jti |-> jti[w], req |-> Req(w), out |-> a]
  <2>1. /\ done' = done \cup {d}
        /\ token' = token
        /\ IsSign(w) => Txset(w) \notin Produced
        /\ a \in Answers(w)
        /\ jti[w] \in Jtis /\ token[jti[w]] # NoToken
        /\ Req(w) \in Requests
    BY <1>1, <1>4, RequestOfWorker
       DEF WalletActs, WalletOk, WalletAnswerLost, Effect, CanSign, IInv, HoldsToken
  <2>2. DoneUnderToken'
    BY <1>2, <2>1 DEF DoneUnderToken, Req
  <2>3. CASE ~IsSign(w)
    <3>1. Signed' = Signed
      BY <2>1, <2>3 DEF Signed, IsSign
    <3> QED
      BY <2>2, <3>1 DEF OneProducer, ForeignIsFresh
  <2>4. CASE IsSign(w)
    <3>1. Signed' = Signed \cup {d} /\ d.out = a /\ d.req.txset = Txset(w)
      BY <2>1, <2>4 DEF Signed, IsSign, Txset
    <3>2. \A e \in Signed : e.out # a /\ e.out # Txset(w)
      BY <2>1, <2>4 DEF Answers, Artifacts, Produced, Signed
    <3>3. a # Txset(w) => \A e \in Signed : e.req.txset # a
      <4>1. a # Txset(w) => \A j \in Jtis : token[j] # NoToken => token[j].req.txset # a
        BY <2>1, <2>4 DEF Answers, Artifacts
      <4>2. \A e \in Signed : e.jti \in Jtis /\ token[e.jti] # NoToken /\ token[e.jti].req = e.req
        BY <1>1 DEF Signed, TypeOK, DoneUnderToken
      <4> QED
        BY <4>1, <4>2
    <3> HIDE DEF d
    <3>4. OneProducer'
      BY <3>1, <3>2 DEF OneProducer
    <3>5. ForeignIsFresh'
      BY <3>1, <3>2, <3>3 DEF ForeignIsFresh
    <3> QED
      BY <2>2, <3>4, <3>5
  <2> QED
    BY <2>3, <2>4
<1> QED
  BY <1>3, <1>4, OnlyWalletActs

(* The two writes to sign_events.                                          *)
Records(w) == RecordSignEvent(w) \/ RecordArtifactEvent(w)

(* Only they add to it.                                                    *)
LEMMA OnlyRecordsEvents ==
    ASSUME [Next]_vars
    PROVE  events' = events \/ \E w \in Workers : Records(w)
<1>1. ASSUME NEW w \in Workers, WorkerStep(w) PROVE events' = events \/ Records(w)
  BY <1>1 DEF WorkerStep, Wallet, WalletOk, WalletAnswerLost, WalletRefuses, Records,
     StartSignRequest, GetSignRequest, ConsumeForCachedReply, ReturnCachedResult,
     ConsumeActionJti, AbortSignRequest, CheckArbiterProof, CheckSellerProof,
     CompleteSignRequest, StoreQuorumSignProof, StoreArtifactProof, Respond
<1> QED
  BY <1>1 DEF Next, ControlPlane, IssueSignToken, IssueSubmitToken, OperatorStoresProof,
     SellerStoresProof, Receive, StorageFailure, HandlerDropped, Crash

(* The signature a recording worker has in hand explains what it records.  *)
LEMMA RecorderExplains ==
    ASSUME IInv, NEW w \in Workers, InStep(w), pc[w] \in Recording
    PROVE  /\ Entry(w) \in Signed /\ Entry(w).jti = jti[w] /\ jti[w] \in Jtis
           /\ Txset(w) \in Txsets /\ out[w] \in Txsets
           /\ Explains(Entry(w), Txset(w)) /\ Explains(Entry(w), out[w])
<1>1. Entry(w) \in done /\ Req(w).op = "sign_multisig"
  BY DEF InStep, IsSign
<1>2. Entry(w).jti = jti[w] /\ Entry(w).req = Req(w) /\ Entry(w).out = out[w]
  BY DEF Entry
<1>3. result[Req(w)] = out[w] /\ out[w] \in Txsets /\ jti[w] \in Jtis
  BY DEF IInv, CachedIsAnswer, HoldsAnswer, HoldsToken
<1>4. Txset(w) \in Txsets
  BY RequestOfWorker DEF IInv
<1> QED
  BY <1>1, <1>2, <1>3, <1>4 DEF Signed, Explains, Txset

(* What a worker records is its own: whatever event the bytes had before,  *)
(* it named the same token.                                                *)
LEMMA RecordsOwn ==
    ASSUME IInv, RecordInv, NEW w \in Workers, pc[w] \in Recording,
           NEW t \in {Txset(w), out[w]}
    PROVE  events[t] \in {None, jti[w]}
<1>1. /\ Entry(w) \in Signed /\ Entry(w).jti = jti[w]
      /\ t \in Txsets /\ Explains(Entry(w), t)
  BY RecorderExplains DEF RecordInv
<1>2. ASSUME events[t] # None PROVE events[t] = jti[w]
  <2>1. PICK e \in Signed : events[t] = e.jti /\ Explains(e, t)
    BY <1>1, <1>2 DEF RecordInv, EventsExplained
  <2>2. e = Entry(w)
    BY <1>1, <2>1, OneExplanation DEF RecordInv
  <2> QED
    BY <1>1, <2>1, <2>2
<1> QED
  BY <1>2

(* Every event is explained: an old one by the same signature, whose       *)
(* request stays completed, a new one by the signature of its worker.      *)
LEMMA EventsKeep == ASSUME IInv, RecordInv, [Next]_vars PROVE EventsExplained'
<1>1. TypeOK /\ OnlyGrows /\ Signed \subseteq Signed'
  BY StepGrows DEF IInv, OnlyGrows, Signed
<1>2. \A e \in Signed, t \in Txsets : Explains(e, t) => Explains(e, t)'
  <2> SUFFICES ASSUME NEW e \in Signed, NEW t \in Txsets, Explains(e, t)
               PROVE  Explains(e, t)'
    OBVIOUS
  <2>1. e.req \in Requests /\ e.out \in Txsets
    BY <1>1 DEF TypeOK, Signed
  <2>2. dedup[e.req] = "completed"
    BY <2>1, SignerConstants DEF Explains, IInv, ResultIffCompleted
  <2>3. result'[e.req] = result[e.req]
    BY <2>1, <2>2, CompletedStable
  <2> QED
    BY <2>3 DEF Explains
<1>3. ASSUME NEW t \in Txsets, events[t] # None
      PROVE  \E e \in Signed' : events'[t] = e.jti /\ Explains(e, t)'
  <2>1. PICK e \in Signed : events[t] = e.jti /\ Explains(e, t)
    BY <1>3 DEF RecordInv, EventsExplained
  <2> QED
    BY <1>1, <1>2, <1>3, <2>1 DEF OnlyGrows
<1>4. ASSUME NEW t \in Txsets, events[t] = None, events'[t] # None
      PROVE  \E e \in Signed' : events'[t] = e.jti /\ Explains(e, t)'
  <2>1. PICK w \in Workers : Records(w)
    BY <1>4, OnlyRecordsEvents
  <2>2. /\ Entry(w) \in Signed /\ Entry(w).jti = jti[w]
        /\ Explains(Entry(w), Txset(w)) /\ Explains(Entry(w), out[w])
    BY <2>1, RecorderExplains DEF Records, RecordSignEvent, RecordArtifactEvent, RecordInv
  <2>3. t \in {Txset(w), out[w]} /\ events'[t] = jti[w]
    BY <1>1, <1>4, <2>1
       DEF Records, RecordSignEvent, RecordArtifactEvent, InsertEvent, ArtifactTxset, TypeOK
  <2>4. Entry(w) \in Signed' /\ Explains(Entry(w), t)
    BY <1>1, <2>2, <2>3
  <2> DEFINE e == Entry(w)
  <2>5. e \in Signed' /\ events'[t] = e.jti /\ Explains(e, t)
    BY <2>2, <2>3, <2>4
  <2> HIDE DEF e
  <2>6. PICK x \in Signed : x = e
    BY <2>2 DEF e
  <2> QED
    BY <1>1, <1>2, <2>5, <2>6
<1> QED
  BY <1>3, <1>4 DEF EventsExplained

(* A submit gets to the wallet past the arbiter gate only.                 *)
LEMMA RelayedKeeps == ASSUME IInv, RecordInv, [Next]_vars PROVE RelayedHasEvent'
<1>1. TypeOK /\ OnlyGrows
  BY StepGrows DEF IInv
<1>2. \A d \in done : d.req.op = "submit_multisig" => events'[d.req.txset] # None
  BY <1>1 DEF RecordInv, RelayedHasEvent, TypeOK, OnlyGrows, Requests
<1>3. ASSUME NEW w \in Workers, NEW a \in Txsets, WalletActs(w, a)
      PROVE  RelayedHasEvent'
  <2>1. /\ done' = done \cup {[jti |-> jti[w], req |-> Req(w), out |-> a]}
        /\ events' = events /\ pc[w] = "wallet"
    BY <1>3 DEF WalletActs, WalletOk, WalletAnswerLost, Effect
  <2>2. Req(w).op = "submit_multisig" => events[Req(w).txset] # None
    BY <2>1 DEF RecordInv, InStep, IsSign, Txset
  <2> QED
    BY <1>2, <2>1, <2>2 DEF RelayedHasEvent
<1> QED
  BY <1>2, <1>3, OnlyWalletActs DEF RelayedHasEvent

-----------------------------------------------------------------------------
(* A worker that does not move keeps what it recorded and checked.         *)
LEMMA StaysInStep ==
    ASSUME IInv, OnlyGrows, NEW v \in Workers, InStep(v),
           pc'[v] = pc[v], jti'[v] = jti[v], out'[v] = out[v]
    PROVE  InStep(v)'
<1>1. CASE pc[v] = "idle"
  BY <1>1 DEF InStep
<1>2. CASE pc[v] # "idle"
  <2>1. Req(v)' = Req(v) /\ Txset(v)' = Txset(v) /\ IsSign(v)' = IsSign(v) /\ Entry(v)' = Entry(v)
    BY <1>2 DEF IInv, HoldsToken, OnlyGrows, Req, Txset, IsSign, Entry
  <2>2. Txset(v) \in Txsets
    BY <1>2, RequestOfWorker DEF IInv
  <2>3. pc[v] \in Recording => out[v] \in Txsets
    BY DEF IInv, HoldsAnswer
  <2>4. \A t \in Txsets : events[t] # None => events'[t] = events[t]
    BY DEF OnlyGrows
  <2>5. jti[v] # None
    BY <1>2, SignerConstants DEF IInv, HoldsToken
  <2> QED
    BY <2>1, <2>2, <2>3, <2>4, <2>5 DEF InStep, OnlyGrows
<1> QED
  BY <1>1, <1>2

(* The others do not move when w does.                                     *)
LEMMA OthersInStep ==
    ASSUME IInv, RecordInv, OnlyGrows, NEW w \in Workers,
           \A v \in Workers \ {w} : pc'[v] = pc[v] /\ jti'[v] = jti[v] /\ out'[v] = out[v],
           InStep(w)'
    PROVE  \A v \in Workers : InStep(v)'
BY StaysInStep DEF RecordInv

(* The step of a worker that neither records nor gets an answer: it goes   *)
(* on to a place where nothing is due yet, or past a gate.                 *)
LEMMA QuietInStep ==
    ASSUME IInv, RecordInv, NEW w \in Workers,
           \/ StartSignRequest(w) \/ GetSignRequest(w) \/ ConsumeForCachedReply(w)
           \/ ReturnCachedResult(w) \/ ConsumeActionJti(w) \/ AbortSignRequest(w)
           \/ CheckArbiterProof(w) \/ CheckSellerProof(w) \/ WalletRefuses(w)
           \/ Respond(w) \/ StorageFailure(w) \/ HandlerDropped(w)
           \/ \E a \in Txsets : WalletAnswerLost(w, a)
    PROVE  InStep(w)' /\ \A v \in Workers \ {w} :
               pc'[v] = pc[v] /\ jti'[v] = jti[v] /\ out'[v] = out[v]
<1> USE DEF IInv, TypeOK
<1>1. CASE StartSignRequest(w) \/ GetSignRequest(w) \/ ConsumeForCachedReply(w)
  BY <1>1 DEF StartSignRequest, GetSignRequest, ConsumeForCachedReply, InStep
<1>2. CASE \/ ReturnCachedResult(w) \/ AbortSignRequest(w) \/ Respond(w)
           \/ StorageFailure(w) \/ HandlerDropped(w)
  BY <1>2 DEF ReturnCachedResult, AbortSignRequest, Respond, StorageFailure, HandlerDropped,
     InStep
<1>3. CASE WalletRefuses(w) \/ \E a \in Txsets : WalletAnswerLost(w, a)
  BY <1>3 DEF WalletRefuses, WalletAnswerLost, InStep
<1>4. CASE ConsumeActionJti(w)
  BY <1>4 DEF ConsumeActionJti, InStep, IsSign, Req
<1>5. CASE CheckArbiterProof(w)
  BY <1>5 DEF CheckArbiterProof, ArbiterProofMatches, InStep, Txset, Req
<1>6. CASE CheckSellerProof(w)
  <2>1. InStep(w) /\ events' = events /\ token' = token /\ jti' = jti
    BY <1>6 DEF CheckSellerProof, RecordInv
  <2> QED
    BY <1>6, <2>1 DEF CheckSellerProof, InStep, Txset, Req, IsSign
<1> QED
  BY <1>1, <1>2, <1>3, <1>4, <1>5, <1>6

(* A worker that keeps its token and answer serves the same request.       *)
LEMMA SameRequest ==
    ASSUME UNCHANGED <<jti, out, token>>, NEW w \in Workers
    PROVE  Txset(w)' = Txset(w) /\ IsSign(w)' = IsSign(w) /\ Entry(w)' = Entry(w)
BY DEF Txset, IsSign, Entry, Req

(* From the wallet's answer to the last record.                            *)
LEMMA RecordingInStep ==
    ASSUME IInv, RecordInv, NEW w \in Workers,
           \/ \E a \in Txsets : WalletOk(w, a)
           \/ CompleteSignRequest(w)
           \/ RecordSignEvent(w) \/ StoreQuorumSignProof(w)
           \/ RecordArtifactEvent(w) \/ StoreArtifactProof(w)
    PROVE  InStep(w)' /\ \A v \in Workers \ {w} :
               pc'[v] = pc[v] /\ jti'[v] = jti[v] /\ out'[v] = out[v]
<1>1. TypeOK /\ InStep(w)
  BY DEF IInv, RecordInv
<1>2. \A v \in Workers \ {w} : pc'[v] = pc[v] /\ jti'[v] = jti[v] /\ out'[v] = out[v]
  BY <1>1 DEF WalletOk, CompleteSignRequest, RecordSignEvent, StoreQuorumSignProof,
     RecordArtifactEvent, StoreArtifactProof, TypeOK
<1> SUFFICES InStep(w)'
  BY <1>2
<1>3. ASSUME NEW a \in Txsets, WalletOk(w, a) PROVE InStep(w)'
  <2>1. /\ pc'[w] = "complete" /\ out'[w] = a /\ jti'[w] = jti[w] /\ token' = token
        /\ done' = done \cup {[jti |-> jti[w], req |-> Req(w), out |-> a]}
    BY <1>1, <1>3 DEF WalletOk, Effect, TypeOK
  <2> QED
    BY <2>1 DEF InStep, Entry, Req
<1>4. CASE CompleteSignRequest(w)
  <2>1. /\ pc'[w] \in {"idle", "event", "respond"}
        /\ pc'[w] = "event" => /\ IsSign(w) /\ pc[w] = "complete"
                               /\ UNCHANGED <<jti, out, token, done>>
    BY <1>1, <1>4 DEF CompleteSignRequest, TypeOK
  <2> QED
    BY <1>1, <2>1, SameRequest DEF InStep
<1>5. CASE RecordSignEvent(w)
  <2>1. /\ pc[w] = "event" /\ pc'[w] = "proof"
        /\ UNCHANGED <<jti, out, token, done>>
        /\ events' = [events EXCEPT ![Txset(w)] = IF @ = None THEN jti[w] ELSE @]
    BY <1>1, <1>5 DEF RecordSignEvent, InsertEvent, TypeOK
  <2>2. events[Txset(w)] \in {None, jti[w]} /\ Txset(w) \in Txsets
    BY <2>1, RecordsOwn, RequestOfWorker DEF IInv
  <2>3. events'[Txset(w)] = jti[w]
    BY <1>1, <2>1, <2>2 DEF TypeOK
  <2> QED
    BY <1>1, <2>1, <2>3, SameRequest DEF InStep
<1>6. CASE StoreQuorumSignProof(w)
  <2>1. /\ pc[w] = "proof" /\ pc'[w] \in {"idle", "artifact_event"} /\ UNCHANGED <<token, done, events>>
        /\ pc'[w] = "artifact_event" => UNCHANGED <<jti, out>>
    BY <1>1, <1>6 DEF StoreQuorumSignProof, TypeOK
  <2> QED
    BY <1>1, <2>1, SameRequest DEF InStep
<1>7. CASE RecordArtifactEvent(w)
  <2>1. /\ pc[w] = "artifact_event" /\ pc'[w] = "artifact_proof"
        /\ UNCHANGED <<jti, out, token, done>>
        /\ events' = [events EXCEPT ![out[w]] = IF @ = None THEN jti[w] ELSE @]
    BY <1>1, <1>7 DEF RecordArtifactEvent, InsertEvent, ArtifactTxset, TypeOK
  <2>2. events[out[w]] \in {None, jti[w]} /\ out[w] \in Txsets /\ events[Txset(w)] = jti[w]
    BY <1>1, <2>1, RecordsOwn DEF IInv, HoldsAnswer, InStep
  <2>3. events'[out[w]] = jti[w] /\ events'[Txset(w)] = jti[w]
    BY <1>1, <2>1, <2>2, RequestOfWorker DEF TypeOK, IInv
  <2> QED
    BY <1>1, <2>1, <2>3, SameRequest DEF InStep
<1>8. CASE StoreArtifactProof(w)
  BY <1>1, <1>8 DEF StoreArtifactProof, TypeOK, InStep
<1> QED
  BY <1>3, <1>4, <1>5, <1>6, <1>7, <1>8

(* Every worker stays in step.                                             *)
LEMMA InStepKeeps == ASSUME IInv, RecordInv, [Next]_vars PROVE \A w \in Workers : InStep(w)'
<1>1. OnlyGrows /\ TypeOK
  BY StepGrows DEF IInv
<1>2. ASSUME NEW w \in Workers, WorkerStep(w) \/ StorageFailure(w) \/ HandlerDropped(w)
      PROVE  \A v \in Workers : InStep(v)'
  <2>1. InStep(w)' /\ \A v \in Workers \ {w} :
            pc'[v] = pc[v] /\ jti'[v] = jti[v] /\ out'[v] = out[v]
    BY <1>2, QuietInStep, RecordingInStep, Zenon DEF WorkerStep, Wallet
  <2> QED
    BY <1>1, <2>1, OthersInStep
<1>3. ASSUME NEW w \in Workers, NEW j \in Jtis, Receive(w, j)
      PROVE  \A v \in Workers : InStep(v)'
  <2>1. InStep(w)' /\ \A v \in Workers \ {w} :
            pc'[v] = pc[v] /\ jti'[v] = jti[v] /\ out'[v] = out[v]
    BY <1>1, <1>3 DEF Receive, TypeOK, InStep
  <2> QED
    BY <1>1, <2>1, OthersInStep
<1>4. CASE Crash
  BY <1>4 DEF Crash, InStep
<1>5. CASE ControlPlane \/ UNCHANGED vars
  <2>1. UNCHANGED <<pc, jti, out>>
    BY <1>5 DEF ControlPlane, IssueSignToken, IssueSubmitToken, OperatorStoresProof,
       SellerStoresProof
  <2> QED
    BY <1>1, <2>1, StaysInStep DEF RecordInv
<1> QED
  BY <1>2, <1>3, <1>4, <1>5 DEF Next

(* The record stays explained.                                             *)
LEMMA RecordAlways == Spec => []RecordInv
<1>1. IInv /\ RecordInv /\ [Next]_vars => RecordInv'
  BY DoneKeeps, EventsKeep, RelayedKeeps, InStepKeeps DEF RecordInv
<1> QED
  BY <1>1, RecordInit, IInvAlways, PTL DEF Spec

(* submit_multisig_flow: whatever the wallet relays, it signed before,     *)
(* under the token that the sign event of those bytes names; wrong proofs  *)
(* in the orchestrator's table do not change that.                         *)
THEOREM RelayedWasSigned == Spec => []SubmitBacked
<1>1. IInv /\ RecordInv => SubmitBacked
  <2> SUFFICES ASSUME IInv, RecordInv, NEW d \in done, d.req.op = "submit_multisig"
               PROVE  \E e \in done : /\ e.req.op = "sign_multisig"
                                      /\ d.req.txset \in {e.req.txset, e.out}
                                      /\ events[d.req.txset] = e.jti
    BY DEF SubmitBacked
  <2>1. d.req.txset \in Txsets /\ events[d.req.txset] # None
    BY DEF IInv, TypeOK, Requests, RecordInv, RelayedHasEvent
  <2> QED
    BY <2>1 DEF RecordInv, EventsExplained, Explains, Signed
<1> QED
  BY <1>1, IInvAlways, RecordAlways, PTL

-----------------------------------------------------------------------------
(* A proof is upserted after the event of the same bytes was recorded for  *)
(* the same token, or by an operator.                                      *)
LEMMA ProofsKeep ==
    ASSUME IInv, RecordInv, ProofAgreesWithEvent, "operator" \notin Failures, [Next]_vars
    PROVE  ProofAgreesWithEvent'
<1>1. OnlyGrows /\ TypeOK
  BY StepGrows DEF IInv
<1>2. \A t \in Txsets : proofs[t] # None => events'[t] = proofs[t]
  BY <1>1 DEF ProofAgreesWithEvent, OnlyGrows
<1>3. CASE proofs' = proofs
  BY <1>2, <1>3 DEF ProofAgreesWithEvent
<1>4. ASSUME NEW w \in Workers, StoreQuorumSignProof(w) \/ StoreArtifactProof(w)
      PROVE  ProofAgreesWithEvent'
  <2>1. InStep(w) /\ events' = events
    BY <1>4 DEF RecordInv, StoreQuorumSignProof, StoreArtifactProof
  <2>2. CASE StoreQuorumSignProof(w)
    BY <1>1, <1>2, <2>1, <2>2
       DEF StoreQuorumSignProof, UpsertProof, InStep, ProofAgreesWithEvent, TypeOK
  <2>3. CASE StoreArtifactProof(w)
    BY <1>1, <1>2, <2>1, <2>3
       DEF StoreArtifactProof, UpsertProof, InStep, ProofAgreesWithEvent, TypeOK
  <2> QED
    BY <1>4, <2>2, <2>3
<1>5. ASSUME NEW w \in Workers, WorkerStep(w)
      PROVE  proofs' = proofs \/ StoreQuorumSignProof(w) \/ StoreArtifactProof(w)
  BY <1>5 DEF WorkerStep, Wallet, WalletOk, WalletAnswerLost, WalletRefuses, StartSignRequest,
     GetSignRequest, ConsumeForCachedReply, ReturnCachedResult, ConsumeActionJti,
     AbortSignRequest, CheckArbiterProof, CheckSellerProof, CompleteSignRequest,
     RecordSignEvent, RecordArtifactEvent, Respond
<1>6. CASE ControlPlane \/ Crash \/ UNCHANGED vars
  BY <1>3, <1>6 DEF ControlPlane, IssueSignToken, IssueSubmitToken, OperatorStoresProof,
     SellerStoresProof, Crash
<1>7. ASSUME NEW w \in Workers, NEW j \in Jtis, Receive(w, j) PROVE proofs' = proofs
  BY <1>7 DEF Receive
<1>8. ASSUME NEW w \in Workers, StorageFailure(w) \/ HandlerDropped(w) PROVE proofs' = proofs
  BY <1>8 DEF StorageFailure, HandlerDropped
<1> QED
  BY <1>3, <1>4, <1>5, <1>6, <1>7, <1>8 DEF Next

(* sign_multisig_flow: unless an operator files one by hand, the proof the *)
(* orchestrator keeps for a txset names the token of the signer's own      *)
(* event, so a submit token issued from it passes the arbiter gate.        *)
THEOREM ProofsAreEvents == "operator" \notin Failures => (Spec => []ProofAgreesWithEvent)
<1> SUFFICES ASSUME "operator" \notin Failures PROVE Spec => []ProofAgreesWithEvent
  OBVIOUS
<1>1. Init => ProofAgreesWithEvent
  BY DEF Init, ProofAgreesWithEvent
<1>2. IInv /\ RecordInv /\ ProofAgreesWithEvent /\ [Next]_vars => ProofAgreesWithEvent'
  BY ProofsKeep
<1> QED
  BY <1>1, <1>2, IInvAlways, RecordAlways, PTL DEF Spec
=============================================================================
