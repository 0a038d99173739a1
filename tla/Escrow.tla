------------------------------- MODULE Escrow ------------------------------
(***************************************************************************)
(* One escrow contract (multisig/state.rs) driven through the bridge       *)
(* (bridge.rs): three key-exchange rounds between buyer, seller and        *)
(* arbiter, the deposit address, funding, disputes and the two-of-three    *)
(* settlement.                                                             *)
(*                                                                         *)
(* A bridge call rebuilds the contract from the columns its caller passes, *)
(* works on that copy and returns the new columns, which the caller        *)
(* stores.  A call that fails returns nothing, so it changes nothing but   *)
(* the arbiter's wallet, which may have done its part before the failure.  *)
(***************************************************************************)
EXTENDS Naturals, FiniteSets

CONSTANTS
    Infos,        \* multisig_info strings of the participants
    Addresses,    \* valid Monero addresses
    Txids,        \* transaction ids that pass validate_txid
    Reasons,      \* dispute reasons of an accepted length
    Amounts,      \* amount_atomic the escrow may be created with
    Balances,     \* unlocked balances the watcher may report
    FeeFloor, FeeBps, Denominator,  \* fee policy
    MaxU64,       \* largest u64
    Blank,        \* a string that trims to nothing
    Invalid,      \* a string that is no address
    None

ASSUME EscrowConstants ==
    /\ Amounts \subseteq 0 .. MaxU64
    /\ Balances \subseteq 0 .. MaxU64
    /\ FeeFloor \in 0 .. MaxU64
    /\ Denominator \in Nat \ {0}
    /\ FeeBps \in 0 .. Denominator
    /\ {Blank, Invalid, None} \cap (Infos \cup Addresses \cup Txids \cup Reasons) = {}

(* What the arbiter's wallet computes for the others is a value.           *)
WalletInfos == [stage : {"make", "exchange"}, from : Infos \X Infos]

ASSUME WalletAnswersAreValues == None \notin WalletInfos

Traders == {"buyer", "seller"}
Participants == Traders \cup {"arbiter"}
Settled == {"RELEASED", "REFUNDED"}
States == {"NEW", "XMR_MSIG_R1", "XMR_MSIG_R2", "XMR_MSIG_R3", "READY",
           "FUNDED", "DISPUTE"} \cup Settled

VARIABLES
    amount,         \* amount_atomic
    state,
    round,          \* round[n][who]: xmr_r<n>_<who>, or None
    refundAddress,  \* refund addresses of buyer and seller
    deposit,        \* deposit_address
    txid,           \* txid.release, txid.refund
    confirmed,      \* confirmed.release, confirmed.refund: confirmations
    dispute,        \* opener and reason
    wallet,         \* arbiter's wallet: what each round was computed from
    fundedWith      \* history: the balance that made the escrow FUNDED

vars == <<amount, state, round, refundAddress, deposit, txid, confirmed, dispute,
          wallet, fundedWith>>

Init ==
    /\ amount \in Amounts
    /\ state = "NEW"
    /\ round = [n \in 1 .. 3 |-> [p \in Participants |-> None]]
    /\ refundAddress = [p \in Traders |-> None]
    /\ deposit = None
    /\ txid = [release |-> None, refund |-> None]
    /\ confirmed = [release |-> {}, refund |-> {}]
    /\ dispute = [by |-> None, reason |-> None]
    /\ wallet = [make |-> None, exchange |-> None, finalize |-> None]
    /\ fundedWith = None

-----------------------------------------------------------------------------
(* Mutated form: a later value wins.                                       *)
AnyValue(slot, v) == v # Blank

(* set_once: the slot is empty or holds this very value.                   *)
SetOnce(slot, v) == v # Blank /\ slot \in {None, v}

(* set_refund_once: no address, or a blank one, is accepted and ignored.   *)
RefundAccepted(slot, a) == a \in {None, Blank} \/ (a # Invalid /\ slot \in {None, a})
RefundKept(slot, a) == IF a \in {None, Blank} THEN slot ELSE a

Complete(r) == \A p \in Participants : r[p] # None

Inputs(r) == <<r["buyer"], r["seller"]>>

(* The info the arbiter's wallet computes from the others' infos.          *)
Computed(stage, inputs) == [stage |-> stage, from |-> inputs]

(* Mutated form: a wallet that is past the stage answers what it has.      *)
AnswersTwice(stage, inputs) ==
    wallet' = [wallet EXCEPT ![stage] = IF @ = None THEN inputs ELSE @]

(* make_multisig and exchange_multisig_keys work once: a second call fails *)
(* ("already multisig").                                                   *)
WalletDoes(stage, inputs) ==
    /\ wallet[stage] = None
    /\ wallet' = [wallet EXCEPT ![stage] = inputs]

-----------------------------------------------------------------------------
(* What the contract accepts in each round, from whom and in which state.  *)

(* submit_round1, and set_arbiter_round1 for the arbiter.                  *)
Round1Accepts(who, info, refund) ==
    /\ state \in {"NEW", "XMR_MSIG_R1"}
    /\ SetOnce(round[1][who], info)
    /\ who \in Traders => RefundAccepted(refundAddress[who], refund)

(* The arbiter is refused: the bridge does not load the slots of the round *)
(* before, which set_arbiter_round2 and set_arbiter_round3 insist on.      *)
Round2Accepts(who, info) ==
    /\ state = "XMR_MSIG_R2"
    /\ who \in Traders
    /\ SetOnce(round[2][who], info)

Round3Accepts(who, info) ==
    /\ state = "XMR_MSIG_R3"
    /\ who \in Traders
    /\ SetOnce(round[3][who], info)

(* set_arbiter_round2, set_arbiter_round3: store the info the wallet       *)
(* computed next to the completed round r, and enter the next state.       *)
SetArbiterRound2(r) ==
    /\ round' = [round EXCEPT ![1] = r, ![2]["arbiter"] = Computed("make", wallet'["make"])]
    /\ state' = "XMR_MSIG_R2"

SetArbiterRound3(r) ==
    /\ round' = [round EXCEPT ![2] = r, ![3]["arbiter"] = Computed("exchange", wallet'["exchange"])]
    /\ state' = "XMR_MSIG_R3"

(* set_deposit_address; an answer that is no address is a failed call.     *)
SetDepositAddress ==
    /\ deposit' \in Addresses
    /\ state' = "READY"

-----------------------------------------------------------------------------
With(n, who, info) == [round[n] EXCEPT ![who] = info]

(* submit_r1: when the info completes the round, the wallet makes the      *)
(* multisig.                                                               *)
SubmitR1(who, info, refund) ==
    LET r == With(1, who, info) IN
    /\ Round1Accepts(who, info, refund)
    /\ \/ /\ ~Complete(r)
          /\ state' = "XMR_MSIG_R1"
          /\ round' = [round EXCEPT ![1] = r]
          /\ UNCHANGED wallet
       \/ /\ Complete(r)
          /\ WalletDoes("make", Inputs(r))
          /\ SetArbiterRound2(r)
    /\ refundAddress' = [p \in Traders |->
           IF p = who THEN RefundKept(refundAddress[p], refund) ELSE refundAddress[p]]
    /\ UNCHANGED <<amount, deposit, txid, confirmed, dispute, fundedWith>>

SubmitR2(who, info) ==
    LET r == With(2, who, info) IN
    /\ Round2Accepts(who, info)
    /\ \/ /\ ~Complete(r)
          /\ round' = [round EXCEPT ![2] = r]
          /\ UNCHANGED <<state, wallet>>
       \/ /\ Complete(r)
          /\ WalletDoes("exchange", Inputs(r))
          /\ SetArbiterRound3(r)
    /\ UNCHANGED <<amount, refundAddress, deposit, txid, confirmed, dispute, fundedWith>>

(* is_finalize_fallback_error: the wallet says it is final already, or it  *)
(* fails with code 0 and no message, final or not; it is asked for its     *)
(* address instead.                                                        *)
FinalizeFallback == UNCHANGED wallet

SubmitR3(who, info) ==
    LET r == With(3, who, info) IN
    /\ Round3Accepts(who, info)
    /\ round' = [round EXCEPT ![3] = r]
    /\ \/ ~Complete(r) /\ UNCHANGED <<state, deposit, wallet>>
       \/ /\ Complete(r)
          /\ WalletDoes("finalize", Inputs(r)) \/ FinalizeFallback
          /\ SetDepositAddress
    /\ UNCHANGED <<amount, refundAddress, txid, confirmed, dispute, fundedWith>>

(* Any of the three fails after the wallet did its part: the answer was    *)
(* lost, or the wallet could not be stored.                                *)
SubmitFails(n, who, info) ==
    LET r == With(n, who, info)
        stage == CASE n = 1 -> "make" [] n = 2 -> "exchange" [] n = 3 -> "finalize"
    IN
    /\ \/ n = 1 /\ Round1Accepts(who, info, None)
       \/ n = 2 /\ Round2Accepts(who, info)
       \/ n = 3 /\ Round3Accepts(who, info)
    /\ Complete(r)
    /\ WalletDoes(stage, Inputs(r))
    /\ UNCHANGED <<amount, state, round, refundAddress, deposit, txid, confirmed,
                   dispute, fundedWith>>

-----------------------------------------------------------------------------
(* Mutated form: the fee is rounded down.                                  *)
PercentRoundedDown == (amount * FeeBps) \div Denominator

(* The product is taken in u128 and rounded up.                            *)
PercentFee == (amount * FeeBps + Denominator - 1) \div Denominator

(* The fee is the floor or the percentage, whichever is more.              *)
Fee == IF PercentFee > FeeFloor THEN PercentFee ELSE FeeFloor

(* quote fails when the fee or the total does not fit u64.                 *)
QuoteFits == PercentFee <= MaxU64 /\ amount + Fee <= MaxU64

(* mark_funded *)
MarkFunded(balance) ==
    /\ state = "READY"
    /\ balance >= amount
    /\ state' = "FUNDED"
    /\ fundedWith' = balance

FundedCheck(balance) ==
    /\ QuoteFits
    /\ balance >= amount + Fee
    /\ MarkFunded(balance)
    /\ UNCHANGED <<amount, round, refundAddress, deposit, txid, confirmed, dispute, wallet>>

-----------------------------------------------------------------------------
(* normalize_dispute_reason                                                *)
Normalized(r) == IF r = Blank THEN None ELSE r

OpenDispute(who, reason) ==
    LET r == Normalized(reason) IN
    /\ state \in {"READY", "FUNDED", "DISPUTE"}
    /\ dispute.by \in {None, who}
    /\ r # None => dispute.reason \in {None, r}
    /\ dispute' = [by |-> who, reason |-> IF r = None THEN dispute.reason ELSE r]
    /\ state' = "DISPUTE"
    /\ UNCHANGED <<amount, round, refundAddress, deposit, txid, confirmed, wallet, fundedWith>>

(* Mutated form: a settled escrow still takes confirmations of the other   *)
(* outcome.                                                                *)
OpenToBoth(outcome) == {"FUNDED", "DISPUTE"} \cup Settled

(* The states in which an outcome may be confirmed.                        *)
OpenTo(outcome) ==
    {"FUNDED", "DISPUTE", IF outcome = "release" THEN "RELEASED" ELSE "REFUNDED"}

(* confirm_release and confirm_refund                                      *)
Confirm(outcome, who, t) ==
    LET now == confirmed[outcome] \cup {who} IN
    /\ state \in OpenTo(outcome)
    /\ t # None => SetOnce(txid[outcome], t)
    /\ txid' = IF t = None THEN txid ELSE [txid EXCEPT ![outcome] = t]
    /\ confirmed' = [confirmed EXCEPT ![outcome] = now]
    /\ state' = IF Cardinality(now) < 2 THEN state
                ELSE IF outcome = "release" THEN "RELEASED" ELSE "REFUNDED"
    /\ UNCHANGED <<amount, round, refundAddress, deposit, dispute, wallet, fundedWith>>

-----------------------------------------------------------------------------
Next ==
    \/ \E p \in Participants, i \in Infos \cup {Blank} :
           \/ \E a \in Addresses \cup {Blank, Invalid, None} : SubmitR1(p, i, a)
           \/ SubmitR2(p, i)
           \/ SubmitR3(p, i)
           \/ \E n \in 1 .. 3 : SubmitFails(n, p, i)
    \/ \E b \in Balances : FundedCheck(b)
    \/ \E p \in Participants :
           \/ \E r \in Reasons \cup {Blank, None} : OpenDispute(p, r)
           \/ \E outcome \in {"release", "refund"}, t \in Txids \cup {None} :
                  Confirm(outcome, p, t)

Spec == Init /\ [][Next]_vars

-----------------------------------------------------------------------------
(* The arbiter's infos of rounds 2 and 3 were computed from the infos that *)
(* are on record, even after a call that failed halfway was repeated with  *)
(* other infos; and the deposit address is published only after all three  *)
(* parties took part in all three rounds.                                  *)
ArbiterMatchesRecord ==
    /\ round[2]["arbiter"] # None => round[2]["arbiter"] = Computed("make", Inputs(round[1]))
    /\ round[3]["arbiter"] # None => round[3]["arbiter"] = Computed("exchange", Inputs(round[2]))
    /\ deposit # None \/ state \in {"READY", "FUNDED", "DISPUTE"} \cup Settled =>
           deposit # None /\ \A n \in 1 .. 3, p \in Participants : round[n][p] # None

(* "RELEASED and REFUNDED are mutually exclusive": an escrow is settled    *)
(* exactly when one outcome has two of the three parties behind it, and    *)
(* the other then never gets there.                                        *)
SettledByOneQuorum ==
    /\ state = "RELEASED" <=> Cardinality(confirmed.release) >= 2
    /\ state = "REFUNDED" <=> Cardinality(confirmed.refund) >= 2

(* What a step may not do to the record, part by part.                     *)
InfosKept == \A n \in 1 .. 3, p \in Participants : round[n][p] \in {None, round'[n][p]}

AddressesKept ==
    /\ \A p \in Traders : refundAddress[p] \in {None, refundAddress'[p]}
    /\ deposit \in {None, deposit'}

ConfirmationsKept ==
    \A o \in {"release", "refund"} :
        txid[o] \in {None, txid'[o]} /\ confirmed[o] \subseteq confirmed'[o]

DisputeKept ==
    /\ dispute.by \in {None, dispute'.by}
    /\ dispute.reason \in {None, dispute'.reason}

(* What a party put on record (infos, refund address, deposit, txid, the   *)
(* opener and reason of a dispute) is never replaced, and no confirmation  *)
(* is taken back.                                                          *)
RecordsAreKept ==
    [][InfosKept /\ AddressesKept /\ ConfirmationsKept /\ DisputeKept]_vars

(* "required_funding_atomic = amount_atomic + escrow_fee_atomic": an       *)
(* escrow becomes FUNDED only with a balance that leaves at least the      *)
(* floor, and at least the percentage without rounding loss, as the fee.   *)
FundedCoversFee ==
    fundedWith # None =>
        /\ fundedWith >= amount + FeeFloor
        /\ (fundedWith - amount) * Denominator >= amount * FeeBps
=============================================================================
