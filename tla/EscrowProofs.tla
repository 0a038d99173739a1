---------------------------- MODULE EscrowProofs ----------------------------
(***************************************************************************)
(* The settlement of an escrow is decided by one quorum, an escrow is      *)
(* funded only with the fee on top, what the arbiter's wallet computed     *)
(* matches the infos on record, and no record is ever rewritten, for any   *)
(* amounts, balances, infos, addresses, transaction ids and fee policy.    *)
(*                                                                         *)
(* The first two invariants are inductive next to the types they need: the *)
(* state and the sets of confirmations move together, and the amount never *)
(* changes after the balance was compared with it.  The rounds need one of *)
(* their own (RoundsInv below).                                            *)
(*                                                                         *)
(* The last part is about the runtime the bridge reaches the wallets       *)
(* through, WalletRuntime (RuntimeInv).                                    *)
(***************************************************************************)
EXTENDS Escrow, WalletRuntime, FiniteSetTheorems, TLAPS

ConfirmedTyped ==
    /\ confirmed \in [{"release", "refund"} -> SUBSET Participants]
    /\ state \in States

FundingTyped == amount \in Nat /\ (fundedWith # None => fundedWith \in Nat)

IInv == ConfirmedTyped /\ SettledByOneQuorum /\ FundingTyped /\ FundedCoversFee

-----------------------------------------------------------------------------
(* Rounding up loses nothing.                                              *)
LEMMA RoundedUp ==
    ASSUME NEW x \in Nat, NEW d \in Nat \ {0}
    PROVE  ((x + d - 1) \div d) \in Nat /\ ((x + d - 1) \div d) * d >= x
<1> DEFINE y == x + d - 1
           q == y \div d
           r == y % d
<1>1. y \in Nat
  OBVIOUS
<1>2. q \in Int /\ r \in 0 .. d - 1 /\ y = q * d + r
  BY <1>1, SMTT(30)
<1>3. q \in Nat
  BY <1>1, SMTT(30)
<1>4. q * d \in Int
  BY <1>2
<1>5. q * d = y - r
  BY <1>2, <1>4
<1> QED
  BY <1>3, <1>5, <1>2

(* The smallest balance FundedCheck accepts covers floor and percentage.   *)
LEMMA FeeCovered ==
    ASSUME amount \in Nat, NEW b \in Nat, b >= amount + Fee
    PROVE  b >= amount + FeeFloor /\ (b - amount) * Denominator >= amount * FeeBps
<1> DEFINE x == amount * FeeBps
           d == Denominator
           p == (x + d - 1) \div d
<1>1. x \in Nat /\ d \in Nat \ {0} /\ FeeFloor \in Nat
  BY EscrowConstants
<1>2. PercentFee = p
  BY DEF PercentFee
<1> HIDE DEF x, d
<1>3. p \in Nat /\ p * d >= x
  BY <1>1, RoundedUp
<1> HIDE DEF p
<1>4. b >= amount + FeeFloor /\ b - amount >= p /\ b - amount \in Nat
  BY <1>1, <1>2, <1>3 DEF Fee
<1>5. \A m, n, k \in Nat : m >= n => m * k >= n * k
  OBVIOUS
<1>6. (b - amount) * d >= p * d
  BY <1>1, <1>3, <1>4, <1>5
<1>7. (b - amount) * d >= x
  <2>1. (b - amount) * d \in Nat /\ p * d \in Nat
    BY <1>1, <1>3, <1>4
  <2> QED
    BY <1>1, <1>3, <1>6, <2>1
<1> QED
  BY <1>4, <1>7 DEF x, d

(* Confirmations can be counted.                                           *)
LEMMA PartiesFinite ==
    IsFiniteSet(Participants) /\ \A c \in SUBSET Participants : Cardinality(c) \in Nat
<1>1. IsFiniteSet({}) /\ IsFiniteSet({"buyer"}) /\ IsFiniteSet({"buyer", "seller"})
  <2>1. IsFiniteSet({})
    BY FS_EmptySet
  <2>2. IsFiniteSet({} \cup {"buyer"})
    BY <2>1, FS_AddElement
  <2>3. IsFiniteSet(({} \cup {"buyer"}) \cup {"seller"})
    BY <2>2, FS_AddElement
  <2>4. {} \cup {"buyer"} = {"buyer"} /\ ({} \cup {"buyer"}) \cup {"seller"} = {"buyer", "seller"}
    OBVIOUS
  <2> QED
    BY <2>1, <2>2, <2>3, <2>4
<1>2. IsFiniteSet({"buyer", "seller"} \cup {"arbiter"})
  BY <1>1, FS_AddElement
<1>3. IsFiniteSet(Participants)
  BY <1>2 DEF Participants, Traders
<1> QED
  BY <1>3, FS_Subset, FS_CardinalityType

(* Nobody has confirmed and nothing is funded.                             *)
LEMMA IInvInit == Init => IInv
<1> SUFFICES ASSUME Init PROVE IInv
  OBVIOUS
<1>1. ConfirmedTyped /\ FundingTyped /\ FundedCoversFee
  BY EscrowConstants DEF Init, ConfirmedTyped, FundingTyped, FundedCoversFee, States
<1>2. SettledByOneQuorum
  BY FS_EmptySet DEF Init, SettledByOneQuorum
<1> QED
  BY <1>1, <1>2 DEF IInv

(* What neither settles nor takes confirmations.                           *)
LEMMA Unsettled ==
    ASSUME IInv, state \notin Settled, state' \in States \ Settled, UNCHANGED confirmed
    PROVE  ConfirmedTyped' /\ SettledByOneQuorum'
BY DEF IInv, ConfirmedTyped, SettledByOneQuorum, Settled

(* Rounds and disputes.                                                    *)
LEMMA RoundsKeep ==
    ASSUME IInv, NEW p \in Participants, NEW i, NEW a, NEW n \in 1 .. 3, NEW r,
           \/ SubmitR1(p, i, a) \/ SubmitR2(p, i) \/ SubmitR3(p, i) \/ SubmitFails(n, p, i)
           \/ OpenDispute(p, r)
    PROVE  IInv'
<1>1. UNCHANGED <<amount, confirmed, fundedWith>>
  BY DEF SubmitR1, SubmitR2, SubmitR3, SubmitFails, OpenDispute
<1>2. FundingTyped' /\ FundedCoversFee'
  BY <1>1 DEF IInv, FundingTyped, FundedCoversFee
<1>3. state \notin Settled /\ state' \in States \ Settled
  BY DEF SubmitR1, SubmitR2, SubmitR3, SubmitFails, OpenDispute, Round1Accepts, Round2Accepts,
         Round3Accepts, SetArbiterRound2, SetArbiterRound3, SetDepositAddress, States, Settled
<1> QED
  BY <1>1, <1>2, <1>3, Unsettled DEF IInv

(* The balance covers the fee when it is compared.                         *)
LEMMA FundedCheckKeeps == ASSUME IInv, NEW b \in Balances, FundedCheck(b) PROVE IInv'
<1>1. b \in Nat
  BY EscrowConstants
<1>2. amount' = amount /\ fundedWith' = b /\ b >= amount + Fee
  BY DEF FundedCheck, MarkFunded
<1>3. FundingTyped'
  BY <1>1, <1>2 DEF IInv, FundingTyped
<1>4. FundedCoversFee'
  BY <1>1, <1>2, FeeCovered DEF IInv, FundingTyped, FundedCoversFee
<1>5. state \notin Settled /\ state' \in States \ Settled /\ UNCHANGED confirmed
  BY DEF FundedCheck, MarkFunded, States, Settled
<1> QED
  BY <1>3, <1>4, <1>5, Unsettled DEF IInv

(* A confirmation is taken while the other outcome has no quorum, and the  *)
(* second one settles the escrow.                                          *)
LEMMA ConfirmKeeps ==
    ASSUME IInv, NEW outcome \in {"release", "refund"}, NEW p \in Participants, NEW t,
           Confirm(outcome, p, t)
    PROVE  IInv'
<1>1. UNCHANGED <<amount, fundedWith>>
  BY DEF Confirm
<1>2. FundingTyped' /\ FundedCoversFee'
  BY <1>1 DEF IInv, FundingTyped, FundedCoversFee
<1> DEFINE old == confirmed[outcome]
           joined == old \cup {p}
<1>3. /\ confirmed' = [confirmed EXCEPT ![outcome] = joined]
      /\ state \in {"FUNDED", "DISPUTE", IF outcome = "release" THEN "RELEASED" ELSE "REFUNDED"}
      /\ state' = IF Cardinality(joined) < 2 THEN state
                  ELSE IF outcome = "release" THEN "RELEASED" ELSE "REFUNDED"
  BY DEF Confirm, OpenTo
<1>4. joined \in SUBSET Participants /\ old \in SUBSET Participants
  BY DEF IInv, ConfirmedTyped
<1>5. Cardinality(joined) \in Nat /\ Cardinality(old) \in Nat /\ Cardinality(old) <= Cardinality(joined)
  <2>1. IsFiniteSet(joined)
    BY <1>4, PartiesFinite, FS_Subset
  <2>2. old \subseteq joined
    OBVIOUS
  <2> HIDE DEF old, joined
  <2> QED
    BY <1>4, <2>1, <2>2, PartiesFinite, FS_Subset
<1> HIDE DEF joined
<1>6. ConfirmedTyped'
  BY <1>3, <1>4 DEF IInv, ConfirmedTyped, States, Settled
<1>7. /\ confirmed'[outcome] = joined
      /\ \A o \in {"release", "refund"} \ {outcome} : confirmed'[o] = confirmed[o]
  BY <1>3 DEF IInv, ConfirmedTyped
<1>8. SettledByOneQuorum'
  BY <1>3, <1>5, <1>7 DEF IInv, SettledByOneQuorum
<1> QED
  BY <1>2, <1>6, <1>8 DEF IInv

(* Every bridge call keeps the invariant.                                  *)
LEMMA IInvInductive == IInv /\ [Next]_vars => IInv'
<1> SUFFICES ASSUME IInv, [Next]_vars PROVE IInv'
  OBVIOUS
<1>1. CASE UNCHANGED vars
  BY <1>1 DEF vars, IInv, ConfirmedTyped, SettledByOneQuorum, FundingTyped, FundedCoversFee
<1>2. 1 \in 1 .. 3
  OBVIOUS
<1> QED
  BY <1>1, <1>2, RoundsKeep, FundedCheckKeeps, ConfirmKeeps DEF Next

-----------------------------------------------------------------------------
(* confirm_release and confirm_refund: RELEASED and REFUNDED are each      *)
(* reached exactly with two of three confirmations, so never both.         *)
THEOREM OneQuorumSettles == Spec => []SettledByOneQuorum
<1>1. IInv => SettledByOneQuorum
  BY DEF IInv
<1> QED
  BY <1>1, IInvInit, IInvInductive, PTL DEF Spec

(* funded_check: the balance that funded an escrow leaves floor and        *)
(* percentage as the fee, whatever the rounding.                           *)
THEOREM FundedWithFee == Spec => []FundedCoversFee
<1>1. IInv => FundedCoversFee
  BY DEF IInv
<1> QED
  BY <1>1, IInvInit, IInvInductive, PTL DEF Spec

-----------------------------------------------------------------------------
(***************************************************************************)
(* The rounds.  What the arbiter's wallet computed stays true to the       *)
(* record because a round is closed once the next one has begun, so the    *)
(* state says which slots are still empty and which rounds are complete.   *)
(***************************************************************************)
BeforeR2 == {"NEW", "XMR_MSIG_R1"}
BeforeR3 == BeforeR2 \cup {"XMR_MSIG_R2"}
BeforeReady == BeforeR3 \cup {"XMR_MSIG_R3"}

RoundsTyped ==
    /\ round = [n \in 1 .. 3 |-> [p \in Participants |-> round[n][p]]]
    /\ \A n \in 1 .. 3, p \in Traders : round[n][p] \in Infos \cup {None}
    /\ DOMAIN wallet = {"make", "exchange", "finalize"}
    /\ DOMAIN txid = {"release", "refund"}

NotBegun ==
    /\ state \in BeforeR2 => \A p \in Participants : round[2][p] = None
    /\ state \in BeforeR3 => \A p \in Participants : round[3][p] = None
    /\ state \in BeforeReady <=> deposit = None

Closed ==
    /\ state \notin BeforeR2 => Complete(round[1]) /\ round[2]["arbiter"] # None
    /\ state \notin BeforeR3 => Complete(round[2]) /\ round[3]["arbiter"] # None
    /\ state \notin BeforeReady => Complete(round[3])

Computations ==
    /\ round[2]["arbiter"] # None => round[2]["arbiter"] = Computed("make", Inputs(round[1]))
    /\ round[3]["arbiter"] # None => round[3]["arbiter"] = Computed("exchange", Inputs(round[2]))

RoundsInv == RoundsTyped /\ NotBegun /\ Closed /\ Computations

(* No round has begun.                                                     *)
LEMMA RoundsInit == Init => RoundsInv
BY DEF Init, RoundsInv, RoundsTyped, NotBegun, Closed, Computations, BeforeR2, BeforeR3,
       BeforeReady, Participants, Traders

(* Replacing one round leaves the other two and the slots of nobody else.  *)
LEMMA RoundReplaced ==
    ASSUME RoundsTyped, NEW n \in 1 .. 3, NEW who \in Participants, NEW info
    PROVE  /\ With(n, who, info)[who] = info
           /\ \A p \in Participants \ {who} : With(n, who, info)[p] = round[n][p]
           /\ With(n, who, info) = [p \in Participants |-> With(n, who, info)[p]]
           /\ [round EXCEPT ![n] = With(n, who, info)]
                = [m \in 1 .. 3 |-> IF m = n THEN With(n, who, info) ELSE round[m]]
BY DEF RoundsTyped, With

(* The same, with the arbiter's answer v in the round k after it.          *)
LEMMA AnswerStored ==
    ASSUME RoundsTyped, NEW n \in 1 .. 3, NEW k \in 1 .. 3, k # n, NEW r, NEW v
    PROVE  [round EXCEPT ![n] = r, ![k]["arbiter"] = v]
             = [m \in 1 .. 3 |-> IF m = n THEN r
                                 ELSE IF m = k THEN [round[k] EXCEPT !["arbiter"] = v]
                                 ELSE round[m]]
<1> DEFINE x == [round[k] EXCEPT !["arbiter"] = v]
<1>1. DOMAIN round = 1 .. 3 /\ round = [m \in 1 .. 3 |-> round[m]]
  BY DEF RoundsTyped
<1>2. [round EXCEPT ![n] = r, ![k]["arbiter"] = v]
        = [[round EXCEPT ![n] = r] EXCEPT ![k] = x]
  BY <1>1
<1> HIDE DEF x
<1>3. [[round EXCEPT ![n] = r] EXCEPT ![k] = x]
        = [m \in 1 .. 3 |-> IF m = n THEN r ELSE IF m = k THEN x ELSE round[m]]
  BY <1>1
<1> QED
  BY <1>2, <1>3 DEF x

(* An info that set_once takes is a value, and replaces no other.          *)
LEMMA InfoTaken ==
    ASSUME NEW slot, NEW info \in Infos \cup {Blank}, SetOnce(slot, info)
    PROVE  info \in Infos /\ info # None /\ slot \in {None, info}
BY EscrowConstants DEF SetOnce

(* What the wallet computes from two infos is no empty slot.               *)
LEMMA AnswerIsValue ==
    ASSUME NEW stage \in {"make", "exchange"}, NEW r, r["buyer"] \in Infos, r["seller"] \in Infos
    PROVE  Computed(stage, Inputs(r)) # None
BY WalletAnswersAreValues DEF Computed, Inputs, WalletInfos

(* Round 1: the info goes into its slot, and when that completes the round *)
(* the arbiter's answer opens round 2.                                     *)
LEMMA SubmitR1Effect ==
    ASSUME RoundsInv, NEW p \in Participants, NEW i \in Infos \cup {Blank}, NEW a, SubmitR1(p, i, a)
    PROVE  RoundsInv' /\ InfosKept
<1> DEFINE r == With(1, p, i)
<1>1. RoundsTyped /\ NotBegun
  BY DEF RoundsInv
<1>2. i \in Infos /\ i # None /\ round[1][p] \in {None, i} /\ state \in BeforeR2
  BY InfoTaken DEF SubmitR1, Round1Accepts, BeforeR2
<1>3. /\ r[p] = i
      /\ \A q \in Participants \ {p} : r[q] = round[1][q]
      /\ r = [q \in Participants |-> r[q]]
      /\ [round EXCEPT ![1] = r] = [m \in 1 .. 3 |-> IF m = 1 THEN r ELSE round[m]]
  BY <1>1, RoundReplaced
<1>4. UNCHANGED <<deposit, txid>>
  BY DEF SubmitR1
<1>5. \A q \in Traders : r[q] \in Infos \cup {None}
  BY <1>1, <1>2, <1>3 DEF RoundsTyped, Participants
<1>6. deposit = None
  BY <1>1, <1>2 DEF NotBegun, BeforeReady, BeforeR3
<1>7. CASE ~Complete(r)
  <2>1. /\ state' = "XMR_MSIG_R1"
        /\ round' = [m \in 1 .. 3 |-> IF m = 1 THEN r ELSE round[m]]
        /\ UNCHANGED wallet
    BY <1>3, <1>7 DEF SubmitR1
  <2> HIDE DEF r
  <2>2. round'[1] = r /\ round'[2] = round[2] /\ round'[3] = round[3]
    BY <2>1
  <2>3. RoundsTyped'
    BY <1>1, <1>3, <1>4, <1>5, <2>1, <2>2 DEF RoundsTyped
  <2>4. NotBegun' /\ Closed' /\ Computations'
    BY <1>1, <1>2, <1>4, <1>6, <2>1, <2>2
       DEF NotBegun, Closed, Computations, BeforeR2, BeforeR3, BeforeReady, Participants
  <2>5. InfosKept
    BY <1>2, <1>3, <2>2 DEF InfosKept
  <2> QED
    BY <2>3, <2>4, <2>5 DEF RoundsInv
<1>8. CASE Complete(r)
  <2> DEFINE answer == Computed("make", Inputs(r))
             s == [round[2] EXCEPT !["arbiter"] = answer]
  <2>1. /\ state' = "XMR_MSIG_R2"
        /\ wallet' = [wallet EXCEPT !["make"] = Inputs(r)]
        /\ round' = [round EXCEPT ![1] = r, ![2]["arbiter"] = Computed("make", wallet'["make"])]
    BY <1>8 DEF SubmitR1, SetArbiterRound2, WalletDoes
  <2>2. DOMAIN wallet' = {"make", "exchange", "finalize"} /\ wallet'["make"] = Inputs(r)
    BY <1>1, <2>1 DEF RoundsTyped
  <2>3. round' = [m \in 1 .. 3 |-> IF m = 1 THEN r ELSE IF m = 2 THEN s ELSE round[m]]
    <3> HIDE DEF r
    <3>1. round' = [round EXCEPT ![1] = r, ![2]["arbiter"] = answer]
      BY <2>1, <2>2
    <3>2. 1 \in 1 .. 3 /\ 2 \in 1 .. 3 /\ 2 # 1
      OBVIOUS
    <3> HIDE DEF answer
    <3> QED
      BY <1>1, <3>1, <3>2, AnswerStored, Zenon
  <2>4. answer # None
    BY <1>2, <1>5, <1>8, AnswerIsValue DEF Complete, Participants, Traders
  <2> HIDE DEF r, answer
  <2>5. /\ s["arbiter"] = answer
        /\ \A q \in Participants \ {"arbiter"} : s[q] = round[2][q]
        /\ s = [q \in Participants |-> s[q]]
    BY <1>1 DEF RoundsTyped, Participants
  <2> HIDE DEF s
  <2>6. round'[1] = r /\ round'[2] = s /\ round'[3] = round[3]
    BY <2>3
  <2>7. RoundsTyped'
    <3>1. \A q \in Traders : s[q] \in Infos \cup {None}
      BY <1>1, <2>5 DEF RoundsTyped, Participants, Traders
    <3> QED
      BY <1>1, <1>3, <1>4, <1>5, <2>2, <2>3, <2>5, <2>6, <3>1 DEF RoundsTyped
  <2>8. NotBegun' /\ Closed'
    BY <1>1, <1>2, <1>4, <1>6, <1>8, <2>1, <2>4, <2>5, <2>6
       DEF NotBegun, Closed, BeforeR2, BeforeR3, BeforeReady, Participants
  <2>9. Computations'
    BY <1>1, <1>2, <2>5, <2>6
       DEF Computations, answer, NotBegun, BeforeR3, BeforeR2, Participants
  <2>10. InfosKept
    BY <1>1, <1>2, <1>3, <2>5, <2>6 DEF InfosKept, NotBegun
  <2> QED
    BY <2>7, <2>8, <2>9, <2>10 DEF RoundsInv
<1> QED
  BY <1>7, <1>8

(* Round 2, in which the arbiter's slot is taken: the same with round 3.   *)
LEMMA SubmitR2Effect ==
    ASSUME RoundsInv, NEW p \in Participants, NEW i \in Infos \cup {Blank}, SubmitR2(p, i)
    PROVE  RoundsInv' /\ InfosKept
<1> DEFINE r == With(2, p, i)
<1>1. RoundsTyped /\ NotBegun /\ Closed /\ Computations
  BY DEF RoundsInv
<1>2. /\ i \in Infos /\ i # None /\ round[2][p] \in {None, i}
      /\ state = "XMR_MSIG_R2" /\ p \in Traders
  BY InfoTaken DEF SubmitR2, Round2Accepts
<1>3. /\ r[p] = i
      /\ \A q \in Participants \ {p} : r[q] = round[2][q]
      /\ r = [q \in Participants |-> r[q]]
      /\ [round EXCEPT ![2] = r] = [m \in 1 .. 3 |-> IF m = 2 THEN r ELSE round[m]]
  BY <1>1, RoundReplaced
<1>4. UNCHANGED <<deposit, txid>>
  BY DEF SubmitR2
<1>5. /\ \A q \in Traders : r[q] \in Infos \cup {None}
      /\ r["arbiter"] = round[2]["arbiter"]
  BY <1>1, <1>2, <1>3 DEF RoundsTyped, Participants, Traders
<1>6. /\ deposit = None
      /\ Complete(round[1]) /\ round[2]["arbiter"] # None
      /\ round[2]["arbiter"] = Computed("make", Inputs(round[1]))
      /\ \A q \in Participants : round[3][q] = None
  BY <1>1, <1>2 DEF NotBegun, Closed, Computations, BeforeReady, BeforeR3, BeforeR2
<1>7. CASE ~Complete(r)
  <2>1. /\ state' = "XMR_MSIG_R2"
        /\ round' = [m \in 1 .. 3 |-> IF m = 2 THEN r ELSE round[m]]
        /\ UNCHANGED wallet
    BY <1>2, <1>3, <1>7 DEF SubmitR2
  <2> HIDE DEF r
  <2>2. round'[1] = round[1] /\ round'[2] = r /\ round'[3] = round[3]
    BY <2>1
  <2>3. RoundsTyped'
    BY <1>1, <1>3, <1>4, <1>5, <2>1, <2>2 DEF RoundsTyped
  <2>4. NotBegun' /\ Closed' /\ Computations'
    BY <1>4, <1>5, <1>6, <2>1, <2>2
       DEF NotBegun, Closed, Computations, BeforeR2, BeforeR3, BeforeReady, Participants
  <2>5. InfosKept
    BY <1>2, <1>3, <2>2 DEF InfosKept
  <2> QED
    BY <2>3, <2>4, <2>5 DEF RoundsInv
<1>8. CASE Complete(r)
  <2> DEFINE answer == Computed("exchange", Inputs(r))
             s == [round[3] EXCEPT !["arbiter"] = answer]
  <2>1. /\ state' = "XMR_MSIG_R3"
        /\ wallet' = [wallet EXCEPT !["exchange"] = Inputs(r)]
        /\ round' = [round EXCEPT ![2] = r,
                                  ![3]["arbiter"] = Computed("exchange", wallet'["exchange"])]
    BY <1>8 DEF SubmitR2, SetArbiterRound3, WalletDoes
  <2>2. DOMAIN wallet' = {"make", "exchange", "finalize"} /\ wallet'["exchange"] = Inputs(r)
    BY <1>1, <2>1 DEF RoundsTyped
  <2>3. round' = [m \in 1 .. 3 |-> IF m = 2 THEN r ELSE IF m = 3 THEN s ELSE round[m]]
    <3> HIDE DEF r
    <3>1. round' = [round EXCEPT ![2] = r, ![3]["arbiter"] = answer]
      BY <2>1, <2>2
    <3>2. 2 \in 1 .. 3 /\ 3 \in 1 .. 3 /\ 3 # 2
      OBVIOUS
    <3> HIDE DEF answer
    <3> QED
      BY <1>1, <3>1, <3>2, AnswerStored, Zenon
  <2>4. answer # None
    BY <1>5, <1>8, AnswerIsValue DEF Complete, Participants, Traders
  <2> HIDE DEF r, answer
  <2>5. /\ s["arbiter"] = answer
        /\ \A q \in Participants \ {"arbiter"} : s[q] = round[3][q]
        /\ s = [q \in Participants |-> s[q]]
    BY <1>1 DEF RoundsTyped, Participants
  <2> HIDE DEF s
  <2>6. round'[1] = round[1] /\ round'[2] = r /\ round'[3] = s
    BY <2>3
  <2>7. RoundsTyped'
    <3>1. \A q \in Traders : s[q] \in Infos \cup {None}
      BY <1>1, <2>5 DEF RoundsTyped, Participants, Traders
    <3> QED
      BY <1>1, <1>3, <1>4, <1>5, <2>2, <2>3, <2>5, <2>6, <3>1 DEF RoundsTyped
  <2>8. NotBegun' /\ Closed'
    BY <1>4, <1>5, <1>6, <1>8, <2>1, <2>4, <2>5, <2>6
       DEF NotBegun, Closed, BeforeR2, BeforeR3, BeforeReady
  <2>9. Computations'
    BY <1>5, <1>6, <2>5, <2>6 DEF Computations, answer
  <2>10. InfosKept
    BY <1>2, <1>3, <1>6, <2>6 DEF InfosKept
  <2> QED
    BY <2>7, <2>8, <2>9, <2>10 DEF RoundsInv
<1> QED
  BY <1>7, <1>8

(* Round 3 only fills the slots of buyer and seller; when it is complete   *)
(* the deposit address is published.                                       *)
LEMMA SubmitR3Effect ==
    ASSUME RoundsInv, NEW p \in Participants, NEW i \in Infos \cup {Blank}, SubmitR3(p, i)
    PROVE  RoundsInv' /\ InfosKept
<1> DEFINE r == With(3, p, i)
<1>1. RoundsTyped /\ NotBegun /\ Closed /\ Computations
  BY DEF RoundsInv
<1>2. /\ i \in Infos /\ i # None /\ round[3][p] \in {None, i}
      /\ state = "XMR_MSIG_R3" /\ p \in Traders
  BY InfoTaken DEF SubmitR3, Round3Accepts
<1>3. /\ r[p] = i
      /\ \A q \in Participants \ {p} : r[q] = round[3][q]
      /\ r = [q \in Participants |-> r[q]]
      /\ [round EXCEPT ![3] = r] = [m \in 1 .. 3 |-> IF m = 3 THEN r ELSE round[m]]
  BY <1>1, RoundReplaced
<1>4. /\ UNCHANGED txid
      /\ round' = [m \in 1 .. 3 |-> IF m = 3 THEN r ELSE round[m]]
  BY <1>3 DEF SubmitR3
<1>5. DOMAIN wallet' = {"make", "exchange", "finalize"}
  BY <1>1 DEF SubmitR3, WalletDoes, FinalizeFallback, RoundsTyped
<1>6. \/ state' = "XMR_MSIG_R3" /\ deposit' = deposit
      \/ state' = "READY" /\ deposit' # None /\ Complete(r)
  BY <1>2, EscrowConstants DEF SubmitR3, SetDepositAddress
<1> HIDE DEF r
<1>7. round'[1] = round[1] /\ round'[2] = round[2] /\ round'[3] = r
  BY <1>4
<1>8. /\ \A q \in Traders : r[q] \in Infos \cup {None}
      /\ r["arbiter"] = round[3]["arbiter"]
  BY <1>1, <1>2, <1>3 DEF RoundsTyped, Participants, Traders
<1>9. RoundsTyped'
  BY <1>1, <1>3, <1>4, <1>5, <1>7, <1>8 DEF RoundsTyped
<1>10. NotBegun' /\ Closed' /\ Computations'
  BY <1>1, <1>2, <1>6, <1>7, <1>8
     DEF NotBegun, Closed, Computations, BeforeR2, BeforeR3, BeforeReady
<1>11. InfosKept
  BY <1>2, <1>3, <1>7 DEF InfosKept
<1> QED
  BY <1>9, <1>10, <1>11 DEF RoundsInv

(* Every other call leaves the rounds alone.                               *)
LEMMA RoundsAlone ==
    ASSUME RoundsInv, UNCHANGED <<round, deposit>>,
           DOMAIN wallet' = DOMAIN wallet, DOMAIN txid' = DOMAIN txid,
           state' = state \/ (state \notin BeforeReady /\ state' \notin BeforeReady)
    PROVE  RoundsInv' /\ InfosKept
BY DEF RoundsInv, RoundsTyped, NotBegun, Closed, Computations, InfosKept, BeforeReady, BeforeR3

(* Every bridge call keeps the rounds in order and the infos on record.    *)
LEMMA RoundsInductive == RoundsInv /\ [Next]_vars => RoundsInv' /\ (InfosKept \/ UNCHANGED vars)
<1> SUFFICES ASSUME RoundsInv, [Next]_vars PROVE RoundsInv' /\ (InfosKept \/ UNCHANGED vars)
  OBVIOUS
<1>1. ASSUME NEW p \in Participants, NEW i \in Infos \cup {Blank}, NEW n \in 1 .. 3,
             SubmitFails(n, p, i)
      PROVE  RoundsInv' /\ InfosKept
  <2>1. /\ UNCHANGED <<round, deposit, state, txid>>
        /\ \E stage, x : wallet' = [wallet EXCEPT ![stage] = x]
    BY <1>1, Zenon DEF SubmitFails, WalletDoes
  <2> QED
    BY <2>1, RoundsAlone
<1>2. ASSUME NEW b, FundedCheck(b) PROVE RoundsInv' /\ InfosKept
  BY <1>2, RoundsAlone DEF FundedCheck, MarkFunded, BeforeReady, BeforeR3, BeforeR2
<1>3. ASSUME NEW p, NEW x, OpenDispute(p, x) PROVE RoundsInv' /\ InfosKept
  BY <1>3, RoundsAlone DEF OpenDispute, BeforeReady, BeforeR3, BeforeR2
<1>4. ASSUME NEW p, NEW o, NEW t, Confirm(o, p, t) PROVE RoundsInv' /\ InfosKept
  <2>1. UNCHANGED <<round, deposit, wallet>> /\ DOMAIN txid' = DOMAIN txid
    BY <1>4 DEF Confirm
  <2>2. state \notin BeforeReady /\ state' \notin BeforeReady
    BY <1>4 DEF Confirm, OpenTo, BeforeReady, BeforeR3, BeforeR2
  <2> QED
    BY <2>1, <2>2, RoundsAlone
<1>5. CASE UNCHANGED vars
  BY <1>5, RoundsAlone DEF vars
<1> QED
  BY <1>1, <1>2, <1>3, <1>4, <1>5, SubmitR1Effect, SubmitR2Effect, SubmitR3Effect DEF Next

(* submit_r1 and submit_r2: what set_arbiter_round2 and set_arbiter_round3 *)
(* store was computed from the infos that stay on record, and a deposit    *)
(* address is published only when all parties took part in all rounds.     *)
THEOREM ArbiterComputedFromRecord == Spec => []ArbiterMatchesRecord
<1>1. IInv /\ RoundsInv => ArbiterMatchesRecord
  BY DEF IInv, ConfirmedTyped, States, RoundsInv, NotBegun, Closed, Computations, Complete,
         ArbiterMatchesRecord, BeforeReady, BeforeR3, BeforeR2, Settled
<1>2. RoundsInv /\ [Next]_vars => RoundsInv'
  BY RoundsInductive
<1> QED
  BY <1>1, <1>2, IInvInit, IInvInductive, RoundsInit, PTL DEF Spec

-----------------------------------------------------------------------------
(* The record is never rewritten: set_once and set_refund_once refuse      *)
(* another value, and a round whose slots the arbiter fills is not begun.  *)
LEMMA StepKeepsRecord ==
    IInv /\ RoundsInv /\ [Next]_vars
        => [InfosKept /\ AddressesKept /\ ConfirmationsKept /\ DisputeKept]_vars
<1> SUFFICES ASSUME IInv, RoundsInv, Next, ~UNCHANGED vars
             PROVE  InfosKept /\ AddressesKept /\ ConfirmationsKept /\ DisputeKept
  OBVIOUS
<1>1. InfosKept
  BY RoundsInductive
<1>2. DOMAIN txid = {"release", "refund"} /\ (state \in BeforeReady => deposit = None)
  BY DEF RoundsInv, RoundsTyped, NotBegun
<1>3. ASSUME NEW p \in Participants, NEW i, NEW a, SubmitR1(p, i, a)
      PROVE  AddressesKept /\ ConfirmationsKept /\ DisputeKept
  <2>1. UNCHANGED <<deposit, txid, confirmed, dispute>>
    BY <1>3 DEF SubmitR1
  <2>2. /\ p \in Traders => RefundAccepted(refundAddress[p], a)
        /\ refundAddress' = [q \in Traders |->
               IF q = p THEN RefundKept(refundAddress[q], a) ELSE refundAddress[q]]
    BY <1>3 DEF SubmitR1, Round1Accepts
  <2> QED
    BY <2>1, <2>2 DEF AddressesKept, ConfirmationsKept, DisputeKept, RefundAccepted, RefundKept
<1>4. ASSUME NEW p, NEW i, NEW n, SubmitR2(p, i) \/ SubmitFails(n, p, i)
      PROVE  AddressesKept /\ ConfirmationsKept /\ DisputeKept
  <2>1. UNCHANGED <<refundAddress, deposit, txid, confirmed, dispute>>
    BY <1>4, Zenon DEF SubmitR2, SubmitFails
  <2> QED
    BY <2>1 DEF AddressesKept, ConfirmationsKept, DisputeKept
<1>5. ASSUME NEW p, NEW i, SubmitR3(p, i)
      PROVE  AddressesKept /\ ConfirmationsKept /\ DisputeKept
  <2>1. UNCHANGED <<refundAddress, txid, confirmed, dispute>> /\ state \in BeforeReady
    BY <1>5 DEF SubmitR3, Round3Accepts, BeforeReady
  <2> QED
    BY <1>2, <2>1 DEF AddressesKept, ConfirmationsKept, DisputeKept
<1>6. ASSUME NEW b, FundedCheck(b) PROVE AddressesKept /\ ConfirmationsKept /\ DisputeKept
  BY <1>6 DEF FundedCheck, AddressesKept, ConfirmationsKept, DisputeKept
<1>7. ASSUME NEW p, NEW x, OpenDispute(p, x)
      PROVE  AddressesKept /\ ConfirmationsKept /\ DisputeKept
  <2>1. UNCHANGED <<refundAddress, deposit, txid, confirmed>>
    BY <1>7 DEF OpenDispute
  <2>2. DisputeKept
    BY <1>7 DEF OpenDispute, DisputeKept
  <2> QED
    BY <2>1, <2>2 DEF AddressesKept, ConfirmationsKept
<1>8. ASSUME NEW p \in Participants, NEW o \in {"release", "refund"}, NEW t, Confirm(o, p, t)
      PROVE  AddressesKept /\ ConfirmationsKept /\ DisputeKept
  <2>1. UNCHANGED <<refundAddress, deposit, dispute>>
    BY <1>8 DEF Confirm
  <2>2. DOMAIN confirmed = {"release", "refund"}
    BY DEF IInv, ConfirmedTyped
  <2>3. /\ t # None => txid[o] \in {None, t}
        /\ txid' = IF t = None THEN txid ELSE [txid EXCEPT ![o] = t]
        /\ confirmed' = [confirmed EXCEPT ![o] = confirmed[o] \cup {p}]
    BY <1>8 DEF Confirm, SetOnce
  <2>4. ConfirmationsKept
    BY <1>2, <2>2, <2>3 DEF ConfirmationsKept
  <2> QED
    BY <2>1, <2>4 DEF AddressesKept, DisputeKept
<1> QED
  BY <1>1, <1>3, <1>4, <1>5, <1>6, <1>7, <1>8 DEF Next

(* set_once, set_refund_once and the dispute and confirmation handlers: no *)
(* step replaces what a party put on record or takes a confirmation back.  *)
THEOREM NothingOnRecordChanges == Spec => RecordsAreKept
<1>1. RoundsInv /\ [Next]_vars => RoundsInv'
  BY RoundsInductive
<1> QED
  BY <1>1, IInvInit, IInvInductive, RoundsInit, StepKeepsRecord, PTL DEF Spec, RecordsAreKept

-----------------------------------------------------------------------------
(***************************************************************************)
(* The wallet-rpc runtime the bridge reaches the arbiter's wallet through. *)
(***************************************************************************)
BusyCalls == [at : {"open", "create", "probe", "close", "gate", "wait", "run", "store"},
         escrow : Escrows, attempt : 1 .. OpenAttempts]

(* The cache of clients, the breakers, the mutexes and the calls.          *)
CacheOK ==
    /\ lastUsed \in [Escrows -> Nat \cup {Nil}]
    /\ IsFiniteSet(Cached(lastUsed))
    /\ Cardinality(Cached(lastUsed)) <= MaxEntries

CallsOK ==
    /\ circuit \in [Endpoints -> [failures : 0 .. FailThreshold - 1, openUntil : Nat]]
    /\ lock \in [Endpoints -> Callers \cup {Nil}]
    /\ call \in [Callers -> {Idle} \cup BusyCalls]

(* A call closes the wallet only to try again.                             *)
ClosesToRetry == \A c \in Callers : At(c) = "close" => call[c].attempt < OpenAttempts

RuntimeOK == CacheOK /\ CallsOK /\ ClosesToRetry /\ BreakerGuardsEndpoint

WalletsOK ==
    /\ opened \in [Endpoints -> Escrows \cup {Nil}]
    /\ files \subseteq Escrows
    /\ intruded \subseteq Endpoints

RuntimeInv == now \in 0 .. MaxNow /\ RuntimeOK /\ WalletsOK

(* Every escrow has an entry of the pool.                                  *)
LEMMA PortInPool == \A e \in Escrows : PickPort(e) \in Endpoints
<1> SUFFICES ASSUME NEW e \in Escrows PROVE PickPort(e) \in Endpoints
  OBVIOUS
<1>1. e \in Nat /\ Len(Ports) \in Nat \ {0}
  BY RuntimeConstants
<1>2. (e % Len(Ports)) + 1 \in 1 .. Len(Ports)
  BY <1>1
<1> QED
  BY <1>2 DEF PickPort, Endpoints

LEMMA RuntimeInvInit == RuntimeInit => RuntimeInv
<1> SUFFICES ASSUME RuntimeInit PROVE RuntimeInv
  OBVIOUS
<1> USE DEF RuntimeInit
<1>1. Cached(lastUsed) = {}
  BY DEF Cached
<1>2. CacheOK
  <2>1. IsFiniteSet(Cached(lastUsed)) /\ Cardinality(Cached(lastUsed)) = 0
    BY <1>1, FS_EmptySet
  <2>2. lastUsed \in [Escrows -> Nat \cup {Nil}]
    OBVIOUS
  <2> QED
    BY <2>1, <2>2, RuntimeConstants DEF CacheOK
<1>3. CallsOK /\ now \in 0 .. MaxNow
  BY RuntimeConstants DEF CallsOK
<1>4. ClosesToRetry /\ BreakerGuardsEndpoint
  BY DEF ClosesToRetry, BreakerGuardsEndpoint, At, Idle
<1>5. WalletsOK
  BY DEF WalletsOK
<1> QED
  BY <1>2, <1>3, <1>4, <1>5 DEF RuntimeInv, RuntimeOK

-----------------------------------------------------------------------------
LEMMA OneTo == ASSUME NEW n \in Nat \ {0} PROVE IsFiniteSet(1 .. n) /\ Cardinality(1 .. n) = n
<1>1. n \in Int /\ 1 \in Int /\ n >= 1
  OBVIOUS
<1>2. IsFiniteSet(1 .. n) /\ Cardinality(1 .. n) = IF 1 > n THEN 0 ELSE n - 1 + 1
  BY <1>1, FS_Interval
<1> QED
  BY <1>1, <1>2

(* Pruning numbers the clients from the newest on and keeps those whose    *)
(* number is at most MaxEntries: no more than that, since no two clients   *)
(* have the same number.                                                   *)
LEMMA PrunedFits ==
    ASSUME NEW used \in [Escrows -> Nat \cup {Nil}], IsFiniteSet(Cached(used))
    PROVE  /\ Pruned(used) \in [Escrows -> Nat \cup {Nil}]
           /\ IsFiniteSet(Cached(Pruned(used)))
           /\ Cardinality(Cached(Pruned(used))) <= MaxEntries
<1> DEFINE C == Cached(used)
           Newer(e, f) == used[f] > used[e] \/ (used[f] = used[e] /\ f >= e)
           From(e) == {f \in C : Newer(e, f)}
           Rank(e) == Cardinality(From(e))
           Kept == {e \in C : Rank(e) <= MaxEntries}
<1>1. \A e \in C : used[e] \in Nat /\ e \in Nat /\ e \in Escrows
  BY RuntimeConstants DEF Cached
<1>2. Pruned(used) = [e \in Escrows |-> IF e \in Kept THEN used[e] ELSE Nil]
  BY DEF Pruned
<1>3. \A e \in C : IsFiniteSet(From(e)) /\ Rank(e) \in Nat /\ Rank(e) # 0
  <2> TAKE e \in C
  <2>1. IsFiniteSet(From(e))
    BY FS_Subset
  <2>2. e \in From(e)
    BY <1>1
  <2> QED
    BY <2>1, <2>2, FS_CardinalityType, FS_EmptySet
<1>4. ASSUME NEW e \in C, NEW f \in C, Newer(e, f), e # f PROVE Rank(f) < Rank(e)
  <2>1. From(f) \subseteq From(e)
    BY <1>1, <1>4
  <2>2. e \in From(e) /\ e \notin From(f)
    BY <1>1, <1>4
  <2> HIDE DEF From
  <2>3. Rank(f) <= Rank(e) /\ Rank(f) # Rank(e)
    BY <1>3, <2>1, <2>2, FS_Subset
  <2> QED
    BY <1>3, <2>3
<1>5. \A e, f \in C : Rank(e) = Rank(f) => e = f
  <2> SUFFICES ASSUME NEW e \in C, NEW f \in C, Rank(e) = Rank(f), e # f PROVE FALSE
    OBVIOUS
  <2>1. Newer(e, f) \/ Newer(f, e)
    BY <1>1
  <2> HIDE DEF Newer, Rank
  <2>2. Rank(e) \in Nat /\ Rank(f) \in Nat
    BY <1>3
  <2> QED
    BY <1>4, <2>1, <2>2
<1> HIDE DEF Rank
<1>6. Cached(Pruned(used)) = Kept
  BY <1>1, <1>2, RuntimeConstants DEF Cached
<1>7. Pruned(used) \in [Escrows -> Nat \cup {Nil}]
  BY <1>1, <1>2
<1> DEFINE number == [e \in Kept |-> Rank(e)]
<1>8. ASSUME NEW e \in Kept PROVE Rank(e) \in 1 .. MaxEntries
  <2>1. e \in C /\ Rank(e) <= MaxEntries
    OBVIOUS
  <2>2. Rank(e) \in Nat /\ Rank(e) # 0
    BY <1>3, <2>1, Zenon
  <2> QED
    BY <2>1, <2>2, RuntimeConstants
<1>9. \A e, f \in Kept : number[e] = number[f] => e = f
  BY <1>5
<1>10. IsFiniteSet(Kept)
  BY FS_Subset
<1>11. IsFiniteSet(1 .. MaxEntries) /\ Cardinality(1 .. MaxEntries) = MaxEntries
  BY OneTo, RuntimeConstants
<1> HIDE DEF Kept
<1>12. number \in Injection(Kept, 1 .. MaxEntries)
  <2>1. number \in [Kept -> 1 .. MaxEntries]
    BY <1>8
  <2>2. DOMAIN number = Kept
    OBVIOUS
  <2> HIDE DEF number
  <2> QED
    BY <1>9, <2>1, <2>2, Zenon DEF Injection, IsInjective
<1>13. Cardinality(Kept) <= MaxEntries
  BY <1>11, <1>12, FS_Injection
<1> QED
  BY <1>6, <1>7, <1>10, <1>13

(* wallet_client keeps the cache within its limit.                         *)
LEMMA ClientFits == ASSUME RuntimeInv, NEW e \in Escrows, lastUsed' = WithClient(e) PROVE CacheOK'
<1> DEFINE used == [f \in Escrows |->
               CASE f = e -> now
                 [] f # e /\ f \in Cached(lastUsed) /\ lastUsed[f] >= now - MaxAge -> lastUsed[f]
                 [] OTHER -> Nil]
<1>1. now \in Nat /\ lastUsed \in [Escrows -> Nat \cup {Nil}] /\ IsFiniteSet(Cached(lastUsed))
  BY RuntimeConstants DEF RuntimeInv, RuntimeOK, CacheOK
<1>2. \A f \in Escrows :
         /\ used[f] \in Nat \cup {Nil}
         /\ used[f] # Nil => f = e \/ f \in Cached(lastUsed)
  BY <1>1 DEF Cached
<1>3. lastUsed' = Pruned(used)
  BY DEF WithClient
<1>4. used \in [Escrows -> Nat \cup {Nil}]
  BY <1>2
<1> HIDE DEF used
<1>5. Cached(used) \subseteq Cached(lastUsed) \cup {e}
  BY <1>2 DEF Cached
<1>6. IsFiniteSet(Cached(used))
  BY <1>1, <1>5, FS_AddElement, FS_Subset
<1> QED
  BY <1>3, <1>4, <1>6, PrunedFits DEF CacheOK

(* Dropping a client leaves the others.                                    *)
LEMMA DroppedFits ==
    ASSUME CacheOK, NEW e \in Escrows, lastUsed' = [lastUsed EXCEPT ![e] = Nil]
    PROVE  CacheOK'
<1>1. lastUsed' \in [Escrows -> Nat \cup {Nil}]
  BY DEF CacheOK
<1>2. Cached(lastUsed') \subseteq Cached(lastUsed)
  BY DEF CacheOK, Cached
<1>3. IsFiniteSet(Cached(lastUsed')) /\ Cardinality(Cached(lastUsed')) <= Cardinality(Cached(lastUsed))
  BY <1>2, FS_Subset DEF CacheOK
<1>4. Cardinality(Cached(lastUsed)) \in Nat /\ Cardinality(Cached(lastUsed')) \in Nat
  BY <1>3, FS_CardinalityType DEF CacheOK
<1> QED
  BY <1>1, <1>3, <1>4, RuntimeConstants DEF CacheOK

-----------------------------------------------------------------------------
(* A call that is under way has all its fields, and an endpoint.           *)
LEMMA BusyCall ==
    ASSUME CallsOK, NEW c \in Callers, At(c) # "idle"
    PROVE  /\ call[c] \in BusyCalls /\ Esc(c) \in Escrows /\ Port(c) \in Endpoints
           /\ call[c].attempt \in 1 .. OpenAttempts
<1>1. call[c] \in BusyCalls
  BY DEF CallsOK, At, Idle
<1> QED
  BY <1>1, PortInPool DEF BusyCalls, Esc, Port

(* A call moves on: locks and breakers stay as they are.                   *)
LEMMA MovesOn ==
    ASSUME RuntimeInv, NEW c \in Callers, At(c) # "idle", NEW at, NEW attempt \in 1 .. OpenAttempts,
           at \in {"open", "create", "probe", "close", "gate", "wait", "run", "store"},
           call' = [call EXCEPT ![c] = [at |-> at, escrow |-> Esc(c), attempt |-> attempt]],
           at = "close" => attempt < OpenAttempts,
           at \in {"run", "store"} => Holds(c),
           UNCHANGED <<now, lastUsed, circuit, lock>>
    PROVE  RuntimeOK'
<1> DEFINE k == [at |-> at, escrow |-> Esc(c), attempt |-> attempt]
<1>1. k \in BusyCalls /\ k.at = at /\ k.escrow = Esc(c) /\ k.attempt = attempt
  BY BusyCall DEF BusyCalls, RuntimeInv, RuntimeOK
<1>2. call' = [call EXCEPT ![c] = k]
  OBVIOUS
<1> HIDE DEF k
<1>3. CallsOK' /\ call'[c] = k /\ \A d \in Callers : d # c => call'[d] = call[d]
  BY <1>1, <1>2 DEF RuntimeInv, RuntimeOK, CallsOK
<1>4. CacheOK'
  BY DEF RuntimeInv, RuntimeOK, CacheOK
<1>5. ClosesToRetry'
  BY <1>1, <1>3 DEF RuntimeInv, RuntimeOK, ClosesToRetry, At
<1>6. Holds(c) => Holds(c)'
  BY <1>1, <1>3 DEF Holds, At, Port, Esc
<1>7. BreakerGuardsEndpoint'
  BY <1>1, <1>3, <1>6 DEF RuntimeInv, RuntimeOK, BreakerGuardsEndpoint, At, CircuitOpen, Holds, Port, Esc
<1> QED
  BY <1>3, <1>4, <1>5, <1>7 DEF RuntimeOK

(* A call returns, and unlocks the endpoint if it held it, after which the *)
(* breaker may open.                                                       *)
LEMMA Returns ==
    ASSUME RuntimeInv, NEW c \in Callers, At(c) # "idle", Return(c), CacheOK', UNCHANGED now,
           \/ UNCHANGED <<circuit, lock>>
           \/ /\ Holds(c) /\ lock' = Unlocked(c)
              /\ circuit' \in {circuit, RecordFailure(Port(c)), RecordSuccess(Port(c))}
    PROVE  RuntimeOK'
<1> DEFINE p == Port(c)
<1>1. p \in Endpoints
  BY BusyCall DEF RuntimeInv, RuntimeOK
<1>2. /\ call'[c] = Idle /\ At(c)' = "idle"
      /\ \A d \in Callers : d # c => call'[d] = call[d] /\ At(d)' = At(d) /\ Port(d)' = Port(d)
      /\ call' \in [Callers -> {Idle} \cup BusyCalls]
  BY DEF RuntimeInv, RuntimeOK, CallsOK, Return, At, Idle, Port, Esc
<1>3. /\ circuit' \in [Endpoints -> [failures : 0 .. FailThreshold - 1, openUntil : Nat]]
      /\ \A q \in Endpoints : q # p => circuit'[q] = circuit[q]
  <2> DEFINE Breaker == [failures : 0 .. FailThreshold - 1, openUntil : Nat]
  <2>1. circuit \in [Endpoints -> Breaker] /\ now \in Nat
    BY RuntimeConstants DEF RuntimeInv, RuntimeOK, CallsOK
  <2>2. CASE circuit' = circuit
    BY <2>1, <2>2
  <2>3. CASE circuit' = RecordSuccess(p)
    <3>1. [failures |-> 0, openUntil |-> 0] \in Breaker
      BY RuntimeConstants
    <3> QED
      BY <2>1, <2>3, <3>1 DEF RecordSuccess
  <2>4. CASE circuit' = RecordFailure(p)
    <3> DEFINE n == circuit[p].failures + 1
               b == IF n >= FailThreshold THEN [failures |-> 0, openUntil |-> now + OpenSecs]
                                          ELSE [circuit[p] EXCEPT !.failures = n]
    <3>1. circuit[p] \in Breaker
      BY <1>1, <2>1
    <3>2. b \in Breaker
      <4>1. circuit[p].failures \in Nat /\ circuit[p].openUntil \in Nat
        BY <3>1
      <4>2. CASE n >= FailThreshold
        <5>1. [failures |-> 0, openUntil |-> now + OpenSecs] \in Breaker
          BY <2>1, RuntimeConstants
        <5> QED
          BY <4>2, <5>1
      <4>3. CASE ~(n >= FailThreshold)
        <5>1. n \in 0 .. FailThreshold - 1
          <6>1. n \in Nat /\ FailThreshold \in Nat
            BY <4>1, RuntimeConstants
          <6> HIDE DEF n
          <6> QED
            BY <4>3, <6>1
        <5>2. [circuit[p] EXCEPT !.failures = n] = [failures |-> n, openUntil |-> circuit[p].openUntil]
          <6> HIDE DEF n
          <6> QED
            BY <3>1
        <5> HIDE DEF n
        <5>3. [failures |-> n, openUntil |-> circuit[p].openUntil] \in Breaker
          BY <4>1, <5>1
        <5>4. b = [circuit[p] EXCEPT !.failures = n]
          BY <4>3
        <5> QED
          BY <5>2, <5>3, <5>4
      <4> QED
        BY <4>2, <4>3
    <3>3. circuit' = [circuit EXCEPT ![p] = b]
      BY <2>4 DEF RecordFailure
    <3> HIDE DEF b
    <3> QED
      BY <2>1, <3>2, <3>3
  <2> QED
    BY <2>2, <2>3, <2>4
<1>4. /\ lock' \in [Endpoints -> Callers \cup {Nil}]
      /\ \A q \in Endpoints : q # p => lock'[q] = lock[q]
      /\ (UNCHANGED <<circuit, lock>>) \/ (Holds(c) /\ lock'[p] = Nil)
  BY <1>1 DEF RuntimeInv, RuntimeOK, CallsOK, Unlocked
<1> HIDE DEF p
<1>5. CallsOK'
  BY <1>2, <1>3, <1>4 DEF CallsOK
<1>6. ClosesToRetry'
  BY <1>2 DEF RuntimeInv, RuntimeOK, ClosesToRetry, At, Idle
<1>7. \A q \in Endpoints : lock'[q] # Nil => ~CircuitOpen(q)'
  BY <1>1, <1>3, <1>4 DEF RuntimeInv, RuntimeOK, BreakerGuardsEndpoint, CircuitOpen
<1>8. \A d \in Callers : At(d)' \in {"run", "store"} => Holds(d)'
  <2> SUFFICES ASSUME NEW d \in Callers, At(d)' \in {"run", "store"} PROVE Holds(d)'
    OBVIOUS
  <2>1. d # c /\ At(d)' = At(d) /\ Port(d)' = Port(d) /\ Holds(d) /\ Port(d) \in Endpoints
    BY <1>2, BusyCall DEF RuntimeInv, RuntimeOK, BreakerGuardsEndpoint
  <2>2. lock'[Port(d)] = d
    BY <1>4, <2>1 DEF Holds, p
  <2> QED
    BY <2>1, <2>2 DEF Holds
<1> QED
  BY <1>5, <1>6, <1>7, <1>8 DEF RuntimeOK, BreakerGuardsEndpoint

(* Before the lock nothing is recorded; under it the client is dropped and *)
(* the lock released.                                                      *)
LEMMA FailsKeeps ==
    ASSUME RuntimeInv, NEW c \in Callers, At(c) # "idle", NEW k, Fails(c, k), UNCHANGED now
    PROVE  RuntimeOK'
<1>1. CASE Holds(c)
  <2>1. CacheOK'
    BY <1>1, BusyCall, DroppedFits DEF Fails, RuntimeInv, RuntimeOK
  <2>2. /\ lock' = Unlocked(c) /\ Return(c)
        /\ circuit' \in {circuit, RecordFailure(Port(c)), RecordSuccess(Port(c))}
    BY <1>1 DEF Fails
  <2> QED
    BY <1>1, <2>1, <2>2, Returns
<1>2. CASE ~Holds(c)
  <2>1. UNCHANGED <<lastUsed, circuit, lock>> /\ Return(c)
    BY <1>2 DEF Fails
  <2>2. CacheOK'
    BY <2>1 DEF RuntimeInv, RuntimeOK, CacheOK
  <2> QED
    BY <2>1, <2>2, Returns
<1> QED
  BY <1>1, <1>2

LEMMA SucceedsKeeps ==
    ASSUME RuntimeInv, NEW c \in Callers, At(c) \in {"run", "store"}, Succeeds(c), UNCHANGED now
    PROVE  RuntimeOK'
<1>1. Holds(c)
  BY DEF RuntimeInv, RuntimeOK, BreakerGuardsEndpoint
<1>2. CacheOK'
  BY DEF Succeeds, RuntimeInv, RuntimeOK, CacheOK
<1> QED
  BY <1>1, <1>2, Returns DEF Succeeds

LEMMA MovedTo ==
    ASSUME NEW r \in BusyCalls, NEW at
    PROVE  [r EXCEPT !.at = at] = [at |-> at, escrow |-> r.escrow, attempt |-> r.attempt]
BY DEF BusyCalls

(* Goto changes the place of a call and nothing else of it.                *)
LEMMA GotoKeeps ==
    ASSUME RuntimeInv, NEW c \in Callers, At(c) # "idle", NEW at,
           at \in {"open", "create", "probe", "close", "gate", "wait", "run", "store"},
           Goto(c, at), UNCHANGED now, UNCHANGED Runtime,
           at = "close" => call[c].attempt < OpenAttempts,
           at \in {"run", "store"} => Holds(c)
    PROVE  RuntimeOK'
<1>1. call[c] \in BusyCalls /\ call[c].attempt \in 1 .. OpenAttempts
  BY BusyCall DEF RuntimeInv, RuntimeOK
<1>2. [call[c] EXCEPT !.at = at] = [at |-> at, escrow |-> Esc(c), attempt |-> call[c].attempt]
  BY <1>1, MovedTo DEF Esc
<1>3. call' = [call EXCEPT ![c] = [call[c] EXCEPT !.at = at]]
  BY DEF Goto, RuntimeInv, RuntimeOK, CallsOK
<1>4. call' = [call EXCEPT ![c] = [at |-> at, escrow |-> Esc(c), attempt |-> call[c].attempt]]
  BY <1>2, <1>3
<1>5. UNCHANGED <<now, lastUsed, circuit, lock>>
  BY DEF Runtime
<1> QED
  BY <1>1, <1>4, <1>5, MovesOn

LEMMA AttemptFailsKeeps ==
    ASSUME RuntimeInv, NEW c \in Callers, At(c) # "idle", NEW k, AttemptFails(c, k), UNCHANGED now
    PROVE  RuntimeOK'
<1>1. CASE IsRetryable(k) /\ call[c].attempt < OpenAttempts
  BY <1>1, GotoKeeps DEF AttemptFails
<1>2. CASE ~(IsRetryable(k) /\ call[c].attempt < OpenAttempts)
  BY <1>2, FailsKeeps DEF AttemptFails
<1> QED
  BY <1>1, <1>2

(* A wallet-rpc process has the caller's wallet opened, or its wallet      *)
(* closed, or is left alone.                                               *)
LEMMA WalletsKept ==
    ASSUME RuntimeInv, NEW c \in Callers, At(c) # "idle",
           \/ UNCHANGED opened
           \/ Switch(c)
           \/ opened' = [opened EXCEPT ![Port(c)] = Nil],
           files' \in {files, files \cup {Esc(c)}},
           intruded' \in {intruded, intruded \cup {Port(c)}, intruded \ {Port(c)}}
    PROVE  WalletsOK'
<1>1. Esc(c) \in Escrows /\ Port(c) \in Endpoints
  BY BusyCall DEF RuntimeInv, RuntimeOK
<1> QED
  BY <1>1 DEF RuntimeInv, WalletsOK, Switch

(* ensure_wallet_open and the method under the lock.                       *)
LEMMA OpenKeeps ==
    ASSUME RuntimeInv, NEW c \in Callers, OpenWallet(c)
    PROVE  RuntimeInv'
<1>1. At(c) = "open" /\ At(c) # "idle" /\ UNCHANGED <<now, files>>
  BY DEF OpenWallet
<1>2. RuntimeOK'
  <2>1. CASE Goto(c, "probe") /\ UNCHANGED Runtime
    BY <1>1, <2>1, GotoKeeps
  <2>2. CASE Goto(c, "create") /\ UNCHANGED <<opened, lastUsed, circuit, lock>>
    <3>1. UNCHANGED Runtime
      BY <2>2 DEF Runtime
    <3> QED
      BY <1>1, <2>2, <3>1, GotoKeeps
  <2>3. CASE \E k \in Errors : AttemptFails(c, k)
    BY <1>1, <2>3, AttemptFailsKeeps
  <2> QED
    BY <2>1, <2>2, <2>3 DEF OpenWallet
<1>3. (UNCHANGED opened \/ Switch(c)) /\ intruded' \in {intruded, intruded \cup {Port(c)}}
  BY DEF OpenWallet, NoteIntrusion
<1>4. WalletsOK'
  BY <1>1, <1>3, WalletsKept
<1> QED
  BY <1>1, <1>2, <1>4 DEF RuntimeInv

LEMMA CreateKeeps ==
    ASSUME RuntimeInv, NEW c \in Callers, CreateWallet(c)
    PROVE  RuntimeInv'
<1>1. At(c) = "create" /\ At(c) # "idle" /\ UNCHANGED now
  BY DEF CreateWallet
<1>2. RuntimeOK'
  <2>1. CASE Goto(c, "probe") /\ UNCHANGED Runtime
    BY <1>1, <2>1, GotoKeeps
  <2>2. CASE Goto(c, "open") /\ UNCHANGED <<opened, files, lastUsed, circuit, lock>>
    <3>1. UNCHANGED Runtime
      BY <2>2 DEF Runtime
    <3> QED
      BY <1>1, <2>2, <3>1, GotoKeeps
  <2>3. CASE \E k \in Errors : Fails(c, k)
    BY <1>1, <2>3, FailsKeeps
  <2> QED
    BY <2>1, <2>2, <2>3 DEF CreateWallet
<1>3. /\ UNCHANGED opened \/ Switch(c)
      /\ files' \in {files, files \cup {Esc(c)}}
      /\ intruded' \in {intruded, intruded \cup {Port(c)}}
  BY DEF CreateWallet, NoteIntrusion
<1>4. WalletsOK'
  BY <1>1, <1>3, WalletsKept
<1> QED
  BY <1>1, <1>2, <1>4 DEF RuntimeInv

LEMMA ProbeKeeps ==
    ASSUME RuntimeInv, NEW c \in Callers, ProbeWallet(c)
    PROVE  RuntimeInv'
<1>1. At(c) = "probe" /\ At(c) # "idle" /\ UNCHANGED <<now, opened, files, intruded>>
  BY DEF ProbeWallet
<1>2. RuntimeOK'
  <2>1. CASE Goto(c, IF Holds(c) THEN "run" ELSE "gate") /\ UNCHANGED Runtime
    <3>1. CASE Holds(c)
      <4>1. Goto(c, "run")
        BY <2>1, <3>1
      <4> QED
        BY <1>1, <2>1, <3>1, <4>1, GotoKeeps
    <3>2. CASE ~Holds(c)
      <4>1. Goto(c, "gate")
        BY <2>1, <3>2
      <4> QED
        BY <1>1, <2>1, <4>1, GotoKeeps
    <3> QED
      BY <3>1, <3>2
  <2>2. CASE AttemptFails(c, "busy")
    BY <1>1, <2>2, AttemptFailsKeeps
  <2>3. CASE \E k \in Errors : AttemptFails(c, k)
    BY <1>1, <2>3, AttemptFailsKeeps
  <2> QED
    BY <2>1, <2>2, <2>3 DEF ProbeWallet
<1>3. WalletsOK'
  BY <1>1, WalletsKept
<1> QED
  BY <1>1, <1>2, <1>3 DEF RuntimeInv

LEMMA CloseKeeps ==
    ASSUME RuntimeInv, NEW c \in Callers, CloseWallet(c)
    PROVE  RuntimeInv'
<1>1. At(c) = "close" /\ At(c) # "idle" /\ UNCHANGED <<now, lastUsed, circuit, lock, files>>
  BY DEF CloseWallet
<1>2. RuntimeOK'
  <2> DEFINE next == call[c].attempt + 1
  <2>1. call[c] \in BusyCalls /\ call[c].attempt \in 1 .. OpenAttempts /\ call[c].attempt < OpenAttempts
    BY <1>1, BusyCall DEF RuntimeInv, RuntimeOK, ClosesToRetry
  <2>2. next \in 1 .. OpenAttempts
    BY <2>1, RuntimeConstants
  <2>3. call' = [call EXCEPT ![c] = [at |-> "open", escrow |-> Esc(c), attempt |-> next]]
    BY DEF CloseWallet, Opening, NextAttempt
  <2>4. UNCHANGED <<now, lastUsed, circuit, lock>>
    BY <1>1
  <2> HIDE DEF next
  <2>5. At(c) # "idle"
    BY <1>1
  <2>6. "open" \in {"open", "create", "probe", "close", "gate", "wait", "run", "store"}
        /\ "open" # "close" /\ "open" \notin {"run", "store"}
    OBVIOUS
  <2> QED
    BY <2>2, <2>3, <2>4, <2>5, <2>6, MovesOn, Zenon
<1>3. /\ UNCHANGED opened \/ opened' = [opened EXCEPT ![Port(c)] = Nil]
      /\ intruded' \in {intruded, intruded \cup {Port(c)}}
  BY DEF CloseWallet, NoteIntrusion
<1>4. WalletsOK'
  BY <1>1, <1>3, WalletsKept
<1> QED
  BY <1>1, <1>2, <1>4 DEF RuntimeInv

LEMMA GateKeeps ==
    ASSUME RuntimeInv, NEW c \in Callers, Gate(c)
    PROVE  RuntimeInv'
<1>1. At(c) = "gate" /\ At(c) # "idle" /\ UNCHANGED <<now, lastUsed, circuit, lock, opened, files, intruded>>
  BY DEF Gate
<1>2. RuntimeOK'
  <2>1. CASE Return(c)
    <3>1. CacheOK'
      BY <1>1 DEF RuntimeInv, RuntimeOK, CacheOK
    <3> QED
      BY <1>1, <2>1, <3>1, Returns
  <2>2. CASE Goto(c, "wait")
    <3>1. UNCHANGED Runtime
      BY <1>1 DEF Runtime
    <3> QED
      BY <1>1, <2>2, <3>1, GotoKeeps
  <2> QED
    BY <2>1, <2>2 DEF Gate
<1>3. WalletsOK'
  BY <1>1, WalletsKept
<1> QED
  BY <1>1, <1>2, <1>3 DEF RuntimeInv

LEMMA RunKeeps ==
    ASSUME RuntimeInv, NEW c \in Callers, RunMethod(c) \/ StoreWallet(c)
    PROVE  RuntimeInv'
<1>1. At(c) \in {"run", "store"} /\ At(c) # "idle" /\ UNCHANGED <<now, opened, files, intruded>>
  BY DEF RunMethod, StoreWallet
<1>2. RuntimeOK'
  <2>1. CASE Goto(c, "store") /\ UNCHANGED Runtime
    <3>1. Holds(c)
      BY <1>1 DEF RuntimeInv, RuntimeOK, BreakerGuardsEndpoint
    <3> QED
      BY <1>1, <2>1, <3>1, GotoKeeps
  <2>2. CASE Succeeds(c)
    BY <1>1, <2>2, SucceedsKeeps
  <2>3. CASE Fails(c, "busy")
    BY <1>1, <2>3, FailsKeeps
  <2>4. CASE \E k \in Errors : Fails(c, k)
    BY <1>1, <2>4, FailsKeeps
  <2> QED
    BY <2>1, <2>2, <2>3, <2>4 DEF RunMethod, StoreWallet
<1>3. WalletsOK'
  BY <1>1, WalletsKept
<1> QED
  BY <1>1, <1>2, <1>3 DEF RuntimeInv

(* The lock is taken with the breaker closed, as it is read under it.      *)
LEMMA AcquireKeeps ==
    ASSUME RuntimeInv, NEW c \in Callers, Acquire(c)
    PROVE  RuntimeInv'
<1>1. /\ At(c) = "wait" /\ At(c) # "idle" /\ lock[Port(c)] = Nil
      /\ UNCHANGED <<now, lastUsed, circuit, opened, files>>
  BY DEF Acquire
<1>2. CacheOK'
  BY <1>1 DEF RuntimeInv, RuntimeOK, CacheOK
<1>3. RuntimeOK'
  <2>1. CASE CircuitOpen(Port(c))
    <3>1. Return(c) /\ UNCHANGED lock
      BY <2>1 DEF Acquire, RefusedAfterWaiting
    <3> QED
      BY <1>1, <1>2, <3>1, Returns
  <2>2. CASE ~CircuitOpen(Port(c))
    <3> DEFINE k == [at |-> "open", escrow |-> Esc(c), attempt |-> 1]
    <3>1. call[c] \in BusyCalls /\ Port(c) \in Endpoints /\ Esc(c) \in Escrows
      BY <1>1, BusyCall DEF RuntimeInv, RuntimeOK
    <3>2. k \in BusyCalls /\ k.at = "open" /\ k.escrow = Esc(c)
      BY <3>1, RuntimeConstants DEF BusyCalls
    <3>3. lock' = [lock EXCEPT ![Port(c)] = c] /\ call' = [call EXCEPT ![c] = k]
      BY <2>2 DEF Acquire, RefusedAfterWaiting, StartMethod, Opening
    <3> HIDE DEF k
    <3>4. /\ call'[c] = k /\ \A d \in Callers : d # c => call'[d] = call[d]
          /\ lock'[Port(c)] = c /\ \A q \in Endpoints : q # Port(c) => lock'[q] = lock[q]
      BY <3>1, <3>3 DEF RuntimeInv, RuntimeOK, CallsOK
    <3>5. CallsOK'
      BY <1>1, <3>1, <3>2, <3>3 DEF RuntimeInv, RuntimeOK, CallsOK
    <3>6. ClosesToRetry'
      BY <3>2, <3>4 DEF RuntimeInv, RuntimeOK, ClosesToRetry, At
    <3>7. \A q \in Endpoints : lock'[q] # Nil => ~CircuitOpen(q)'
      BY <1>1, <2>2, <3>4 DEF RuntimeInv, RuntimeOK, BreakerGuardsEndpoint, CircuitOpen
    <3>8. ASSUME NEW d \in Callers, At(d)' \in {"run", "store"} PROVE Holds(d)'
      <4>1. d # c /\ call'[d] = call[d]
        BY <3>2, <3>4, <3>8 DEF At
      <4>2. At(d) \in {"run", "store"} /\ Holds(d) /\ Port(d) \in Endpoints
        BY <3>8, <4>1, BusyCall DEF At, RuntimeInv, RuntimeOK, BreakerGuardsEndpoint
      <4>3. Port(d) # Port(c)
        BY <1>1, <4>2, RuntimeConstants DEF Holds
      <4>4. Port(d)' = Port(d) /\ lock'[Port(d)] = d
        BY <3>4, <4>1, <4>2, <4>3 DEF Port, Esc, Holds
      <4> QED
        BY <3>8, <4>4 DEF Holds
    <3> QED
      BY <1>2, <3>5, <3>6, <3>7, <3>8 DEF RuntimeOK, BreakerGuardsEndpoint
  <2> QED
    BY <2>1, <2>2
<1>4. intruded' \in {intruded, intruded \ {Port(c)}}
  BY DEF Acquire
<1>5. WalletsOK'
  BY <1>1, <1>4, WalletsKept
<1> QED
  BY <1>1, <1>3, <1>5 DEF RuntimeInv

LEMMA CallKeeps ==
    ASSUME RuntimeInv, NEW c \in Callers, NEW e \in Escrows, WalletRpcCall(c, e)
    PROVE  RuntimeInv'
<1> DEFINE k == [at |-> "open", escrow |-> e, attempt |-> 1]
<1>1. /\ At(c) = "idle" /\ lastUsed' = WithClient(e) /\ call' = [call EXCEPT ![c] = k]
      /\ UNCHANGED <<now, circuit, lock, opened, files, intruded>>
  BY DEF WalletRpcCall, Opening
<1>2. CacheOK'
  BY <1>1, ClientFits
<1>3. k \in BusyCalls /\ k.at = "open"
  BY RuntimeConstants DEF BusyCalls
<1> HIDE DEF k
<1>4. call'[c] = k /\ (\A d \in Callers : d # c => call'[d] = call[d]) /\ CallsOK'
  BY <1>1, <1>3 DEF RuntimeInv, RuntimeOK, CallsOK
<1>5. ClosesToRetry'
  BY <1>3, <1>4 DEF RuntimeInv, RuntimeOK, ClosesToRetry, At
<1>6. \A q \in Endpoints : lock'[q] # Nil => ~CircuitOpen(q)'
  BY <1>1 DEF RuntimeInv, RuntimeOK, BreakerGuardsEndpoint, CircuitOpen
<1>7. \A d \in Callers : At(d)' \in {"run", "store"} => Holds(d)'
  BY <1>1, <1>3, <1>4 DEF RuntimeInv, RuntimeOK, BreakerGuardsEndpoint, At, Holds, Port, Esc
<1>8. WalletsOK' /\ now' \in 0 .. MaxNow
  BY <1>1 DEF RuntimeInv, WalletsOK
<1> QED
  BY <1>2, <1>4, <1>5, <1>6, <1>7, <1>8 DEF RuntimeInv, RuntimeOK, BreakerGuardsEndpoint

(* Time only closes breakers.                                              *)
LEMMA TickKeeps == ASSUME RuntimeInv, Tick PROVE RuntimeInv'
<1>1. now' = now + 1 /\ now' \in 0 .. MaxNow /\ now \in Nat
  BY RuntimeConstants DEF Tick, RuntimeInv
<1>2. CacheOK' /\ CallsOK' /\ ClosesToRetry' /\ WalletsOK'
  BY DEF Tick, RuntimeInv, RuntimeOK, CacheOK, CallsOK, ClosesToRetry, WalletsOK, At
<1>3. \A q \in Endpoints : lock'[q] # Nil => ~CircuitOpen(q)'
  <2> SUFFICES ASSUME NEW q \in Endpoints, lock'[q] # Nil PROVE ~CircuitOpen(q)'
    OBVIOUS
  <2>1. circuit'[q] = circuit[q] /\ circuit[q].openUntil \in Nat /\ ~(circuit[q].openUntil > now)
    BY DEF Tick, RuntimeInv, RuntimeOK, CallsOK, BreakerGuardsEndpoint, CircuitOpen
  <2> QED
    BY <1>1, <2>1 DEF CircuitOpen
<1>4. \A d \in Callers : At(d)' \in {"run", "store"} => Holds(d)'
  BY DEF Tick, RuntimeInv, RuntimeOK, BreakerGuardsEndpoint, At, Holds, Port, Esc
<1> QED
  BY <1>1, <1>2, <1>3, <1>4 DEF RuntimeInv, RuntimeOK, BreakerGuardsEndpoint

(* Every step of the runtime keeps the invariant.                          *)
LEMMA RuntimeInvNext == RuntimeInv /\ [RuntimeNext]_runtimeVars => RuntimeInv'
<1> SUFFICES ASSUME RuntimeInv, [RuntimeNext]_runtimeVars PROVE RuntimeInv'
  OBVIOUS
<1>1. CASE UNCHANGED runtimeVars
  BY <1>1 DEF runtimeVars, RuntimeInv, RuntimeOK, CacheOK, CallsOK, ClosesToRetry, BreakerGuardsEndpoint,
      WalletsOK, Cached, At, Holds, Port, Esc, CircuitOpen
<1>2. ASSUME NEW c \in Callers, Progress(c) PROVE RuntimeInv'
  BY <1>2, OpenKeeps, CreateKeeps, ProbeKeeps, CloseKeeps, GateKeeps, RunKeeps DEF Progress
<1>3. ASSUME NEW c \in Callers, Acquire(c) PROVE RuntimeInv'
  BY <1>3, AcquireKeeps
<1>4. ASSUME NEW c \in Callers, NEW e \in Escrows, WalletRpcCall(c, e) PROVE RuntimeInv'
  BY <1>4, CallKeeps
<1>5. CASE Tick
  BY <1>5, TickKeeps
<1> QED
  BY <1>1, <1>2, <1>3, <1>4, <1>5 DEF RuntimeNext

LEMMA RuntimeInvariant == RuntimeSpec => []RuntimeInv
BY RuntimeInvInit, RuntimeInvNext, PTL DEF RuntimeSpec

(* Whatever calls interleave and fail: the cache of clients never outgrows *)
(* its limit (wallet_client prunes after each insertion), the failures     *)
(* counted stay below the threshold, and no call is tried more often than  *)
(* XMR_WALLET_RPC_OPEN_ATTEMPTS allows.                                    *)
THEOREM RuntimeTypes == RuntimeSpec => []TypeOK
<1>1. RuntimeInv => TypeOK
  BY DEF RuntimeInv, RuntimeOK, WalletsOK, CacheOK, CallsOK, TypeOK, BusyCalls
<1> QED
  BY <1>1, RuntimeInvariant, PTL

(* No endpoint is worked on while its breaker is open, and only the holder *)
(* of the endpoint mutex runs a method: wallet_rpc_call reads the breaker  *)
(* again under the mutex, and no failure is counted without it.            *)
THEOREM BreakerIsObeyed == RuntimeSpec => []BreakerGuardsEndpoint
<1>1. RuntimeInv => BreakerGuardsEndpoint
  BY DEF RuntimeInv, RuntimeOK
<1> QED
  BY <1>1, RuntimeInvariant, PTL

-----------------------------------------------------------------------------
(* What the holder of the mutex opened stays open, unless intruded upon.   *)
HolderSees(c) ==
    Holds(c) /\ At(c) \in {"probe", "run", "store"} /\ Port(c) \notin intruded =>
        opened[Port(c)] = Esc(c)

(* What a step of one call leaves alone.                                   *)
StepOf(c) ==
    /\ \A d \in Callers : d # c => call'[d] = call[d]
    /\ \A q \in Endpoints : q # Port(c) => opened'[q] = opened[q] /\ lock'[q] = lock[q]
    /\ lock'[Port(c)] \in {lock[Port(c)], Nil}
    /\ NoteIntrusion(c)

LEMMA CallersApart ==
    ASSUME CallsOK, NEW c \in Callers, NEW at, NEW e, NEW n,
           Goto(c, at) \/ Opening(c, e, n) \/ Return(c)
    PROVE  \A d \in Callers : d # c => call'[d] = call[d]
BY DEF CallsOK, Goto, Opening, Return

(* A call that goes on works at its own endpoint.                          *)
LEMMA ProgressShape == ASSUME RuntimeInv, NEW c \in Callers, Progress(c) PROVE At(c) # "idle" /\ StepOf(c)
<1>1. At(c) # "idle" /\ CallsOK /\ lock \in [Endpoints -> Callers \cup {Nil}]
  BY DEF Progress, OpenWallet, CreateWallet, ProbeWallet, CloseWallet, Gate, RunMethod, StoreWallet,
         RuntimeInv, RuntimeOK, CallsOK
<1>2. Port(c) \in Endpoints /\ opened \in [Endpoints -> Escrows \cup {Nil}]
  BY <1>1, BusyCall DEF RuntimeInv, WalletsOK
<1>3. \A k : Fails(c, k) => Return(c) /\ lock' \in {lock, Unlocked(c)}
  BY DEF Fails
<1>4. \A k : AttemptFails(c, k) =>
                /\ Goto(c, "close") \/ Return(c)
                /\ lock' \in {lock, Unlocked(c)}
  BY <1>3 DEF AttemptFails, Runtime
<1>5. Succeeds(c) => Return(c) /\ lock' = Unlocked(c)
  BY DEF Succeeds
<1>6. /\ (\E at : Goto(c, at)) \/ (\E e, n : Opening(c, e, n)) \/ Return(c)
      /\ lock' \in {lock, Unlocked(c)}
      /\ \/ UNCHANGED opened
         \/ Switch(c)
         \/ opened' = [opened EXCEPT ![Port(c)] = Nil]
      /\ NoteIntrusion(c) \/ UNCHANGED <<opened, intruded>>
  <2>1. CASE OpenWallet(c)
    BY <1>4, <2>1 DEF OpenWallet, Runtime
  <2>2. CASE CreateWallet(c)
    BY <1>3, <2>2 DEF CreateWallet, Runtime
  <2>3. CASE ProbeWallet(c)
    BY <1>4, <2>3 DEF ProbeWallet, Runtime
  <2>4. CASE CloseWallet(c)
    BY <2>4 DEF CloseWallet
  <2>5. CASE Gate(c)
    BY <2>5 DEF Gate
  <2>6. CASE RunMethod(c)
    BY <1>3, <1>5, <2>6 DEF RunMethod, Runtime
  <2>7. CASE StoreWallet(c)
    BY <1>3, <1>5, <2>7 DEF StoreWallet
  <2> QED
    BY <2>1, <2>2, <2>3, <2>4, <2>5, <2>6, <2>7 DEF Progress
<1>7. \A d \in Callers : d # c => call'[d] = call[d]
  BY <1>1, <1>6, CallersApart
<1>8. NoteIntrusion(c)
  BY <1>6 DEF NoteIntrusion, Intrudes
<1>9. \A q \in Endpoints : q # Port(c) => opened'[q] = opened[q] /\ lock'[q] = lock[q]
  BY <1>1, <1>2, <1>6 DEF Switch, Unlocked
<1>10. lock'[Port(c)] \in {lock[Port(c)], Nil}
  BY <1>1, <1>2, <1>6 DEF Unlocked
<1> QED
  BY <1>1, <1>7, <1>8, <1>9, <1>10 DEF StepOf

(* Others: whoever changes their wallet without the mutex is an intruder.  *)
LEMMA OthersSee ==
    ASSUME RuntimeInv, NEW c \in Callers, At(c) # "idle", StepOf(c),
           NEW d \in Callers, d # c, HolderSees(d)
    PROVE  HolderSees(d)'
<1> SUFFICES ASSUME Holds(d)', At(d)' \in {"probe", "run", "store"}, Port(d)' \notin intruded'
             PROVE  opened'[Port(d)'] = Esc(d)'
  BY DEF HolderSees
<1>1. At(d)' = At(d) /\ Port(d)' = Port(d) /\ Esc(d)' = Esc(d)
  BY DEF StepOf, At, Port, Esc
<1>2. Port(d) \in Endpoints /\ Port(c) \in Endpoints /\ d # Nil
  BY <1>1, BusyCall, RuntimeConstants DEF RuntimeInv, RuntimeOK
<1>3. lock[Port(d)] = d
  BY <1>1, <1>2 DEF Holds, StepOf
<1>4. intruded \subseteq intruded'
  BY DEF StepOf, NoteIntrusion
<1>5. opened[Port(d)] = Esc(d)
  BY <1>1, <1>3, <1>4 DEF HolderSees, Holds
<1>6. CASE Port(d) # Port(c)
  BY <1>1, <1>2, <1>5, <1>6 DEF StepOf
<1>7. CASE Port(d) = Port(c)
  <2>1. ~Holds(c) /\ lock[Port(c)] # Nil
    BY <1>2, <1>3, <1>7 DEF Holds
  <2>2. opened' = opened
    BY <1>1, <1>7, <2>1 DEF StepOf, NoteIntrusion, Intrudes
  <2> QED
    BY <1>1, <1>5, <2>2
<1> QED
  BY <1>6, <1>7

(* The call itself: it is past open_wallet only with its wallet opened.    *)
LEMMA OneselfSees ==
    ASSUME RuntimeInv, NEW c \in Callers, Progress(c), HolderSees(c)
    PROVE  HolderSees(c)'
<1>1. At(c) # "idle" /\ StepOf(c)
  BY ProgressShape
<1>2. call[c] \in BusyCalls /\ Port(c) \in Endpoints /\ CallsOK
  BY <1>1, BusyCall DEF RuntimeInv, RuntimeOK
<1>3. opened \in [Endpoints -> Escrows \cup {Nil}]
  BY DEF RuntimeInv, WalletsOK
<1>4. ASSUME NEW at, Goto(c, at) PROVE At(c)' = at /\ Esc(c)' = Esc(c) /\ Port(c)' = Port(c)
  BY <1>2, <1>4 DEF Goto, CallsOK, BusyCalls, At, Esc, Port
<1>5. Return(c) => HolderSees(c)'
  BY <1>2 DEF Return, CallsOK, Idle, HolderSees, At
<1>6. \A at : Goto(c, at) /\ at \in {"create", "close", "gate", "wait", "open"} => HolderSees(c)'
  BY <1>4 DEF HolderSees
<1>7. Goto(c, "probe") /\ Switch(c) => HolderSees(c)'
  BY <1>2, <1>3, <1>4 DEF HolderSees, Switch
<1>8. \A k : Fails(c, k) => HolderSees(c)'
  BY <1>5 DEF Fails
<1>9. \A k : AttemptFails(c, k) => HolderSees(c)'
  BY <1>6, <1>8 DEF AttemptFails
<1>10. Succeeds(c) => HolderSees(c)'
  BY <1>5 DEF Succeeds
<1>11. ASSUME NEW at, Goto(c, at), Holds(c), At(c) \in {"probe", "run"}, UNCHANGED <<opened, intruded>>
       PROVE  HolderSees(c)'
  BY <1>4, <1>11 DEF HolderSees
<1>12. CASE OpenWallet(c)
  BY <1>6, <1>7, <1>9, <1>12 DEF OpenWallet
<1>13. CASE CreateWallet(c)
  BY <1>6, <1>7, <1>8, <1>13 DEF CreateWallet
<1>14. CASE ProbeWallet(c)
  <2>1. CASE Holds(c)
    BY <1>9, <1>11, <1>14, <2>1 DEF ProbeWallet
  <2>2. CASE ~Holds(c)
    BY <1>6, <1>9, <1>14, <2>2 DEF ProbeWallet
  <2> QED
    BY <2>1, <2>2
<1>15. CASE CloseWallet(c)
  <2> DEFINE k == [at |-> "open", escrow |-> Esc(c), attempt |-> NextAttempt(call[c].attempt)]
  <2>1. call' = [call EXCEPT ![c] = k] /\ k.at = "open"
    BY <1>15 DEF CloseWallet, Opening
  <2> HIDE DEF k
  <2>2. At(c)' = "open"
    BY <1>2, <2>1 DEF CallsOK, At
  <2> QED
    BY <2>2 DEF HolderSees
<1>16. CASE Gate(c)
  BY <1>5, <1>6, <1>16 DEF Gate
<1>17. CASE RunMethod(c)
  <2>1. Holds(c)
    BY <1>17 DEF RunMethod, RuntimeInv, RuntimeOK, BreakerGuardsEndpoint
  <2> QED
    BY <1>8, <1>10, <1>11, <1>17, <2>1 DEF RunMethod
<1>18. CASE StoreWallet(c)
  BY <1>8, <1>10, <1>18 DEF StoreWallet
<1> QED
  BY <1>12, <1>13, <1>14, <1>15, <1>16, <1>17, <1>18 DEF Progress

(* Taking the mutex: nobody else holds it, and the wallet is opened anew.  *)
LEMMA AcquireSees ==
    ASSUME RuntimeInv, NEW c \in Callers, Acquire(c), NEW d \in Callers, HolderSees(d)
    PROVE  HolderSees(d)'
<1>1. /\ At(c) = "wait" /\ lock[Port(c)] = Nil /\ UNCHANGED opened /\ CallsOK
      /\ Port(c) \in Endpoints /\ Nil \notin Callers
  BY BusyCall, RuntimeConstants DEF Acquire, RuntimeInv, RuntimeOK
<1>2. Return(c) \/ Opening(c, Esc(c), 1)
  BY DEF Acquire, StartMethod
<1>3. \/ UNCHANGED <<lock, intruded>>
      \/ lock' = [lock EXCEPT ![Port(c)] = c] /\ intruded' = intruded \ {Port(c)}
  BY DEF Acquire
<1>4. CASE d = c
  <2>1. At(c)' \in {"idle", "open"}
    <3>1. CASE Return(c)
      BY <1>1, <3>1 DEF Return, CallsOK, Idle, At
    <3>2. CASE Opening(c, Esc(c), 1)
      BY <1>1, <3>2 DEF Opening, CallsOK, At
    <3> QED
      BY <1>2, <3>1, <3>2
  <2> QED
    BY <1>4, <2>1 DEF HolderSees
<1>5. CASE d # c
  <2>1. call'[d] = call[d]
    BY <1>1, <1>2, <1>5, CallersApart
  <2> SUFFICES ASSUME Holds(d)', At(d)' \in {"probe", "run", "store"}, Port(d)' \notin intruded'
               PROVE  opened'[Port(d)'] = Esc(d)'
    BY DEF HolderSees
  <2>2. At(d)' = At(d) /\ Port(d)' = Port(d) /\ Esc(d)' = Esc(d)
    BY <2>1 DEF At, Port, Esc
  <2>3. Port(d) \in Endpoints
    BY <1>1, <2>2, BusyCall
  <2>4. lock[Port(d)] = d /\ Port(d) # Port(c)
    BY <1>1, <1>3, <1>5, <2>2, <2>3 DEF Holds, CallsOK
  <2>5. Port(d) \notin intruded
    BY <1>3, <2>2, <2>4
  <2> QED
    BY <1>1, <2>2, <2>4, <2>5 DEF HolderSees, Holds
<1> QED
  BY <1>4, <1>5

(* A call that starts holds no mutex yet.                                  *)
LEMMA CallSees ==
    ASSUME RuntimeInv, NEW c \in Callers, NEW e \in Escrows, WalletRpcCall(c, e),
           NEW d \in Callers, HolderSees(d)
    PROVE  HolderSees(d)'
<1>1. Opening(c, e, 1) /\ UNCHANGED <<lock, opened, intruded>> /\ CallsOK
  BY DEF WalletRpcCall, RuntimeInv, RuntimeOK
<1>2. CASE d = c
  <2>1. At(c)' = "open"
    BY <1>1 DEF Opening, CallsOK, At
  <2> QED
    BY <1>2, <2>1 DEF HolderSees
<1>3. CASE d # c
  <2>1. call'[d] = call[d]
    BY <1>1, <1>3, CallersApart
  <2> QED
    BY <1>1, <2>1 DEF HolderSees, Holds, At, Port, Esc
<1> QED
  BY <1>2, <1>3

LEMMA HoldersSee ==
    RuntimeInv /\ (\A c \in Callers : HolderSees(c)) /\ [RuntimeNext]_runtimeVars
        => (\A c \in Callers : HolderSees(c))'
<1> SUFFICES ASSUME RuntimeInv, \A c \in Callers : HolderSees(c), [RuntimeNext]_runtimeVars,
                    NEW d \in Callers
             PROVE  HolderSees(d)'
  OBVIOUS
<1>1. CASE UNCHANGED runtimeVars
  BY <1>1 DEF runtimeVars, HolderSees, Holds, At, Port, Esc
<1>2. ASSUME NEW c \in Callers, Progress(c) PROVE HolderSees(d)'
  BY <1>2, ProgressShape, OthersSee, OneselfSees
<1>3. ASSUME NEW c \in Callers, Acquire(c) PROVE HolderSees(d)'
  BY <1>3, AcquireSees
<1>4. ASSUME NEW c \in Callers, NEW e \in Escrows, WalletRpcCall(c, e) PROVE HolderSees(d)'
  BY <1>4, CallSees
<1>5. CASE Tick
  BY <1>5 DEF Tick, HolderSees, Holds, At, Port, Esc
<1> QED
  BY <1>1, <1>2, <1>3, <1>4, <1>5 DEF RuntimeNext

(* For every pool and however many escrows share a wallet-rpc process: a   *)
(* method runs on its own escrow's wallet unless a call that does not hold *)
(* the endpoint mutex changed the wallet meanwhile.  wallet_rpc_call's     *)
(* first ensure_wallet_open is the only hole in the mutex.                 *)
THEOREM MutexIsEnoughUnderIt == RuntimeSpec => []MutexKeepsWallet
<1> DEFINE Sees == \A c \in Callers : HolderSees(c)
<1>1. RuntimeInit => Sees
  BY DEF RuntimeInit, HolderSees, At, Idle
<1>2. RuntimeInv /\ Sees /\ [RuntimeNext]_runtimeVars => Sees'
  BY HoldersSee
<1>3. RuntimeInv /\ Sees => MutexKeepsWallet
  BY DEF RuntimeInv, RuntimeOK, BreakerGuardsEndpoint, HolderSees, MutexKeepsWallet
<1> QED
  BY <1>1, <1>2, <1>3, RuntimeInvariant, PTL DEF RuntimeSpec
=============================================================================
