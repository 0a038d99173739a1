----------------------- MODULE PendingDecisionsProofs -----------------------
(***************************************************************************)
(* What the peer is told about a queued sign request: the three invariants *)
(* of PendingDecisions for any number of operators, rows, txsets and       *)
(* tokens.                                                                 *)
(*                                                                         *)
(* The properties speak of the answers that were sent; the invariant is    *)
(* about every answer that already has a seq, wherever it is: sent, staged *)
(* in the table, or in the hands of a process that will stage or send it.  *)
(* Only next_out_seq adds to that set.  It adds an approval only for the   *)
(* process that completed the txset's sign request, of which there is one, *)
(* since start_sign_request takes an absent row only.                      *)
(***************************************************************************)
EXTENDS PendingDecisions, TLAPS

Answers == [row : Rows, answer : Nat, seq : Nat]

Steps == {"checks", "start", "consume", "wallet", "complete", "event", "artifact",
          "seq", "stage", "send", "finish"}

Statuses == {"pending", "approved_sending", "rejected_sending", "approved_sent", "rejected",
             "failed_dead_letter"}

Typed ==
    /\ status \in [Rows -> Statuses]
    /\ staged \in [Rows -> Answers \cup {NoAnswer}]
    /\ outSeq \in Nat
    /\ request \in [Txsets -> {"absent", "in_progress", "completed"}]
    /\ signed \in Nat
    /\ sent \in SUBSET Answers
    /\ op \in [Operators -> {Idle} \cup [pc : Steps, jti : Jtis, answer : Answers]]

HoldsSeq(o) == op[o].pc \in {"stage", "send", "finish"}

(* The answers that have a seq.                                            *)
Allocated ==
    sent \cup {staged[r] : r \in {q \in Rows : staged[q] # NoAnswer}}
         \cup {op[o].answer : o \in {p \in Operators : HoldsSeq(p)}}

Approval(x) == x.answer # Refusal

(* Their seqs were handed out, and approvals belong to completed requests. *)
AllocatedKnown ==
    \A x \in Allocated :
        /\ x \in Answers
        /\ x.seq \in 1 .. outSeq
        /\ Approval(x) => request[Txset[x.row]] = "completed"

OneAnswerPerSeq == \A x, y \in Allocated : x.seq = y.seq => x = y

OneApproval ==
    \A x, y \in Allocated :
        Approval(x) /\ Approval(y) /\ Txset[x.row] = Txset[y.row] => x = y

(* A process between start_sign_request and complete_sign_request owns the *)
(* row of its txset.                                                       *)
Signs(o) == op[o].pc \in {"consume", "wallet", "complete"}

OneSigner ==
    /\ \A o \in Operators : Signs(o) => request[Txset[Row(o)]] = "in_progress"
    /\ \A o, p \in Operators :
           Signs(o) /\ Signs(p) /\ Txset[Row(o)] = Txset[Row(p)] => o = p

(* A process that has signed and has no seq yet holds the only approval of *)
(* its txset.                                                              *)
Drafts(o) == op[o].pc \in {"event", "artifact", "seq"} /\ ~IsRefusal(o)

OneDraft ==
    /\ \A o \in Operators : Drafts(o) =>
           /\ request[Txset[Row(o)]] = "completed"
           /\ \A x \in Allocated : Approval(x) => Txset[x.row] # Txset[Row(o)]
    /\ \A o, p \in Operators :
           Drafts(o) /\ Drafts(p) /\ Txset[Row(o)] = Txset[Row(p)] => o = p

FinishedIsSent == \A o \in Operators : op[o].pc = "finish" => op[o].answer \in sent

IInv == /\ Typed /\ AllocatedKnown /\ OneAnswerPerSeq /\ OneApproval
        /\ OneSigner /\ OneDraft /\ FinishedIsSent /\ DecidedIsAnswered

(* Every row is pending and no process runs.                               *)
LEMMA IInvInit == Init => IInv
<1> SUFFICES ASSUME Init PROVE IInv
  OBVIOUS
<1> USE DEF Init, Idle
<1>1. Typed
  BY DEF Typed, Statuses
<1>2. Allocated = {}
  BY DEF Allocated, HoldsSeq
<1>3. OneSigner /\ OneDraft /\ FinishedIsSent
  BY DEF OneSigner, OneDraft, FinishedIsSent, Signs, Drafts
<1>4. DecidedIsAnswered
  BY DEF DecidedIsAnswered
<1> QED
  BY <1>1, <1>2, <1>3, <1>4 DEF IInv, AllocatedKnown, OneAnswerPerSeq, OneApproval

-----------------------------------------------------------------------------
(* What a process in the middle of a decision carries.                     *)
Commands == [pc : Steps, jti : Jtis, answer : Answers]

LEMMA Carries ==
    ASSUME Typed, NEW o \in Operators, op[o].pc \in Steps
    PROVE  /\ op[o] \in Commands
           /\ op[o].answer \in Answers
           /\ Row(o) \in Rows
           /\ Txset[Row(o)] \in Txsets
<1>1. Idle.pc \notin Steps
  BY DEF Idle, Steps
<1>2. op[o] \in Commands
  BY <1>1 DEF Typed, Commands
<1>3. op[o].answer \in Answers
  BY <1>2 DEF Commands
<1>4. op[o].answer.row \in Rows
  BY <1>3 DEF Answers
<1> QED
  BY <1>2, <1>3, <1>4, PendingConstants DEF Row

(* One process moves to a step with its answer as it is.                   *)
Moves(o, pc, answer) ==
    /\ op' \in [Operators -> {Idle} \cup Commands]
    /\ op'[o].pc = pc
    /\ op'[o].answer = answer
    /\ \A p \in Operators : p # o => op'[p] = op[p]

LEMMA GotoMoves ==
    ASSUME Typed, NEW o \in Operators, op[o].pc \in Steps, NEW pc \in Steps, Goto(o, pc)
    PROVE  Moves(o, pc, op[o].answer)
<1>1. op[o] \in Commands
  BY Carries
<1>2. [op[o] EXCEPT !.pc = pc] \in Commands
  BY <1>1 DEF Commands
<1>3. [op[o] EXCEPT !.pc = pc].pc = pc /\ [op[o] EXCEPT !.pc = pc].answer = op[o].answer
  BY <1>1 DEF Commands
<1>4. op' = [op EXCEPT ![o] = [op[o] EXCEPT !.pc = pc]]
  BY DEF Goto
<1>5. op \in [Operators -> {Idle} \cup Commands]
  BY DEF Typed, Commands
<1> QED
  BY <1>2, <1>3, <1>4, <1>5 DEF Moves

(* One process ends.                                                       *)
Ends(o) ==
    /\ op' \in [Operators -> {Idle} \cup Commands]
    /\ op'[o].pc = "idle"
    /\ \A p \in Operators : p # o => op'[p] = op[p]

LEMMA ExitEnds ==
    ASSUME Typed, NEW o \in Operators, Exit(o)
    PROVE  Ends(o)
BY DEF Typed, Commands, Exit, Ends, Idle

-----------------------------------------------------------------------------
(* Facts about a step of process o, from the least it must say.            *)
Alone(o) == \A p \in Operators : p # o => op'[p] = op[p]

(* No answer gets a seq.                                                   *)
LEMMA NothingAllocated ==
    ASSUME NEW o \in Operators, Alone(o),
           HoldsSeq(o)' => op'[o].answer \in Allocated,
           \A x \in sent' : x \in Allocated,
           \A r \in Rows : staged'[r] # NoAnswer => staged'[r] \in Allocated
    PROVE  Allocated' \subseteq Allocated
<1> SUFFICES ASSUME NEW x \in Allocated' PROVE x \in Allocated
  OBVIOUS
<1>1. CASE x \in sent'
  BY <1>1
<1>2. ASSUME NEW r \in Rows, staged'[r] # NoAnswer, x = staged'[r]
      PROVE  x \in Allocated
  BY <1>2
<1>3. ASSUME NEW p \in Operators, HoldsSeq(p)', x = op'[p].answer
      PROVE  x \in Allocated
  <2>1. CASE p = o
    BY <1>3, <2>1
  <2>2. CASE p # o
    BY <1>3, <2>2 DEF Alone, HoldsSeq, Allocated
  <2> QED
    BY <2>1, <2>2
<1> QED
  BY <1>1, <1>2, <1>3 DEF Allocated

(* Then what holds of the answers with a seq goes on to hold, as long as a *)
(* completed request stays completed.                                      *)
LEMMA AnswersKept ==
    ASSUME IInv, Allocated' \subseteq Allocated, outSeq' = outSeq,
           \A t \in Txsets : request[t] = "completed" => request'[t] = "completed"
    PROVE  AllocatedKnown' /\ OneAnswerPerSeq' /\ OneApproval'
<1> USE DEF IInv
<1>1. AllocatedKnown'
  <2> SUFFICES ASSUME NEW x \in Allocated'
               PROVE  /\ x \in Answers
                      /\ x.seq \in 1 .. outSeq'
                      /\ Approval(x) => request'[Txset[x.row]] = "completed"
    BY DEF AllocatedKnown
  <2>1. x \in Answers /\ x.seq \in 1 .. outSeq
    BY DEF AllocatedKnown
  <2>2. Txset[x.row] \in Txsets
    BY <2>1, PendingConstants DEF Answers
  <2>3. Approval(x) => request[Txset[x.row]] = "completed"
    BY DEF AllocatedKnown
  <2> QED
    BY <2>1, <2>2, <2>3
<1>2. OneAnswerPerSeq' /\ OneApproval'
  BY DEF OneAnswerPerSeq, OneApproval
<1> QED
  BY <1>1, <1>2

(* A step that starts no signing and no draft keeps their exclusiveness.   *)
LEMMA NoNewSigner ==
    ASSUME IInv, NEW o \in Operators, Alone(o), Allocated' \subseteq Allocated,
           request' = request,
           Signs(o)' => Signs(o) /\ Row(o)' = Row(o),
           Drafts(o)' => Drafts(o) /\ Row(o)' = Row(o)
    PROVE  OneSigner' /\ OneDraft'
<1>1. \A p \in Operators : Signs(p)' => Signs(p) /\ Row(p)' = Row(p)
  BY DEF Alone, Signs, Row
<1>2. \A p \in Operators : Drafts(p)' => Drafts(p) /\ Row(p)' = Row(p)
  BY DEF Alone, Drafts, Row, IsRefusal
<1>3. OneSigner'
  BY <1>1 DEF IInv, OneSigner
<1>4. OneDraft'
  BY <1>2 DEF IInv, OneDraft
<1> QED
  BY <1>3, <1>4

(* A step of one process that touches no request, allocates nothing and    *)
(* leaves the decisions as they are.                                       *)
LEMMA QuietStep ==
    ASSUME IInv, NEW o \in Operators, Alone(o),
           op' \in [Operators -> {Idle} \cup Commands],
           UNCHANGED <<status, staged, outSeq, request, sent>>, signed' \in Nat,
           HoldsSeq(o)' => op'[o].answer \in Allocated,
           Signs(o)' => Signs(o) /\ Row(o)' = Row(o),
           Drafts(o)' => Drafts(o) /\ Row(o)' = Row(o),
           op'[o].pc # "finish"
    PROVE  IInv'
<1> USE DEF IInv
<1>1. Allocated' \subseteq Allocated
  <2>1. \A x \in sent' : x \in Allocated
    BY DEF Allocated
  <2>2. \A r \in Rows : staged'[r] # NoAnswer => staged'[r] \in Allocated
    BY DEF Allocated
  <2> QED
    BY <2>1, <2>2, NothingAllocated
<1>2. Typed'
  BY DEF Typed, Commands
<1>3. AllocatedKnown' /\ OneAnswerPerSeq' /\ OneApproval'
  BY <1>1, AnswersKept
<1>4. OneSigner' /\ OneDraft'
  BY <1>1, NoNewSigner
<1>5. FinishedIsSent'
  BY DEF FinishedIsSent, Alone
<1>6. DecidedIsAnswered'
  BY DEF DecidedIsAnswered
<1> QED
  BY <1>2, <1>3, <1>4, <1>5, <1>6

-----------------------------------------------------------------------------
(* approve_pending and reject_pending begin, or find a staged answer.      *)
LEMMA DecideStep ==
    ASSUME IInv, NEW o \in Operators, NEW r \in Rows, NEW j \in Jtis,
           NEW first \in {"checks", "seq"},
           NEW sending \in {"approved_sending", "rejected_sending"},
           Decide(o, r, j, first, sending)
    PROVE  IInv'
<1> USE DEF IInv
<1>1. op \in [Operators -> {Idle} \cup Commands] /\ signed' \in Nat
  BY DEF Typed, Commands, Decide
<1>2. UNCHANGED <<status, staged, outSeq, request, sent>>
  BY DEF Decide, tables
<1>3. ASSUME NEW cmd \in Commands, op' = [op EXCEPT ![o] = cmd],
             cmd.pc = first \/ cmd.pc = "send",
             cmd.pc = first => cmd.answer.answer = Refusal,
             cmd.pc = "send" => cmd.answer \in Allocated
      PROVE  IInv'
  <2>1. op' \in [Operators -> {Idle} \cup Commands] /\ op'[o] = cmd /\ Alone(o)
    BY <1>1, <1>3 DEF Alone
  <2>2. HoldsSeq(o)' => op'[o].answer \in Allocated
    BY <2>1, <1>3 DEF HoldsSeq
  <2>3. ~Signs(o)' /\ ~Drafts(o)' /\ op'[o].pc # "finish"
    BY <2>1, <1>3 DEF Signs, Drafts, IsRefusal
  <2> QED
    BY <1>1, <1>2, <2>1, <2>2, <2>3, QuietStep
<1>4. CASE op' = [op EXCEPT ![o] =
                     [pc |-> first, jti |-> j,
                      answer |-> [row |-> r, answer |-> Refusal, seq |-> 0]]]
  <2> DEFINE answer == [row |-> r, answer |-> Refusal, seq |-> 0]
             cmd == [pc |-> first, jti |-> j, answer |-> answer]
  <2>1. answer \in Answers /\ answer.answer = Refusal
    BY DEF Answers, Refusal
  <2> HIDE DEF answer
  <2>2. cmd \in Commands /\ cmd.pc = first /\ cmd.answer = answer
    BY <2>1 DEF Commands, Steps
  <2>3. op' = [op EXCEPT ![o] = cmd]
    BY <1>4 DEF answer
  <2> HIDE DEF cmd
  <2> QED
    BY <1>3, <2>1, <2>2, <2>3
<1>5. CASE /\ status[r] = sending
           /\ op' = [op EXCEPT ![o] = [pc |-> "send", jti |-> j, answer |-> staged[r]]]
  <2> DEFINE cmd == [pc |-> "send", jti |-> j, answer |-> staged[r]]
  <2>1. staged[r] # NoAnswer
    BY <1>5 DEF DecidedIsAnswered
  <2>2. staged[r] \in Allocated
    BY <2>1 DEF Allocated
  <2>3. staged[r] \in Answers
    BY <2>2 DEF AllocatedKnown
  <2>4. cmd \in Commands /\ cmd.pc = "send" /\ cmd.answer = staged[r]
    BY <2>3 DEF Commands, Steps
  <2>5. op' = [op EXCEPT ![o] = cmd]
    BY <1>5
  <2> HIDE DEF cmd
  <2> QED
    BY <1>3, <2>2, <2>4, <2>5
<1> QED
  BY <1>4, <1>5 DEF Decide

(* The steps that move on with nothing but the event log written.          *)
LEMMA PlainStep ==
    ASSUME IInv, NEW o \in Operators,
           ChecksPass(o) \/ RecordSignEvent(o) \/ RecordArtifactEvent(o)
    PROVE  IInv'
<1> USE DEF IInv
<1>1. UNCHANGED <<status, staged, outSeq, request, sent, signed>>
  BY DEF ChecksPass, RecordSignEvent, RecordArtifactEvent, tables
<1>2. CASE op[o].pc = "checks" /\ Goto(o, "start")
  <2>1. Moves(o, "start", op[o].answer)
    BY <1>2, GotoMoves DEF Steps
  <2> QED
    BY <1>1, <2>1, QuietStep DEF Moves, Alone, Typed, HoldsSeq, Signs, Drafts
<1>3. ASSUME NEW pc \in {"artifact", "seq"}, op[o].pc \in {"event", "artifact"}, Goto(o, pc)
      PROVE  IInv'
  <2>1. Moves(o, pc, op[o].answer)
    BY <1>3, GotoMoves DEF Steps
  <2>2. ~HoldsSeq(o)' /\ ~Signs(o)' /\ op'[o].pc # "finish"
    BY <1>3, <2>1 DEF Moves, HoldsSeq, Signs
  <2>3. Drafts(o)' => Drafts(o) /\ Row(o)' = Row(o)
    BY <1>3, <2>1 DEF Moves, Drafts, IsRefusal, Row
  <2> QED
    BY <1>1, <2>1, <2>2, <2>3, QuietStep DEF Moves, Alone, Typed
<1> QED
  BY <1>2, <1>3 DEF ChecksPass, RecordSignEvent, RecordArtifactEvent

(* A process that ends or dies takes nothing with it but its own answer.   *)
LEMMA EndsQuietly ==
    ASSUME IInv, NEW o \in Operators, Ends(o),
           UNCHANGED <<status, staged, outSeq, request, sent>>, signed' \in Nat
    PROVE  IInv'
<1>1. ~HoldsSeq(o)' /\ ~Signs(o)' /\ ~Drafts(o)' /\ op'[o].pc # "finish"
  BY DEF Ends, HoldsSeq, Signs, Drafts
<1> QED
  BY <1>1, QuietStep DEF Ends, Alone

LEMMA DiesStep ==
    ASSUME IInv, NEW o \in Operators, Dies(o)
    PROVE  IInv'
BY ExitEnds, EndsQuietly DEF IInv, Typed, Dies, tables

(* The wallet signs: a fresh signature, in the hands of the row's owner.   *)
LEMMA WalletSignsStep ==
    ASSUME IInv, NEW o \in Operators, WalletSigns(o)
    PROVE  IInv'
<1> USE DEF IInv
<1> DEFINE a == [op[o].answer EXCEPT !.answer = signed + 1]
           cmd == [[op[o] EXCEPT !.pc = "complete"] EXCEPT !.answer = a]
<1>1. op[o] \in Commands /\ op[o].answer \in Answers /\ op[o].pc = "wallet"
  BY Carries DEF WalletSigns, Steps
<1>2. signed' = signed + 1 /\ signed' \in Nat
  BY DEF WalletSigns, Typed
<1>3. a \in Answers /\ a.row = op[o].answer.row
  BY <1>1, <1>2 DEF Answers
<1>4. op' = [op EXCEPT ![o] = cmd]
  BY <1>1 DEF WalletSigns, Commands, Answers
<1> HIDE DEF a
<1>5. cmd \in Commands /\ cmd.pc = "complete" /\ cmd.answer = a
  BY <1>1, <1>3 DEF Commands, Steps
<1> HIDE DEF cmd
<1>6. op' \in [Operators -> {Idle} \cup Commands] /\ op'[o] = cmd /\ Alone(o)
  BY <1>4, <1>5 DEF Alone, Typed, Commands
<1>7. Signs(o) /\ Row(o)' = Row(o) /\ ~HoldsSeq(o)' /\ ~Drafts(o)' /\ op'[o].pc # "finish"
  BY <1>1, <1>3, <1>5, <1>6 DEF Signs, Row, HoldsSeq, Drafts
<1>8. UNCHANGED <<status, staged, outSeq, request, sent>>
  BY DEF WalletSigns, tables
<1> QED
  BY <1>2, <1>6, <1>7, <1>8, QuietStep

-----------------------------------------------------------------------------
(* A step on the request row of o's txset; answers, decisions and seqs are *)
(* left alone.                                                             *)
RequestStep(o, to) ==
    /\ request' = [request EXCEPT ![Txset[Row(o)]] = to]
    /\ op' \in [Operators -> {Idle} \cup Commands]
    /\ Alone(o)
    /\ ~HoldsSeq(o)'
    /\ UNCHANGED <<status, staged, outSeq, sent>>
    /\ signed' \in Nat

(* What such a step leaves to show.                                        *)
LEMMA RequestKept ==
    ASSUME IInv, NEW o \in Operators, op[o].pc \in Steps,
           NEW to \in {"absent", "in_progress", "completed"}, RequestStep(o, to),
           request[Txset[Row(o)]] # "completed"
    PROVE  /\ Typed' /\ AllocatedKnown' /\ OneAnswerPerSeq' /\ OneApproval'
           /\ FinishedIsSent' /\ DecidedIsAnswered'
           /\ Allocated' \subseteq Allocated
           /\ \A t \in Txsets : t # Txset[Row(o)] => request'[t] = request[t]
           /\ request'[Txset[Row(o)]] = to
<1> USE DEF IInv, RequestStep
<1>1. Txset[Row(o)] \in Txsets
  BY Carries
<1>2. Typed'
  BY <1>1 DEF Typed, Commands
<1>3. Allocated' \subseteq Allocated
  <2>1. \A x \in sent' : x \in Allocated
    BY DEF Allocated
  <2>2. \A r \in Rows : staged'[r] # NoAnswer => staged'[r] \in Allocated
    BY DEF Allocated
  <2> QED
    BY <2>1, <2>2, NothingAllocated
<1>4. \A t \in Txsets : t # Txset[Row(o)] => request'[t] = request[t]
  BY DEF Typed
<1>5. request'[Txset[Row(o)]] = to
  BY <1>1 DEF Typed
<1>6. AllocatedKnown' /\ OneAnswerPerSeq' /\ OneApproval'
  BY <1>3, <1>4, AnswersKept
<1>7. FinishedIsSent'
  BY DEF FinishedIsSent, Alone, HoldsSeq
<1>8. DecidedIsAnswered'
  BY DEF DecidedIsAnswered
<1> QED
  BY <1>2, <1>3, <1>4, <1>5, <1>6, <1>7, <1>8

(* The other processes, seen by the next two invariants.                   *)
LEMMA OthersKeep ==
    ASSUME IInv, NEW o \in Operators, Alone(o), NEW p \in Operators, p # o
    PROVE  /\ Signs(p)' <=> Signs(p)
           /\ Drafts(p)' <=> Drafts(p)
           /\ Row(p)' = Row(p)
           /\ Signs(p) \/ Drafts(p) => Txset[Row(p)] \in Txsets
<1>1. Signs(p) \/ Drafts(p) => op[p].pc \in Steps
  BY DEF Signs, Drafts, Steps
<1>2. Signs(p) \/ Drafts(p) => Txset[Row(p)] \in Txsets
  BY <1>1, Carries DEF IInv
<1> QED
  BY <1>2 DEF Alone, Signs, Drafts, Row, IsRefusal

(* start_sign_request: the row was absent, so nobody else signs the txset. *)
LEMMA StartSignRequestStep ==
    ASSUME IInv, NEW o \in Operators, StartSignRequest(o)
    PROVE  IInv'
<1> USE DEF IInv
<1>0. op[o].pc \in Steps /\ signed' \in Nat
  BY DEF StartSignRequest, Steps, Typed
<1>1. CASE ~RowFree(Txset[Row(o)])
  BY <1>0, <1>1, ExitEnds, EndsQuietly DEF StartSignRequest
<1>2. CASE RowFree(Txset[Row(o)])
  <2>1. Moves(o, "consume", op[o].answer)
    BY <1>0, <1>2, GotoMoves DEF StartSignRequest, Steps
  <2>2. Row(o)' = Row(o) /\ ~Drafts(o)' /\ Alone(o)
    BY <2>1 DEF Moves, Row, Drafts, Alone
  <2>3. RequestStep(o, "in_progress")
    BY <1>0, <1>2, <2>1, <2>2 DEF RequestStep, StartSignRequest, Moves, HoldsSeq
  <2>4. request[Txset[Row(o)]] = "absent"
    BY <1>2 DEF RowFree
  <2>5. OneSigner'
    BY <1>0, <2>2, <2>3, <2>4, RequestKept, OthersKeep DEF OneSigner
  <2>6. OneDraft'
    BY <1>0, <2>2, <2>3, <2>4, RequestKept, OthersKeep DEF OneDraft
  <2> QED
    BY <1>0, <2>3, <2>4, <2>5, <2>6, RequestKept
<1> QED
  BY <1>1, <1>2

(* abort_sign_request removes the row of the one process that owns it.     *)
LEMMA AbortSignRequestStep ==
    ASSUME IInv, NEW o \in Operators, op[o].pc \in {"consume", "wallet"},
           AbortSignRequest(o), UNCHANGED <<status, staged, outSeq, sent>>, signed' \in Nat
    PROVE  IInv'
<1> USE DEF IInv
<1>1. op[o].pc \in Steps /\ Signs(o)
  BY DEF Steps, Signs
<1>2. request[Txset[Row(o)]] = "in_progress" /\ Txset[Row(o)] \in Txsets
  BY <1>1, Carries DEF OneSigner
<1>3. Ends(o)
  BY ExitEnds DEF AbortSignRequest
<1>4. Alone(o) /\ ~HoldsSeq(o)' /\ ~Signs(o)' /\ ~Drafts(o)'
  BY <1>3 DEF Ends, Alone, HoldsSeq, Signs, Drafts
<1>5. request' = [request EXCEPT ![Txset[Row(o)]] = "absent"]
  BY <1>2 DEF AbortSignRequest, Typed
<1>6. RequestStep(o, "absent")
  BY <1>3, <1>4, <1>5 DEF RequestStep, Ends
<1>7. OneSigner'
  BY <1>1, <1>2, <1>4, <1>6, RequestKept, OthersKeep DEF OneSigner
<1>8. OneDraft'
  BY <1>1, <1>2, <1>4, <1>6, RequestKept, OthersKeep DEF OneDraft
<1> QED
  BY <1>1, <1>2, <1>6, <1>7, <1>8, RequestKept

LEMMA ConsumeActionJtiStep ==
    ASSUME IInv, NEW o \in Operators, ConsumeActionJti(o)
    PROVE  IInv'
<1> USE DEF IInv
<1>0. /\ op[o].pc = "consume" /\ op[o].pc \in Steps /\ signed' \in Nat
      /\ UNCHANGED <<status, staged, outSeq, sent>>
  BY DEF ConsumeActionJti, Steps, Typed
<1>1. CASE AbortSignRequest(o)
  BY <1>0, <1>1, AbortSignRequestStep
<1>2. CASE Goto(o, "wallet") /\ request' = request
  <2>1. Moves(o, "wallet", op[o].answer)
    BY <1>0, <1>2, GotoMoves DEF Steps
  <2>2. Signs(o) /\ Row(o)' = Row(o) /\ ~HoldsSeq(o)' /\ ~Drafts(o)' /\ op'[o].pc # "finish"
    BY <1>0, <2>1 DEF Moves, Signs, Row, HoldsSeq, Drafts
  <2> QED
    BY <1>0, <1>2, <2>1, <2>2, QuietStep DEF Moves, Alone
<1> QED
  BY <1>1, <1>2 DEF ConsumeActionJti

LEMMA WalletFailsStep ==
    ASSUME IInv, NEW o \in Operators, WalletFails(o)
    PROVE  IInv'
BY AbortSignRequestStep DEF WalletFails, IInv, Typed

(* complete_sign_request: no approval of the txset existed before.         *)
LEMMA CompleteSignRequestStep ==
    ASSUME IInv, NEW o \in Operators, CompleteSignRequest(o)
    PROVE  IInv'
<1> USE DEF IInv
<1>1. /\ op[o].pc \in Steps /\ Signs(o) /\ signed' \in Nat
      /\ UNCHANGED <<status, staged, outSeq, sent>>
  BY DEF CompleteSignRequest, Steps, Signs, Typed
<1>2. request[Txset[Row(o)]] = "in_progress"
  BY <1>1 DEF OneSigner
<1>3. Moves(o, "event", op[o].answer)
  BY <1>1, <1>2, GotoMoves DEF CompleteSignRequest, Steps
<1>4. Row(o)' = Row(o) /\ ~Signs(o)' /\ ~HoldsSeq(o)' /\ Alone(o)
  BY <1>3 DEF Moves, Row, Signs, HoldsSeq, Alone
<1>5. RequestStep(o, "completed")
  BY <1>1, <1>2, <1>3, <1>4 DEF RequestStep, CompleteSignRequest, Moves
<1>6. OneSigner'
  BY <1>1, <1>2, <1>4, <1>5, RequestKept, OthersKeep DEF OneSigner
<1>7. \A x \in Allocated : Approval(x) => Txset[x.row] # Txset[Row(o)]
  BY <1>2 DEF AllocatedKnown
<1>8. OneDraft'
  BY <1>1, <1>2, <1>4, <1>5, <1>7, RequestKept, OthersKeep DEF OneDraft
<1> QED
  BY <1>1, <1>2, <1>5, <1>6, <1>8, RequestKept

-----------------------------------------------------------------------------
(* next_out_seq: the one step that gives an answer its seq, a fresh one.   *)
LEMMA NextOutSeqStep ==
    ASSUME IInv, NEW o \in Operators, NextOutSeq(o)
    PROVE  IInv'
<1> USE DEF IInv
<1> DEFINE a == [op[o].answer EXCEPT !.seq = outSeq + 1]
           cmd == [[op[o] EXCEPT !.pc = "stage"] EXCEPT !.answer = a]
<1>1. op[o] \in Commands /\ op[o].answer \in Answers /\ op[o].pc = "seq" /\ Row(o) \in Rows
  BY Carries DEF NextOutSeq, Steps
<1>2. outSeq \in Nat /\ outSeq' = outSeq + 1 /\ UNCHANGED <<status, staged, request, signed, sent>>
  BY DEF NextOutSeq, Typed
<1>3. a \in Answers /\ a.row = Row(o) /\ a.answer = op[o].answer.answer /\ a.seq = outSeq + 1
  BY <1>1, <1>2 DEF Answers, Row
<1>4. op' = [op EXCEPT ![o] = cmd]
  BY <1>1 DEF NextOutSeq, AllocatedSeq, Commands, Answers
<1> HIDE DEF a
<1>5. cmd \in Commands /\ cmd.pc = "stage" /\ cmd.answer = a
  BY <1>1, <1>3 DEF Commands, Steps
<1> HIDE DEF cmd
<1>6. op' \in [Operators -> {Idle} \cup Commands] /\ op'[o] = cmd /\ Alone(o)
  BY <1>4, <1>5 DEF Alone, Typed, Commands
<1>7. Typed'
  BY <1>2, <1>6 DEF Typed, Commands
<1>8. Allocated' \subseteq Allocated \cup {a}
  <2> SUFFICES ASSUME NEW x \in Allocated', x # a PROVE x \in Allocated
    OBVIOUS
  <2>1. ASSUME NEW p \in Operators, HoldsSeq(p)', x = op'[p].answer PROVE x \in Allocated
    BY <1>5, <1>6, <2>1 DEF HoldsSeq, Alone, Allocated
  <2> QED
    BY <1>2, <2>1 DEF Allocated
<1>9. Approval(a) => /\ Drafts(o)
                     /\ request[Txset[a.row]] = "completed"
                     /\ \A x \in Allocated : Approval(x) => Txset[x.row] # Txset[a.row]
  BY <1>1, <1>3 DEF Approval, Drafts, IsRefusal, OneDraft
<1>10. AllocatedKnown'
  <2> SUFFICES ASSUME NEW x \in Allocated'
               PROVE  /\ x \in Answers
                      /\ x.seq \in 1 .. outSeq'
                      /\ Approval(x) => request'[Txset[x.row]] = "completed"
    BY DEF AllocatedKnown
  <2>1. CASE x = a
    BY <1>2, <1>3, <1>9, <2>1
  <2>2. CASE x \in Allocated
    BY <1>2, <2>2 DEF AllocatedKnown
  <2> QED
    BY <1>8, <2>1, <2>2
<1>11. \A x \in Allocated : x.seq # a.seq
  BY <1>2, <1>3 DEF AllocatedKnown
<1>12. OneAnswerPerSeq'
  BY <1>8, <1>11 DEF OneAnswerPerSeq
<1>13. OneApproval'
  BY <1>8, <1>9 DEF OneApproval
<1>14. Signs(o)' = FALSE /\ ~Drafts(o)'
  BY <1>5, <1>6 DEF Signs, Drafts
<1>15. OneSigner'
  BY <1>2, <1>6, <1>14, OthersKeep DEF OneSigner
<1>16. OneDraft'
  <2>1. ASSUME NEW p \in Operators, Drafts(p)'
        PROVE  /\ Drafts(p) /\ p # o /\ Row(p)' = Row(p)
               /\ Approval(a) => Txset[a.row] # Txset[Row(p)]
    BY <1>3, <1>6, <1>9, <1>14, <2>1, OthersKeep DEF OneDraft
  <2> QED
    BY <1>2, <1>8, <2>1 DEF OneDraft
<1>17. FinishedIsSent'
  BY <1>2, <1>5, <1>6 DEF FinishedIsSent, Alone
<1>18. DecidedIsAnswered'
  BY <1>2 DEF DecidedIsAnswered
<1> QED
  BY <1>7, <1>10, <1>12, <1>13, <1>15, <1>16, <1>17, <1>18

-----------------------------------------------------------------------------
(* The answer of a process with a seq.                                     *)
LEMMA HeldAnswer ==
    ASSUME IInv, NEW o \in Operators, HoldsSeq(o)
    PROVE  /\ op[o].pc \in Steps
           /\ op[o].answer \in Allocated
           /\ op[o].answer \in Answers
           /\ op[o].answer # NoAnswer
           /\ Row(o) \in Rows
<1>1. op[o].pc \in Steps
  BY DEF HoldsSeq, Steps
<1>2. op[o].answer \in Allocated
  BY DEF Allocated
<1>3. op[o].answer.seq \in 1 .. outSeq
  BY <1>2 DEF IInv, AllocatedKnown
<1>4. op[o].answer # NoAnswer
  BY <1>3 DEF NoAnswer
<1> QED
  BY <1>1, <1>2, <1>4, Carries DEF IInv

(* A step of o on the decision of one row, and on what was sent.           *)
LEMMA DecisionStep ==
    ASSUME IInv, NEW o \in Operators, Alone(o), op[o].pc \in Steps,
           op' \in [Operators -> {Idle} \cup Commands],
           UNCHANGED <<outSeq, request, signed>>,
           sent \subseteq sent', sent' \subseteq sent \cup {op[o].answer},
           sent' # sent => HoldsSeq(o),
           HoldsSeq(o)' => HoldsSeq(o) /\ op'[o].answer = op[o].answer,
           ~Signs(o)', ~Drafts(o)',
           op'[o].pc = "finish" => op'[o].answer \in sent',
           NEW st \in Statuses, NEW answer \in {op[o].answer, NoAnswer},
           \/ UNCHANGED <<status, staged>>
           \/ /\ status' = [status EXCEPT ![Row(o)] = st]
              /\ staged' = [staged EXCEPT ![Row(o)] = answer]
              /\ answer # NoAnswer => HoldsSeq(o) /\ st \in {"approved_sending", "rejected_sending"}
              /\ answer = NoAnswer => st \notin {"approved_sending", "rejected_sending"}
              /\ st = "approved_sent" => op[o].answer \in sent /\ ~IsRefusal(o)
              /\ st = "rejected" => op[o].answer \in sent /\ IsRefusal(o)
    PROVE  IInv'
<1> USE DEF IInv
<1>1. op[o].answer \in Answers /\ Row(o) \in Rows
  BY Carries
<1>2. Typed'
  BY <1>1 DEF Typed, Commands
<1>3. Allocated' \subseteq Allocated
  <2>1. HoldsSeq(o)' => op'[o].answer \in Allocated
    BY HeldAnswer
  <2>2. \A x \in sent' : x \in Allocated
    BY HeldAnswer DEF Allocated
  <2>3. \A r \in Rows : staged'[r] # NoAnswer => staged'[r] \in Allocated
    <3> SUFFICES ASSUME NEW r \in Rows, staged'[r] # NoAnswer PROVE staged'[r] \in Allocated
      OBVIOUS
    <3>1. CASE staged'[r] = staged[r]
      BY <3>1 DEF Allocated
    <3>2. CASE staged'[r] # staged[r]
      BY <1>1, <3>2, HeldAnswer DEF Typed
    <3> QED
      BY <3>1, <3>2
  <2> QED
    BY <2>1, <2>2, <2>3, NothingAllocated
<1>4. AllocatedKnown' /\ OneAnswerPerSeq' /\ OneApproval'
  BY <1>3, AnswersKept
<1>5. OneSigner' /\ OneDraft'
  BY <1>3, NoNewSigner
<1>6. FinishedIsSent'
  BY DEF FinishedIsSent, Alone
<1>7. DecidedIsAnswered'
  <2>1. CASE UNCHANGED <<status, staged>>
    BY <2>1 DEF DecidedIsAnswered
  <2>2. CASE status' # status \/ staged' # staged
    <3> SUFFICES ASSUME NEW r \in Rows
                 PROVE  /\ staged'[r] # NoAnswer <=> status'[r] \in {"approved_sending", "rejected_sending"}
                        /\ status'[r] = "approved_sent" => \E x \in sent' : x.row = r /\ x.answer # Refusal
                        /\ status'[r] = "rejected" => \E x \in sent' : x.row = r /\ x.answer = Refusal
      BY DEF DecidedIsAnswered
    <3>1. CASE r # Row(o)
      BY <1>1, <2>2, <3>1 DEF Typed, DecidedIsAnswered
    <3>2. CASE r = Row(o)
      <4>1. staged'[r] = answer /\ status'[r] = st
        BY <1>1, <2>2, <3>2 DEF Typed
      <4>2. op[o].answer.row = r /\ (IsRefusal(o) <=> op[o].answer.answer = Refusal)
        BY <3>2 DEF Row, IsRefusal
      <4> QED
        BY <2>2, <4>1, <4>2
    <3> QED
      BY <3>1, <3>2
  <2> QED
    BY <2>1, <2>2
<1> QED
  BY <1>2, <1>4, <1>5, <1>6, <1>7

(* The answer is staged under its row.                                     *)
LEMMA StageAnswerStep ==
    ASSUME IInv, NEW o \in Operators, StageAnswer(o)
    PROVE  IInv'
<1>1. HoldsSeq(o)
  BY DEF StageAnswer, HoldsSeq
<1>2. Moves(o, "send", op[o].answer)
  BY <1>1, HeldAnswer, GotoMoves DEF StageAnswer, IInv, Steps
<1>3. Alone(o) /\ ~Signs(o)' /\ ~Drafts(o)' /\ op'[o].pc # "finish" /\ op'[o].answer = op[o].answer
  BY <1>2 DEF Moves, Alone, Signs, Drafts
<1> DEFINE st == IF IsRefusal(o) THEN "rejected_sending" ELSE "approved_sending"
<1>4. st \in Statuses /\ st \in {"approved_sending", "rejected_sending"}
  BY DEF Statuses
<1>5. /\ status' = [status EXCEPT ![Row(o)] = st]
      /\ staged' = [staged EXCEPT ![Row(o)] = op[o].answer]
      /\ UNCHANGED <<outSeq, request, signed, sent>>
  BY DEF StageAnswer
<1> HIDE DEF st
<1>6. op[o].pc \in Steps /\ op[o].answer # NoAnswer /\ op' \in [Operators -> {Idle} \cup Commands]
  BY <1>1, <1>2, HeldAnswer DEF Moves
<1> QED
  BY <1>1, <1>3, <1>4, <1>5, <1>6, DecisionStep

(* The answer reaches the mailbox, and the process goes on or gives up.    *)
LEMMA SendStep ==
    ASSUME IInv, NEW o \in Operators, SendBody(o) \/ SendFails(o)
    PROVE  IInv'
<1>1. HoldsSeq(o) /\ op[o].pc \in Steps
  BY HeldAnswer DEF SendBody, SendFails, HoldsSeq
<1>2. /\ UNCHANGED <<status, staged, outSeq, request, signed>>
      /\ sent' \in {sent, sent \cup {op[o].answer}}
  BY DEF SendBody, SendFails, tables
<1>3. CASE SendBody(o)
  <2>1. Moves(o, "finish", op[o].answer)
    BY <1>1, <1>3, GotoMoves DEF SendBody, IInv, Steps
  <2>2. op[o].answer \in sent'
    BY <1>3 DEF SendBody
  <2>3. Alone(o) /\ ~Signs(o)' /\ ~Drafts(o)' /\ op'[o].answer = op[o].answer
    BY <2>1 DEF Moves, Alone, Signs, Drafts
  <2> QED
    BY <1>1, <1>2, <2>1, <2>2, <2>3, DecisionStep DEF Moves, Statuses
<1>4. CASE SendFails(o)
  <2>1. Ends(o)
    BY <1>4, ExitEnds DEF SendFails, AfterPushError, IInv
  <2>2. Alone(o) /\ ~Signs(o)' /\ ~Drafts(o)' /\ ~HoldsSeq(o)' /\ op'[o].pc # "finish"
    BY <2>1 DEF Ends, Alone, Signs, Drafts, HoldsSeq
  <2> QED
    BY <1>1, <1>2, <2>1, <2>2, DecisionStep DEF Ends, Statuses
<1> QED
  BY <1>3, <1>4

(* The row is closed, with its answer sent, or as a dead letter.           *)
LEMMA CloseStep ==
    ASSUME IInv, NEW o \in Operators, FinishDecision(o) \/ ChecksFailForGood(o)
    PROVE  IInv'
<1>1. op[o].pc \in Steps
  BY DEF FinishDecision, ChecksFailForGood, Steps
<1>2. Ends(o)
  BY ExitEnds DEF FinishDecision, ChecksFailForGood, IInv
<1>3. /\ Alone(o) /\ ~Signs(o)' /\ ~Drafts(o)' /\ ~HoldsSeq(o)' /\ op'[o].pc # "finish"
      /\ op' \in [Operators -> {Idle} \cup Commands]
  BY <1>2 DEF Ends, Alone, Signs, Drafts, HoldsSeq
<1>4. UNCHANGED <<outSeq, request, signed, sent>> /\ staged' = [staged EXCEPT ![Row(o)] = NoAnswer]
  BY DEF FinishDecision, ChecksFailForGood, Unstaged
<1>5. CASE FinishDecision(o)
  <2> DEFINE st == IF IsRefusal(o) THEN "rejected" ELSE "approved_sent"
  <2>1. /\ st \in Statuses /\ st \notin {"approved_sending", "rejected_sending"}
        /\ st = "approved_sent" => ~IsRefusal(o)
        /\ st = "rejected" => IsRefusal(o)
    BY DEF Statuses
  <2>2. status' = [status EXCEPT ![Row(o)] = st]
    BY <1>5 DEF FinishDecision
  <2>3. op[o].answer \in sent
    BY <1>5 DEF FinishDecision, IInv, FinishedIsSent
  <2> HIDE DEF st
  <2> QED
    BY <1>1, <1>3, <1>4, <2>1, <2>2, <2>3, DecisionStep
<1>6. CASE ChecksFailForGood(o)
  <2> DEFINE st == "failed_dead_letter"
  <2>1. /\ st \in Statuses
        /\ st \notin {"approved_sending", "rejected_sending", "approved_sent", "rejected"}
    BY DEF Statuses
  <2>2. status' = [status EXCEPT ![Row(o)] = st]
    BY <1>6 DEF ChecksFailForGood
  <2> HIDE DEF st
  <2> QED
    BY <1>1, <1>3, <1>4, <2>1, <2>2, DecisionStep
<1> QED
  BY <1>5, <1>6

-----------------------------------------------------------------------------
(* Every step of every process preserves the invariant.                    *)
LEMMA IInvInductive ==
    ASSUME IInv, [Next]_vars
    PROVE  IInv'
<1>1. CASE UNCHANGED vars
  <2>1. UNCHANGED <<status, staged, outSeq, request, signed, sent, op>>
    BY <1>1 DEF vars, tables
  <2>2. Allocated' = Allocated
    BY <2>1 DEF Allocated, HoldsSeq
  <2> QED
    BY <2>1, <2>2 DEF IInv, Typed, AllocatedKnown, OneAnswerPerSeq, OneApproval, OneSigner,
       OneDraft, FinishedIsSent, DecidedIsAnswered, Signs, Drafts, Row, IsRefusal
<1>2. ASSUME NEW o \in Operators, NEW r \in Rows, NEW j \in Jtis, Approve(o, r, j)
      PROVE  IInv'
  BY <1>2, DecideStep DEF Approve
<1>3. ASSUME NEW o \in Operators, NEW r \in Rows, Reject(o, r)
      PROVE  IInv'
  BY <1>3, DecideStep DEF Reject
<1>4. ASSUME NEW o \in Operators, Sign(o)
      PROVE  IInv'
  BY <1>4, PlainStep, CloseStep, StartSignRequestStep, ConsumeActionJtiStep, WalletSignsStep,
     WalletFailsStep, CompleteSignRequestStep DEF Sign
<1>5. ASSUME NEW o \in Operators, Answer(o)
      PROVE  IInv'
  BY <1>5, NextOutSeqStep, StageAnswerStep, SendStep, CloseStep DEF Answer
<1> QED
  BY <1>1, <1>2, <1>3, <1>4, <1>5, DiesStep DEF Next

(* The invariant holds in every reachable state.                           *)
LEMMA IInvAlways == Spec => []IInv
BY IInvInit, IInvInductive, PTL DEF Spec

(* Whatever is retried, interrupted or decided twice, no two answers leave *)
(* approve_pending and reject_pending under one outgoing seq.              *)
THEOREM AnswersHaveTheirSeq == Spec => []SeqCarriesOneAnswer
<1>1. IInv => SeqCarriesOneAnswer
  BY DEF IInv, OneAnswerPerSeq, Allocated, SeqCarriesOneAnswer
<1> QED
  BY <1>1, IInvAlways, PTL

(* At most one signature of a txset is sent, however many rows and         *)
(* operators ask for it: sign_request_dedup is claimed once for good.      *)
THEOREM OneSignatureLeaves == Spec => []OneApprovalPerTxset
<1>1. IInv => OneApprovalPerTxset
  BY DEF IInv, OneApproval, Allocated, Approval, OneApprovalPerTxset
<1> QED
  BY <1>1, IInvAlways, PTL

(* No row of pending_tx_sign is closed before its answer was pushed, and   *)
(* an answer is staged exactly while it is being sent.                     *)
THEOREM ClosedRowsWereAnswered == Spec => []DecidedIsAnswered
<1>1. IInv => DecidedIsAnswered
  BY DEF IInv
<1> QED
  BY <1>1, IInvAlways, PTL
=============================================================================
