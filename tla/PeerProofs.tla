---------------------------- MODULE PeerProofs -----------------------------
(***************************************************************************)
(* What sign_req calls over one vault and one inbox can rely on, for any   *)
(* number of calls, escrows, signers and rows, whatever pulls, acks,       *)
(* leases, expiries, failures and repetitions do in between: no row is     *)
(* returned twice, an orderly call returns its own answer, and no signer   *)
(* refuses as a replay what was sent alone and in its turn.                *)
(*                                                                         *)
(* RowAnswersOnce says nothing of the inbox, so it is not inductive.  IInv *)
(* adds that an id names one row, that ids are not used again, and that a  *)
(* returned row is gone: then the ack of a second call finds no row under  *)
(* its receipt.  OwnAnswer needs TripInv: on an orderly trip there is one  *)
(* call and at most one envelope.  HeardInOrder needs HeardInv: file,      *)
(* calls and requests are ahead of the signers, in this order.             *)
(***************************************************************************)
EXTENDS Peer, TLAPS

RowShape(r) ==
    r = [id |-> r.id, of |-> r.of, escrow |-> r.escrow, from |-> r.from,
         kind |-> r.kind, receipt |-> r.receipt]

CallShape(k) ==
    k = [pc |-> k.pc, escrow |-> k.escrow, to |-> k.to, file |-> k.file,
         seq |-> k.seq, pulls |-> k.pulls, row |-> k.row]

(* A call that runs has all its fields.                                    *)
CallsShaped ==
    /\ call = [c \in Calls |-> call[c]]
    /\ \A c \in Calls : Running(c) => CallShape(call[c])

NamesRows(rows, last) ==
    /\ \A r \in rows : RowShape(r) /\ r.id \in 1 .. last
    /\ \A r, q \in rows : r.id = q.id => r = q

(* An id names at most one row of the inbox, and new rows get higher ids.  *)
RowsNamed == lastRow \in Nat /\ NamesRows(inbox, lastRow)

(* What a call returned has left the inbox for good.                       *)
ReturnedIsGone ==
    \A c \in Calls : call[c].pc = "returned" =>
        /\ call[c].row.id \in 1 .. lastRow
        /\ \A r \in inbox : r.id # call[c].row.id

(* The same envelope, perhaps under another receipt.                       *)
SameRow(r, q) == r.id = q.id /\ r.of = q.of /\ r.escrow = q.escrow /\ r.from = q.from

IInv == CallsShaped /\ RowsNamed /\ ReturnedIsGone /\ RowAnswersOnce

(* Nothing has been returned and the inbox is empty.                       *)
LEMMA IInvInit == Init => IInv
BY DEF Init, IInv, CallsShaped, Running, Ended, RowsNamed, NamesRows, ReturnedIsGone,
       RowAnswersOnce, Unstarted

-----------------------------------------------------------------------------
(* A lease, given or ended, changes the receipt of a row and nothing else. *)
LEMMA NewReceipt ==
    ASSUME NEW r, NEW v, RowShape(r)
    PROVE  RowShape([r EXCEPT !.receipt = v]) /\ SameRow([r EXCEPT !.receipt = v], r)
<1> DEFINE id == r.id  of == r.of  escrow == r.escrow  from == r.from  kind == r.kind
           receipt == r.receipt
<1>1. r = [id |-> id, of |-> of, escrow |-> escrow, from |-> from, kind |-> kind,
           receipt |-> receipt]
  BY DEF RowShape
<1>2. r.id = id /\ r.of = of /\ r.escrow = escrow /\ r.from = from
  OBVIOUS
<1> HIDE DEF id, of, escrow, from, kind, receipt
<1>3. [r EXCEPT !.receipt = v] =
        [id |-> id, of |-> of, escrow |-> escrow, from |-> from, kind |-> kind, receipt |-> v]
  BY <1>1
<1> QED
  BY <1>2, <1>3 DEF RowShape, SameRow

SameTrip(n, k) == n.escrow = k.escrow /\ n.to = k.to

(* A call that replaces one of its fields keeps the others.                *)
LEMMA NewPc ==
    ASSUME NEW k, NEW v, CallShape(k)
    PROVE  LET n == [k EXCEPT !.pc = v] IN
           CallShape(n) /\ SameTrip(n, k) /\ n.pc = v /\ n.row = k.row /\ n.seq = k.seq
<1> DEFINE pc == k.pc  escrow == k.escrow  to == k.to  f == k.file  seq == k.seq
           pulls == k.pulls  row == k.row
<1>1. k = [pc |-> pc, escrow |-> escrow, to |-> to, file |-> f, seq |-> seq, pulls |-> pulls,
           row |-> row]
  BY DEF CallShape
<1>2. k.pc = pc /\ k.row = row /\ k.escrow = escrow /\ k.to = to /\ k.seq = seq
  OBVIOUS
<1> HIDE DEF pc, escrow, to, f, seq, pulls, row
<1>3. [k EXCEPT !.pc = v] =
        [pc |-> v, escrow |-> escrow, to |-> to, file |-> f, seq |-> seq,
         pulls |-> pulls, row |-> row]
  BY <1>1
<1> QED
  BY <1>2, <1>3 DEF CallShape, SameTrip

LEMMA NewFile ==
    ASSUME NEW k, NEW v, CallShape(k)
    PROVE  LET n == [k EXCEPT !.file = v] IN
           CallShape(n) /\ SameTrip(n, k) /\ n.pc = k.pc /\ n.file = v
<1> DEFINE pc == k.pc  escrow == k.escrow  to == k.to  f == k.file  seq == k.seq
           pulls == k.pulls  row == k.row
<1>1. k = [pc |-> pc, escrow |-> escrow, to |-> to, file |-> f, seq |-> seq, pulls |-> pulls,
           row |-> row]
  BY DEF CallShape
<1>2. k.pc = pc /\ k.row = row /\ k.escrow = escrow /\ k.to = to /\ k.seq = seq
  OBVIOUS
<1> HIDE DEF pc, escrow, to, f, seq, pulls, row
<1>3. [k EXCEPT !.file = v] =
        [pc |-> pc, escrow |-> escrow, to |-> to, file |-> v, seq |-> seq,
         pulls |-> pulls, row |-> row]
  BY <1>1
<1> QED
  BY <1>2, <1>3 DEF CallShape, SameTrip

LEMMA NewSeq ==
    ASSUME NEW k, NEW v, CallShape(k)
    PROVE  LET n == [k EXCEPT !.seq = v] IN
           CallShape(n) /\ SameTrip(n, k) /\ n.pc = k.pc /\ n.seq = v
<1> DEFINE pc == k.pc  escrow == k.escrow  to == k.to  f == k.file  seq == k.seq
           pulls == k.pulls  row == k.row
<1>1. k = [pc |-> pc, escrow |-> escrow, to |-> to, file |-> f, seq |-> seq, pulls |-> pulls,
           row |-> row]
  BY DEF CallShape
<1>2. k.pc = pc /\ k.row = row /\ k.escrow = escrow /\ k.to = to /\ k.seq = seq
  OBVIOUS
<1> HIDE DEF pc, escrow, to, f, seq, pulls, row
<1>3. [k EXCEPT !.seq = v] =
        [pc |-> pc, escrow |-> escrow, to |-> to, file |-> f, seq |-> v,
         pulls |-> pulls, row |-> row]
  BY <1>1
<1> QED
  BY <1>2, <1>3 DEF CallShape, SameTrip

LEMMA NewPulls ==
    ASSUME NEW k, NEW v, CallShape(k)
    PROVE  LET n == [k EXCEPT !.pulls = v] IN
           CallShape(n) /\ SameTrip(n, k) /\ n.pc = k.pc /\ n.row = k.row
<1> DEFINE pc == k.pc  escrow == k.escrow  to == k.to  f == k.file  seq == k.seq
           pulls == k.pulls  row == k.row
<1>1. k = [pc |-> pc, escrow |-> escrow, to |-> to, file |-> f, seq |-> seq, pulls |-> pulls,
           row |-> row]
  BY DEF CallShape
<1>2. k.pc = pc /\ k.row = row /\ k.escrow = escrow /\ k.to = to /\ k.seq = seq
  OBVIOUS
<1> HIDE DEF pc, escrow, to, f, seq, pulls, row
<1>3. [k EXCEPT !.pulls = v] =
        [pc |-> pc, escrow |-> escrow, to |-> to, file |-> f, seq |-> seq,
         pulls |-> v, row |-> row]
  BY <1>1
<1> QED
  BY <1>2, <1>3 DEF CallShape, SameTrip

LEMMA NewRowField ==
    ASSUME NEW k, NEW v, CallShape(k)
    PROVE  LET n == [k EXCEPT !.row = v] IN
           CallShape(n) /\ SameTrip(n, k) /\ n.pc = k.pc /\ n.row = v
<1> DEFINE pc == k.pc  escrow == k.escrow  to == k.to  f == k.file  seq == k.seq
           pulls == k.pulls  row == k.row
<1>1. k = [pc |-> pc, escrow |-> escrow, to |-> to, file |-> f, seq |-> seq, pulls |-> pulls,
           row |-> row]
  BY DEF CallShape
<1>2. k.pc = pc /\ k.row = row /\ k.escrow = escrow /\ k.to = to /\ k.seq = seq
  OBVIOUS
<1> HIDE DEF pc, escrow, to, f, seq, pulls, row
<1>3. [k EXCEPT !.row = v] =
        [pc |-> pc, escrow |-> escrow, to |-> to, file |-> f, seq |-> seq,
         pulls |-> pulls, row |-> v]
  BY <1>1
<1> QED
  BY <1>2, <1>3 DEF CallShape, SameTrip

-----------------------------------------------------------------------------
(* The rows of the inbox may be leased, released or removed, not added.    *)
NoNewRow ==
    /\ lastRow' = lastRow
    /\ NamesRows(inbox', lastRow)
    /\ \A r \in inbox' : \E q \in inbox : SameRow(r, q)

(* One call moves, and not to its return.                                  *)
Moves(c) ==
    /\ CallsShaped'
    /\ \A d \in Calls : d # c => call'[d] = call[d]
    /\ call'[c].pc # "returned"

(* What removes rows or leases and returns nothing keeps the invariant.    *)
LEMMA HarmlessSteps ==
    ASSUME IInv, NoNewRow, call' = call \/ \E c \in Calls : Moves(c)
    PROVE  IInv'
<1> USE DEF IInv
<1>1. CallsShaped'
  BY DEF CallsShaped, Running, Moves
<1>2. \A d \in Calls : call'[d].pc = "returned" => call'[d] = call[d]
  BY DEF Moves
<1>3. RowsNamed'
  BY DEF RowsNamed, NoNewRow
<1>4. ReturnedIsGone'
  BY <1>2 DEF ReturnedIsGone, NoNewRow, SameRow
<1>5. RowAnswersOnce'
  BY <1>2 DEF RowAnswersOnce
<1> QED
  BY <1>1, <1>3, <1>4, <1>5

(* An untouched inbox, and one that loses a row.                           *)
LEMMA InboxKept ==
    ASSUME IInv, lastRow' = lastRow, inbox' \subseteq inbox
    PROVE  NoNewRow
BY DEF IInv, RowsNamed, NamesRows, NoNewRow, SameRow

(* A pull gives rows receipts and leaves their ids alone.                  *)
LEMMA LeaseKeepsIds ==
    ASSUME IInv, Lease
    PROVE  /\ NoNewRow
           /\ Handed \subseteq inbox'
           /\ \A r \in Handed : \E q \in inbox : SameRow(r, q)
<1>1. inbox' = (inbox \ Pulled) \cup Handed /\ lastRow' = lastRow
  BY DEF Lease
<1>2. Pulled \subseteq inbox
  BY DEF Pulled, Free
<1>3. \A r \in inbox : RowShape(r)
  BY DEF IInv, RowsNamed, NamesRows
<1> DEFINE Receipt(r) == lastReceipt + Place(r)
           With(r) == [r EXCEPT !.receipt = Receipt(r)]
<1>4. Handed = {With(r) : r \in Pulled}
  BY DEF Handed
<1> HIDE DEF Receipt
<1>5. \A r \in Pulled : RowShape(With(r)) /\ SameRow(With(r), r)
  BY <1>2, <1>3, NewReceipt
<1> HIDE DEF With
<1>6. \A r \in Handed : RowShape(r) /\ \E q \in Pulled : SameRow(r, q) /\ r.id = q.id /\ r = With(q)
  BY <1>4, <1>5 DEF SameRow
<1>7. \A r, q \in Handed : r.id = q.id => r = q
  BY <1>2, <1>6 DEF IInv, RowsNamed, NamesRows
<1>8. \A r \in Handed, q \in inbox \ Pulled : r.id # q.id
  BY <1>2, <1>6 DEF IInv, RowsNamed, NamesRows
<1>9. \A r \in inbox' : \E q \in inbox : SameRow(r, q)
  BY <1>1, <1>2, <1>6 DEF SameRow
<1>10. NamesRows(inbox', lastRow)
  BY <1>1, <1>2, <1>3, <1>6, <1>7, <1>8 DEF IInv, RowsNamed, NamesRows
<1> QED
  BY <1>1, <1>2, <1>6, <1>9, <1>10 DEF NoNewRow

(* A lease that ends takes one receipt back.                               *)
LEMMA LeaseEndsKeepsIds == ASSUME IInv, NEW r \in inbox, LeaseEnds(r) PROVE NoNewRow
<1> DEFINE freed == [r EXCEPT !.receipt = 0]
<1>1. inbox' = (inbox \ {r}) \cup {freed} /\ lastRow' = lastRow
  BY DEF LeaseEnds
<1>2. RowShape(freed) /\ SameRow(freed, r) /\ freed.id = r.id
  BY NewReceipt DEF IInv, RowsNamed, NamesRows, SameRow
<1> HIDE DEF freed
<1> QED
  BY <1>1, <1>2 DEF IInv, RowsNamed, NamesRows, NoNewRow, SameRow

-----------------------------------------------------------------------------
(* A call that fails keeps nothing but that.                               *)
LEMMA FailsMoves == ASSUME IInv, NEW c \in Calls, Fails(c) PROVE Moves(c)
BY DEF IInv, CallsShaped, Running, Ended, Fails, Moves

(* A running call whose record is replaced by one of the same shape.       *)
LEMMA ReplacedMoves ==
    ASSUME IInv, NEW c \in Calls, NEW k, CallShape(k), k.pc # "returned",
           call' = [call EXCEPT ![c] = k]
    PROVE  Moves(c)
BY DEF IInv, CallsShaped, Running, Moves

(* A call goes on for the same trip.                                       *)
GoesOn(c, pc) == Moves(c) /\ call'[c].pc = pc /\ SameTrip(call'[c], call[c])

(* The steps of a call before it has its answer.                           *)
LEMMA CallMoves ==
    ASSUME IInv, NEW c \in Calls
    PROVE  /\ \A e \in Escrows, s \in Signers : Start(c, e, s) =>
                  Moves(c) /\ call'[c].pc = "read" /\ call'[c].escrow = e /\ call'[c].to = s
           /\ ReadSeqState(c) => GoesOn(c, "write") /\ call'[c].file = file
           /\ WriteSeqState(c) =>
                  GoesOn(c, "push") /\ call'[c].seq = call[c].file[call[c].escrow] + 1
           /\ Push(c) => GoesOn(c, "pull")
           /\ PullFinds(c) =>
                  \/ Fails(c)
                  \/ /\ GoesOn(c, "ack") /\ orderly' = orderly
                     /\ call'[c].row \in Matching(c)
           /\ PullFindsNothing(c) => Fails(c) \/ (GoesOn(c, "pull") /\ orderly' = orderly)
<1> USE DEF GoesOn
<1>0. ASSUME NEW k, CallShape(k), k.pc # "returned", call' = [call EXCEPT ![c] = k]
      PROVE  Moves(c) /\ call'[c] = k
  BY <1>0, ReplacedMoves DEF IInv, CallsShaped
<1>1. ASSUME NEW e \in Escrows, NEW s \in Signers, Start(c, e, s)
      PROVE  Moves(c) /\ call'[c].pc = "read" /\ call'[c].escrow = e /\ call'[c].to = s
  <2> DEFINE k == [pc |-> "read", escrow |-> e, to |-> s, file |-> NoSeqs, seq |-> 0,
                   pulls |-> 0, row |-> NoRow]
  <2>1. CallShape(k) /\ k.pc = "read" /\ k.escrow = e /\ k.to = s
    BY DEF CallShape
  <2>2. call' = [call EXCEPT ![c] = k]
    BY <1>1 DEF Start
  <2> HIDE DEF k
  <2> QED
    BY <1>0, <2>1, <2>2
<1>2. ASSUME ReadSeqState(c) PROVE GoesOn(c, "write") /\ call'[c].file = file
  <2> DEFINE j == [call[c] EXCEPT !.pc = "write"]
             k == [j EXCEPT !.file = file]
  <2>1. CallShape(call[c])
    BY <1>2 DEF ReadSeqState, IInv, CallsShaped, Running, Ended
  <2>2. CallShape(j) /\ j.pc = "write" /\ SameTrip(j, call[c])
    BY <2>1, NewPc
  <2>3. call' = [call EXCEPT ![c] = k]
    BY <1>2 DEF ReadSeqState
  <2> HIDE DEF j
  <2>4. CallShape(k) /\ k.pc = "write" /\ SameTrip(k, j) /\ k.file = file
    BY <2>2, NewFile
  <2> HIDE DEF k
  <2> QED
    BY <1>0, <2>2, <2>3, <2>4 DEF SameTrip
<1>3. ASSUME WriteSeqState(c)
      PROVE  GoesOn(c, "push") /\ call'[c].seq = call[c].file[call[c].escrow] + 1
  <2> DEFINE next == call[c].file[call[c].escrow] + 1
             h == [call[c] EXCEPT !.pc = "push"]
             j == [h EXCEPT !.file = NoSeqs]
             k == [j EXCEPT !.seq = next]
  <2>1. CallShape(call[c])
    BY <1>3 DEF WriteSeqState, IInv, CallsShaped, Running, Ended
  <2>2. CallShape(h) /\ h.pc = "push" /\ SameTrip(h, call[c])
    BY <2>1, NewPc
  <2>3. call' = [call EXCEPT ![c] = k]
    BY <1>3 DEF WriteSeqState
  <2> HIDE DEF h, next
  <2>4. CallShape(j) /\ j.pc = "push" /\ SameTrip(j, h)
    BY <2>2, NewFile
  <2> HIDE DEF j
  <2>5. CallShape(k) /\ k.pc = "push" /\ SameTrip(k, j) /\ k.seq = next
    BY <2>4, NewSeq
  <2> HIDE DEF k
  <2> QED
    BY <1>0, <2>2, <2>3, <2>4, <2>5 DEF SameTrip, next
<1>4. ASSUME Push(c) PROVE GoesOn(c, "pull")
  <2> DEFINE k == [call[c] EXCEPT !.pc = "pull"]
  <2>1. CallShape(call[c])
    BY <1>4 DEF Push, IInv, CallsShaped, Running, Ended
  <2>2. CallShape(k) /\ k.pc = "pull" /\ SameTrip(k, call[c])
    BY <2>1, NewPc
  <2>3. call' = [call EXCEPT ![c] = k]
    BY <1>4 DEF Push, Goto
  <2> HIDE DEF k
  <2> QED
    BY <1>0, <2>2, <2>3
<1>5. ASSUME PullFinds(c), ~Fails(c)
      PROVE  GoesOn(c, "ack") /\ orderly' = orderly /\ call'[c].row \in Matching(c)
  <2>1. PICK r \in First(Matching(c)) :
            call' = [call EXCEPT ![c].pc = "ack", ![c].row = r] /\ orderly' = orderly
    BY <1>5 DEF PullFinds
  <2> DEFINE j == [call[c] EXCEPT !.pc = "ack"]
             k == [j EXCEPT !.row = r]
  <2>2. CallShape(call[c]) /\ r \in Matching(c)
    BY <1>5 DEF PullFinds, First, IInv, CallsShaped, Running, Ended
  <2>3. CallShape(j) /\ j.pc = "ack" /\ SameTrip(j, call[c])
    BY <2>2, NewPc
  <2>4. call' = [call EXCEPT ![c] = k]
    BY <2>1
  <2> HIDE DEF j
  <2>5. CallShape(k) /\ k.pc = "ack" /\ SameTrip(k, j) /\ k.row = r
    BY <2>3, NewRowField
  <2> HIDE DEF k
  <2> QED
    BY <1>0, <2>1, <2>2, <2>3, <2>4, <2>5 DEF SameTrip
<1>6. ASSUME PullFindsNothing(c), ~Fails(c) PROVE GoesOn(c, "pull") /\ orderly' = orderly
  <2> DEFINE k == [call[c] EXCEPT !.pulls = call[c].pulls + 1]
  <2>1. CallShape(call[c]) /\ call[c].pc = "pull"
    BY <1>6 DEF PullFindsNothing, IInv, CallsShaped, Running, Ended
  <2>2. CallShape(k) /\ k.pc = "pull" /\ SameTrip(k, call[c])
    BY <2>1, NewPulls
  <2>3. call' = [call EXCEPT ![c] = k] /\ orderly' = orderly
    BY <1>6 DEF PullFindsNothing
  <2> HIDE DEF k
  <2> QED
    BY <1>0, <2>2, <2>3
<1> QED
  BY <1>1, <1>2, <1>3, <1>4, <1>5, <1>6

(* A call returns the row it has in hand.                                  *)
LEMMA AckMoves ==
    ASSUME IInv, NEW c \in Calls, AckReturns(c)
    PROVE  /\ CallsShaped'
           /\ \A d \in Calls : d # c => call'[d] = call[d]
           /\ call'[c].pc = "returned" /\ SameTrip(call'[c], call[c])
           /\ call'[c].row = call[c].row
<1> DEFINE j == [call[c] EXCEPT !.pc = "returned"]
           k == [j EXCEPT !.pulls = 0]
<1>1. CallShape(call[c])
  BY DEF AckReturns, IInv, CallsShaped, Running, Ended
<1>2. CallShape(j) /\ j.pc = "returned" /\ j.row = call[c].row /\ SameTrip(j, call[c])
  BY <1>1, NewPc
<1>3. call' = [call EXCEPT ![c] = k]
  BY DEF AckReturns
<1> HIDE DEF j
<1>4. CallShape(k) /\ k.pc = "returned" /\ k.row = call[c].row /\ SameTrip(k, j)
  BY <1>2, NewPulls
<1> HIDE DEF k
<1> QED
  BY <1>2, <1>3, <1>4 DEF IInv, CallsShaped, Running, SameTrip

(* The ack succeeds on a row of the inbox, so no call has returned it yet, *)
(* and takes the only row with that id.                                    *)
LEMMA AckReturnsKeeps == ASSUME IInv, NEW c \in Calls, AckReturns(c) PROVE IInv'
<1> DEFINE row == call[c].row
<1>1. /\ CallsShaped'
      /\ \A d \in Calls : d # c => call'[d] = call[d]
      /\ call'[c].pc = "returned" /\ call'[c].row = row
  BY AckMoves
<1>2. row \in inbox /\ inbox' = inbox \ {row} /\ lastRow' = lastRow
  BY DEF AckReturns, AckFinds
<1> HIDE DEF row
<1>3. RowsNamed'
  BY <1>2 DEF IInv, RowsNamed, NamesRows
<1>4. \A d \in Calls : d # c /\ call[d].pc = "returned" => call[d].row.id # row.id
  BY <1>2 DEF IInv, ReturnedIsGone
<1>5. ReturnedIsGone'
  BY <1>1, <1>2 DEF IInv, RowsNamed, NamesRows, ReturnedIsGone
<1>6. RowAnswersOnce'
  BY <1>1, <1>4 DEF IInv, RowAnswersOnce
<1> QED
  BY <1>1, <1>3, <1>5, <1>6 DEF IInv

(* A new answer gets an id no row ever had.                                *)
LEMMA NewRowKeeps ==
    ASSUME IInv, NEW r, NEW kind, NewRow(r, kind), UNCHANGED call
    PROVE  IInv'
<1> DEFINE row == [id |-> lastRow + 1, of |-> r.of, escrow |-> r.escrow, from |-> r.to,
                   kind |-> kind, receipt |-> 0]
<1>1. RowShape(row) /\ row.id = lastRow + 1
  BY DEF RowShape
<1>2. inbox' = inbox \cup {row} /\ lastRow' = lastRow + 1
  BY DEF NewRow
<1> HIDE DEF row
<1>3. RowsNamed'
  BY <1>1, <1>2 DEF IInv, RowsNamed, NamesRows
<1>4. ReturnedIsGone'
  BY <1>1, <1>2 DEF IInv, RowsNamed, ReturnedIsGone
<1>5. CallsShaped' /\ RowAnswersOnce'
  BY DEF IInv, CallsShaped, Running, RowAnswersOnce
<1> QED
  BY <1>3, <1>4, <1>5 DEF IInv

(* Every step of calls, signers and mailbox keeps the invariant.           *)
LEMMA IInvInductive == IInv /\ [Next]_vars => IInv'
<1> SUFFICES ASSUME IInv, [Next]_vars PROVE IInv'
  OBVIOUS
<1>1. CASE UNCHANGED vars
  BY <1>1, InboxKept, HarmlessSteps DEF vars, mailVars
<1>2. CASE InitVault \/ ExportIdentity
  BY <1>2, InboxKept, HarmlessSteps DEF InitVault, ExportIdentity, mailVars
<1>3. ASSUME NEW c \in Calls, NEW e \in Escrows, NEW s \in Signers, Start(c, e, s) PROVE IInv'
  <2>1. NoNewRow
    BY <1>3, InboxKept DEF Start, mailVars
  <2> QED
    BY <1>3, <2>1, CallMoves, HarmlessSteps
<1>4. ASSUME NEW c \in Calls, Dies(c) \/ PushFails(c) \/ PullFails(c) \/ AckFails(c) PROVE IInv'
  <2>1. Fails(c)
    BY <1>4 DEF Dies, PushFails, PullFails, AckFails
  <2>2. NoNewRow
    BY <1>4, InboxKept, LeaseKeepsIds DEF Dies, PushFails, PullFails, AckFails, mailVars
  <2> QED
    BY <2>1, <2>2, FailsMoves, HarmlessSteps
<1>5. ASSUME NEW c \in Calls, ReadSeqState(c) \/ WriteSeqState(c) \/ Push(c) PROVE IInv'
  <2>1. NoNewRow
    BY <1>5, InboxKept DEF ReadSeqState, WriteSeqState, Push, mailVars
  <2> QED
    BY <1>5, <2>1, CallMoves, HarmlessSteps DEF GoesOn
<1>6. ASSUME NEW c \in Calls, PullFinds(c) \/ PullFindsNothing(c) PROVE IInv'
  <2>1. NoNewRow
    BY <1>6, LeaseKeepsIds DEF PullFinds, PullFindsNothing
  <2>2. Moves(c)
    BY <1>6, CallMoves, FailsMoves DEF GoesOn
  <2> QED
    BY <2>1, <2>2, HarmlessSteps
<1>7. ASSUME NEW c \in Calls, AckReturns(c) PROVE IInv'
  BY <1>7, AckReturnsKeeps
<1>8. ASSUME NEW r \in toSigners, SignerTakes(r) PROVE IInv'
  BY <1>8, InboxKept, HarmlessSteps DEF SignerTakes, mailVars
<1>9. ASSUME NEW r \in accepted, NEW kind \in Kinds, SignerAnswers(r, kind) PROVE IInv'
  BY <1>9, NewRowKeeps DEF SignerAnswers
<1>10. ASSUME NEW a \in answered, SignerRepeats(a[1], a[2]) PROVE IInv'
  BY <1>10, NewRowKeeps DEF SignerRepeats
<1>11. ASSUME NEW r \in inbox, LeaseEnds(r) PROVE IInv'
  <2>1. call' = call
    BY <1>11 DEF LeaseEnds
  <2> QED
    BY <1>11, <2>1, LeaseEndsKeepsIds, HarmlessSteps
<1>12. ASSUME NEW r \in inbox, RowExpires(r) PROVE IInv'
  BY <1>12, InboxKept, HarmlessSteps DEF RowExpires
<1> QED
  BY <1>1, <1>2, <1>3, <1>4, <1>5, <1>6, <1>7, <1>8, <1>9, <1>10, <1>11, <1>12
     DEF Next, CallStep

-----------------------------------------------------------------------------
(* No row of the inbox is handed to two calls of sign_req: the ack under   *)
(* the call's own receipt decides who has it.                              *)
THEOREM EachRowAnswersOnce == Spec => []RowAnswersOnce
<1>1. IInv => RowAnswersOnce
  BY DEF IInv
<1> QED
  BY <1>1, IInvInit, IInvInductive, PTL DEF Spec

-----------------------------------------------------------------------------
(***************************************************************************)
(* Orderly trips.  The answer a call returns is its own because, on a trip *)
(* where calls follow one another, there is at most one envelope under     *)
(* way, a request or an answer, and it belongs to the one call that waits. *)
(***************************************************************************)
TripOfRequest(r) == <<r.escrow, r.to>>
TripOfRow(r) == <<r.escrow, r.from>>
Waits(c, trip) == c \in Calls /\ call[c].pc \in {"pull", "ack"} /\ TripOf(c) = trip

OneAtATime ==
    \A c, d \in Calls :
        Running(c) /\ Running(d) /\ TripOf(c) = TripOf(d) /\ TripOf(c) \in orderly => c = d

(* Whatever is under way, its call waits for it.                           *)
Outstanding ==
    /\ \A r \in toSigners \cup accepted :
           TripOfRequest(r) \in orderly => Waits(r.of, TripOfRequest(r))
    /\ \A q \in inbox : TripOfRow(q) \in orderly => Waits(q.of, TripOfRow(q))

(* The envelope is in one place: on its way, with the signer or answered.  *)
OnePlace ==
    /\ \A r, q \in toSigners \cup accepted :
           TripOfRequest(r) = TripOfRequest(q) /\ TripOfRequest(r) \in orderly => r = q
    /\ \A r \in toSigners \cap accepted : TripOfRequest(r) \notin orderly
    /\ \A r, q \in inbox :
           TripOfRow(r) = TripOfRow(q) /\ TripOfRow(r) \in orderly => r.id = q.id
    /\ \A r \in toSigners \cup accepted, q \in inbox :
           TripOfRequest(r) = TripOfRow(q) => TripOfRequest(r) \notin orderly

(* A call about to ack has its own answer and nothing else is under way.   *)
InHand ==
    \A c \in Calls : call[c].pc = "ack" /\ TripOf(c) \in orderly =>
        /\ call[c].row.of = c
        /\ \A r \in toSigners \cup accepted : TripOfRequest(r) # TripOf(c)
        /\ \A q \in inbox : TripOfRow(q) = TripOf(c) => q.id = call[c].row.id

TripInv == OneAtATime /\ Outstanding /\ OnePlace /\ InHand /\ OwnAnswer

(* No call has started.                                                    *)
LEMMA TripInit == Init => TripInv
BY DEF Init, TripInv, OneAtATime, Outstanding, OnePlace, InHand, OwnAnswer, Running, Ended,
       Unstarted

(* The calls of orderly trips that waited still wait, and those that have  *)
(* their answer had it before.                                             *)
CallsStay ==
    /\ \A d \in Calls, trip \in orderly' : Waits(d, trip) => Waits(d, trip)'
    /\ \A d \in Calls :
           call'[d].pc \in {"ack", "returned"} /\ TripOf(d)' \in orderly' => call'[d] = call[d]

(* On orderly trips envelopes are only lost.                               *)
LEMMA EnvelopesLost ==
    ASSUME TripInv, OneAtATime', CallsStay, orderly' \subseteq orderly,
           \A r \in toSigners' : r \in toSigners \/ TripOfRequest(r) \notin orderly',
           accepted' \subseteq accepted,
           \A r \in inbox' : \E q \in inbox : SameRow(r, q)
    PROVE  TripInv'
<1> USE DEF TripInv
<1>1. \A r \in inbox' : \E q \in inbox : SameRow(r, q) /\ TripOfRow(r) = TripOfRow(q)
  BY DEF SameRow, TripOfRow
<1>2. Outstanding'
  <2>1. ASSUME NEW r \in toSigners' \cup accepted', TripOfRequest(r) \in orderly'
        PROVE  Waits(r.of, TripOfRequest(r))'
    <3>1. Waits(r.of, TripOfRequest(r)) /\ r.of \in Calls
      BY <2>1 DEF Outstanding, Waits
    <3> QED
      BY <2>1, <3>1 DEF CallsStay
  <2>2. ASSUME NEW r \in inbox', TripOfRow(r) \in orderly'
        PROVE  Waits(r.of, TripOfRow(r))'
    <3>1. Waits(r.of, TripOfRow(r)) /\ r.of \in Calls
      BY <1>1, <2>2 DEF Outstanding, Waits, SameRow
    <3> QED
      BY <2>2, <3>1 DEF CallsStay
  <2> QED
    BY <2>1, <2>2 DEF Outstanding
<1>3. OnePlace'
  BY <1>1 DEF OnePlace, SameRow
<1>4. InHand'
  <2> SUFFICES ASSUME NEW c \in Calls, call'[c].pc = "ack", TripOf(c)' \in orderly'
               PROVE  /\ call'[c].row.of = c
                      /\ \A r \in toSigners' \cup accepted' : TripOfRequest(r) # TripOf(c)'
                      /\ \A q \in inbox' : TripOfRow(q) = TripOf(c)' => q.id = call'[c].row.id
    BY DEF InHand
  <2>1. call'[c] = call[c] /\ TripOf(c)' = TripOf(c) /\ TripOf(c) \in orderly
    BY DEF CallsStay, TripOf
  <2> QED
    BY <1>1, <2>1 DEF InHand, SameRow
<1>5. OwnAnswer'
  <2> SUFFICES ASSUME NEW c \in Calls, call'[c].pc = "returned", TripOf(c)' \in orderly'
               PROVE  call'[c].row.of = c
    BY DEF OwnAnswer
  <2>1. call'[c] = call[c] /\ TripOf(c) \in orderly
    BY DEF CallsStay, TripOf
  <2> QED
    BY <2>1 DEF OwnAnswer
<1> QED
  BY <1>2, <1>3, <1>4, <1>5

(* A call that fails takes its trip out of the orderly ones, so no orderly *)
(* trip loses its call.                                                    *)
LEMMA FailsStay ==
    ASSUME IInv, TripInv, NEW c \in Calls, Running(c), Fails(c)
    PROVE  CallsStay /\ OneAtATime' /\ orderly' \subseteq orderly
<1>1. /\ \A d \in Calls : d # c => call'[d] = call[d]
      /\ call'[c] = [pc |-> "failed"] /\ orderly' = orderly \ {TripOf(c)}
  BY DEF Fails, IInv, CallsShaped
<1>2. call'[c].pc = "failed" /\ ~Running(c)'
  BY <1>1 DEF Running, Ended
<1>3. \A d \in Calls : d # c => TripOf(d)' = TripOf(d) /\ (Running(d)' <=> Running(d))
  BY <1>1 DEF TripOf, Running
<1>4. CallsStay
  BY <1>1, <1>2, <1>3 DEF CallsStay, Waits
<1>5. OneAtATime'
  BY <1>1, <1>2, <1>3 DEF OneAtATime, TripInv
<1> QED
  BY <1>1, <1>4, <1>5

(* A call that goes on stays alone on its trip.                            *)
LEMMA GoesOnAlone ==
    ASSUME TripInv, NEW c \in Calls, NEW pc, Running(c), GoesOn(c, pc), orderly' = orderly
    PROVE  /\ OneAtATime'
           /\ TripOf(c)' = TripOf(c)
           /\ \A d \in Calls : d # c => call'[d] = call[d] /\ TripOf(d)' = TripOf(d)
<1>1. /\ \A d \in Calls : d # c => call'[d] = call[d] /\ TripOf(d)' = TripOf(d)
                                   /\ (Running(d)' <=> Running(d))
      /\ TripOf(c)' = TripOf(c)
  BY DEF GoesOn, Moves, SameTrip, TripOf, Running
<1> QED
  BY <1>1 DEF TripInv, OneAtATime

(* A call that does not wait yet has nothing under way.                    *)
LEMMA NothingUnderWay ==
    ASSUME TripInv, NEW c \in Calls, Running(c), call[c].pc \notin {"pull", "ack"},
           TripOf(c) \in orderly
    PROVE  /\ \A r \in toSigners \cup accepted : TripOfRequest(r) # TripOf(c)
           /\ \A q \in inbox : TripOfRow(q) # TripOf(c)
<1>1. ASSUME NEW d, Waits(d, TripOf(c)) PROVE FALSE
  <2>1. d \in Calls /\ Running(d) /\ TripOf(d) = TripOf(c) /\ d # c
    BY <1>1 DEF Waits, Running, Ended
  <2> QED
    BY <2>1 DEF TripInv, OneAtATime
<1> QED
  BY <1>1 DEF TripInv, Outstanding

(* A call that starts is alone, or its trip is not orderly any more.       *)
LEMMA StartTrip ==
    ASSUME IInv, TripInv, NEW c \in Calls, NEW e \in Escrows, NEW s \in Signers, Start(c, e, s)
    PROVE  TripInv'
<1>1. /\ \A d \in Calls : d # c => call'[d] = call[d] /\ TripOf(d)' = TripOf(d)
                                   /\ (Running(d)' <=> Running(d))
      /\ call'[c].pc = "read" /\ TripOf(c)' = <<e, s>>
  BY CallMoves DEF Moves, TripOf, Running
<1>2. call[c].pc = "unstarted" /\ UNCHANGED <<toSigners, accepted, inbox>>
  BY DEF Start, Unstarted, signerVars, mailVars
<1>3. /\ orderly' \subseteq orderly
      /\ <<e, s>> \in orderly' => \A d \in Calls : Running(d) => TripOf(d) # <<e, s>>
  BY DEF Start
<1>4. CallsStay
  BY <1>1, <1>2, <1>3 DEF CallsStay, Waits
<1>5. OneAtATime'
  BY <1>1, <1>3 DEF TripInv, OneAtATime
<1> QED
  BY <1>2, <1>3, <1>4, <1>5, EnvelopesLost DEF SameRow

(* Reading and writing the seq file.                                       *)
LEMMA SeqTrip ==
    ASSUME IInv, TripInv, NEW c \in Calls, ReadSeqState(c) \/ WriteSeqState(c)
    PROVE  TripInv'
<1>1. PICK pc \in {"write", "push"} : GoesOn(c, pc)
  BY CallMoves
<1>2. Running(c) /\ call[c].pc \in {"read", "write"} /\ orderly' = orderly
  BY DEF ReadSeqState, WriteSeqState, Running, Ended
<1>3. /\ OneAtATime' /\ TripOf(c)' = TripOf(c)
      /\ \A d \in Calls : d # c => call'[d] = call[d] /\ TripOf(d)' = TripOf(d)
  BY <1>1, <1>2, GoesOnAlone
<1>4. CallsStay
  BY <1>1, <1>2, <1>3 DEF CallsStay, Waits, GoesOn
<1>5. UNCHANGED <<toSigners, accepted, inbox>>
  BY DEF ReadSeqState, WriteSeqState, signerVars, mailVars
<1> QED
  BY <1>2, <1>3, <1>4, <1>5, EnvelopesLost DEF SameRow

(* On an orderly trip nothing is under way before the push, so the mailbox *)
(* takes the request.                                                      *)
LEMMA PushTrip == ASSUME IInv, TripInv, NEW c \in Calls, Push(c) PROVE TripInv'
<1> USE DEF TripInv
<1> DEFINE request == [of |-> c, escrow |-> call[c].escrow, to |-> call[c].to, seq |-> call[c].seq]
<1>1. request.of = c /\ TripOfRequest(request) = TripOf(c)
  BY DEF TripOfRequest, TripOf
<1>2. toSigners' \in {toSigners, toSigners \cup {request}}
  BY DEF Push, Leaves, Pushed
<1> HIDE DEF request
<1>3. /\ GoesOn(c, "pull") /\ Running(c) /\ call[c].pc = "push"
      /\ orderly' = orderly /\ UNCHANGED <<accepted, inbox>>
  BY CallMoves DEF Push, Running, Ended, mailVars
<1>4. /\ OneAtATime' /\ TripOf(c)' = TripOf(c) /\ call'[c].pc = "pull"
      /\ \A d \in Calls : d # c => call'[d] = call[d] /\ TripOf(d)' = TripOf(d)
  BY <1>3, GoesOnAlone DEF GoesOn
<1>5. CallsStay
  BY <1>3, <1>4 DEF CallsStay, Waits
<1>6. CASE toSigners' = toSigners
  BY <1>3, <1>4, <1>5, <1>6, EnvelopesLost DEF SameRow
<1>7. CASE toSigners' = toSigners \cup {request}
  <2>1. TripOf(c) \in orderly =>
           /\ \A r \in toSigners \cup accepted : TripOfRequest(r) # TripOf(c)
           /\ \A q \in inbox : TripOfRow(q) # TripOf(c)
    BY <1>3, NothingUnderWay
  <2>2. Waits(c, TripOf(c))'
    BY <1>4 DEF Waits
  <2>3. Outstanding'
    <3>1. ASSUME NEW r \in toSigners' \cup accepted', TripOfRequest(r) \in orderly'
          PROVE  Waits(r.of, TripOfRequest(r))'
      <4>1. CASE r = request
        BY <1>1, <1>4, <2>2, <4>1
      <4>2. CASE r \in toSigners \cup accepted
        <5>1. Waits(r.of, TripOfRequest(r)) /\ r.of \in Calls
          BY <1>3, <3>1, <4>2 DEF Outstanding, Waits
        <5> QED
          BY <3>1, <5>1, <1>5 DEF CallsStay
      <4> QED
        BY <1>3, <1>7, <4>1, <4>2
    <3>2. ASSUME NEW q \in inbox', TripOfRow(q) \in orderly'
          PROVE  Waits(q.of, TripOfRow(q))'
      <4>1. Waits(q.of, TripOfRow(q)) /\ q.of \in Calls
        BY <1>3, <3>2 DEF Outstanding, Waits
      <4> QED
        BY <3>2, <4>1, <1>5 DEF CallsStay
    <3> QED
      BY <3>1, <3>2 DEF Outstanding
  <2>4. OnePlace'
    BY <1>1, <1>3, <1>7, <2>1 DEF OnePlace
  <2>5. InHand'
    <3> SUFFICES ASSUME NEW d \in Calls, call'[d].pc = "ack", TripOf(d)' \in orderly'
                 PROVE  /\ call'[d].row.of = d
                        /\ \A r \in toSigners' \cup accepted' : TripOfRequest(r) # TripOf(d)'
                        /\ \A q \in inbox' : TripOfRow(q) = TripOf(d)' => q.id = call'[d].row.id
      BY DEF InHand
    <3>1. d # c /\ call'[d] = call[d] /\ TripOf(d)' = TripOf(d) /\ Running(d)
      BY <1>4 DEF Running, Ended
    <3>2. TripOf(d) # TripOf(c)
      BY <1>3, <3>1 DEF OneAtATime
    <3> QED
      BY <1>1, <1>3, <1>7, <3>1, <3>2 DEF InHand
  <2>6. OwnAnswer'
    BY <1>3, <1>4 DEF OwnAnswer
  <2> QED
    BY <1>4, <2>3, <2>4, <2>5, <2>6
<1> QED
  BY <1>2, <1>6, <1>7

(* The row a call finds is the one envelope under way on its trip.         *)
LEMMA PullTrip ==
    ASSUME IInv, TripInv, NEW c \in Calls, PullFinds(c), ~Fails(c)
    PROVE  TripInv'
<1> USE DEF TripInv
<1>1. /\ GoesOn(c, "ack") /\ orderly' = orderly /\ call'[c].row \in Matching(c)
      /\ Running(c) /\ call[c].pc = "pull" /\ UNCHANGED <<toSigners, accepted>>
  BY CallMoves DEF PullFinds, Running, Ended, signerVars
<1>2. /\ \A r \in inbox' : \E q \in inbox : SameRow(r, q) /\ TripOfRow(r) = TripOfRow(q)
      /\ \A r \in Handed : \E q \in inbox : SameRow(r, q) /\ TripOfRow(r) = TripOfRow(q)
  BY LeaseKeepsIds DEF PullFinds, NoNewRow, SameRow, TripOfRow
<1>3. /\ OneAtATime' /\ TripOf(c)' = TripOf(c) /\ call'[c].pc = "ack"
      /\ \A d \in Calls : d # c => call'[d] = call[d] /\ TripOf(d)' = TripOf(d)
  BY <1>1, GoesOnAlone DEF GoesOn
<1>4. \A d, trip : Waits(d, trip) => Waits(d, trip)'
  BY <1>3 DEF Waits
<1>5. PICK q \in inbox : SameRow(call'[c].row, q) /\ TripOfRow(q) = TripOf(c)
  BY <1>1, <1>2 DEF Matching, ForThisTrip, TripOfRow, TripOf
<1>6. Outstanding'
  BY <1>1, <1>2, <1>4 DEF Outstanding, SameRow
<1>7. OnePlace'
  BY <1>1, <1>2 DEF OnePlace, SameRow
<1>8. InHand'
  <2> SUFFICES ASSUME NEW d \in Calls, call'[d].pc = "ack", TripOf(d)' \in orderly'
               PROVE  /\ call'[d].row.of = d
                      /\ \A r \in toSigners' \cup accepted' : TripOfRequest(r) # TripOf(d)'
                      /\ \A r \in inbox' : TripOfRow(r) = TripOf(d)' => r.id = call'[d].row.id
    BY DEF InHand
  <2>1. CASE d = c
    <3>1. Waits(q.of, TripOf(c))
      BY <1>1, <1>3, <1>5, <2>1 DEF Outstanding
    <3>2. q.of = c
      BY <1>1, <1>3, <2>1, <3>1 DEF Waits, OneAtATime, Running, Ended
    <3>3. call'[c].row.of = c /\ call'[c].row.id = q.id
      BY <1>5, <3>2 DEF SameRow
    <3>4. \A r \in toSigners' \cup accepted' : TripOfRequest(r) # TripOf(c)
      BY <1>1, <1>3, <1>5, <2>1 DEF OnePlace
    <3>5. \A r \in inbox' : TripOfRow(r) = TripOf(c) => r.id = q.id
      BY <1>1, <1>2, <1>3, <1>5, <2>1 DEF OnePlace, SameRow
    <3> QED
      BY <1>3, <2>1, <3>3, <3>4, <3>5
  <2>2. CASE d # c
    BY <1>1, <1>2, <1>3, <2>2 DEF InHand, SameRow
  <2> QED
    BY <2>1, <2>2
<1>9. OwnAnswer'
  BY <1>1, <1>3 DEF OwnAnswer
<1> QED
  BY <1>3, <1>6, <1>7, <1>8, <1>9

(* A pull that finds nothing only leases.                                  *)
LEMMA PullNothingTrip ==
    ASSUME IInv, TripInv, NEW c \in Calls, PullFindsNothing(c), ~Fails(c)
    PROVE  TripInv'
<1>1. /\ GoesOn(c, "pull") /\ orderly' = orderly
      /\ Running(c) /\ call[c].pc = "pull" /\ UNCHANGED <<toSigners, accepted>>
  BY CallMoves DEF PullFindsNothing, Running, Ended, signerVars
<1>2. \A r \in inbox' : \E q \in inbox : SameRow(r, q)
  BY LeaseKeepsIds DEF PullFindsNothing, NoNewRow
<1>3. /\ OneAtATime' /\ TripOf(c)' = TripOf(c) /\ call'[c].pc = "pull"
      /\ \A d \in Calls : d # c => call'[d] = call[d] /\ TripOf(d)' = TripOf(d)
  BY <1>1, GoesOnAlone DEF GoesOn
<1>4. CallsStay
  BY <1>1, <1>3 DEF CallsStay, Waits
<1> QED
  BY <1>1, <1>2, <1>3, <1>4, EnvelopesLost

(* The row a call returns was the last thing under way on its trip.        *)
LEMMA AckTrip == ASSUME IInv, TripInv, NEW c \in Calls, AckReturns(c) PROVE TripInv'
<1> USE DEF TripInv
<1>1. /\ \A d \in Calls : d # c => call'[d] = call[d] /\ TripOf(d)' = TripOf(d)
                                   /\ (Running(d)' <=> Running(d))
      /\ call'[c].pc = "returned" /\ TripOf(c)' = TripOf(c)
      /\ call'[c].row = call[c].row
  BY AckMoves DEF SameTrip, TripOf, Running
<1>2. /\ call[c].pc = "ack" /\ call[c].row \in inbox /\ inbox' = inbox \ {call[c].row}
      /\ UNCHANGED <<toSigners, accepted, orderly>>
  BY DEF AckReturns, AckFinds, signerVars
<1>3. TripOf(c) \in orderly =>
         /\ \A r \in toSigners \cup accepted : TripOfRequest(r) # TripOf(c)
         /\ \A q \in inbox' : TripOfRow(q) # TripOf(c)
  BY <1>2 DEF InHand, IInv, RowsNamed, NamesRows
<1>4. OneAtATime'
  BY <1>1, <1>2 DEF OneAtATime, Running, Ended
<1>5. \A d, trip : Waits(d, trip) /\ trip # TripOf(c) => Waits(d, trip)'
  BY <1>1 DEF Waits
<1>6. Outstanding'
  BY <1>2, <1>3, <1>5 DEF Outstanding
<1>7. OnePlace'
  BY <1>2 DEF OnePlace
<1>8. InHand'
  BY <1>1, <1>2 DEF InHand
<1>9. OwnAnswer'
  BY <1>1, <1>2 DEF OwnAnswer, InHand
<1> QED
  BY <1>4, <1>6, <1>7, <1>8, <1>9

(* A request that a signer takes or refuses leaves the mailbox.            *)
LEMMA TakesTrip == ASSUME TripInv, NEW r \in toSigners, SignerTakes(r) PROVE TripInv'
<1> USE DEF TripInv
<1>1. /\ toSigners' = toSigners \ {r} /\ accepted' \in {accepted, accepted \cup {r}}
      /\ UNCHANGED <<call, inbox, orderly>>
  BY DEF SignerTakes, mailVars
<1>2. OneAtATime' /\ OwnAnswer'
  BY <1>1 DEF OneAtATime, OwnAnswer, Running, TripOf
<1>3. Outstanding'
  BY <1>1 DEF Outstanding, Waits, TripOf
<1>4. OnePlace'
  BY <1>1 DEF OnePlace
<1>5. InHand'
  BY <1>1 DEF InHand, TripOf
<1> QED
  BY <1>2, <1>3, <1>4, <1>5

(* An answer takes the place of the accepted request.                      *)
LEMMA AnswersTrip ==
    ASSUME IInv, TripInv, NEW r \in accepted, NEW kind \in Kinds, SignerAnswers(r, kind)
    PROVE  TripInv'
<1> USE DEF TripInv
<1> DEFINE row == [id |-> lastRow + 1, of |-> r.of, escrow |-> r.escrow, from |-> r.to,
                   kind |-> kind, receipt |-> 0]
<1>1. row.of = r.of /\ TripOfRow(row) = TripOfRequest(r)
  BY DEF TripOfRow, TripOfRequest
<1>2. /\ inbox' = inbox \cup {row} /\ accepted' = accepted \ {r}
      /\ UNCHANGED <<call, toSigners, orderly>>
  BY DEF SignerAnswers, NewRow
<1> HIDE DEF row
<1>3. OneAtATime' /\ OwnAnswer'
  BY <1>2 DEF OneAtATime, OwnAnswer, Running, TripOf
<1>4. Outstanding'
  BY <1>1, <1>2 DEF Outstanding, Waits, TripOf
<1>5. TripOfRequest(r) \in orderly =>
         /\ \A q \in (toSigners \cup accepted) \ {r} : TripOfRequest(q) # TripOfRequest(r)
         /\ r \notin toSigners
         /\ \A q \in inbox : TripOfRow(q) # TripOfRequest(r)
         /\ \A c \in Calls : call[c].pc = "ack" => TripOf(c) # TripOfRequest(r)
  BY DEF OnePlace, InHand
<1>6. OnePlace'
  BY <1>1, <1>2, <1>5 DEF OnePlace
<1>7. InHand'
  BY <1>1, <1>2, <1>5 DEF InHand, TripOf
<1> QED
  BY <1>3, <1>4, <1>6, <1>7

(* A repeated answer makes its trip one that is not orderly.               *)
LEMMA RepeatsTrip ==
    ASSUME TripInv, NEW r, NEW kind, SignerRepeats(r, kind)
    PROVE  TripInv'
<1> USE DEF TripInv
<1> DEFINE row == [id |-> lastRow + 1, of |-> r.of, escrow |-> r.escrow, from |-> r.to,
                   kind |-> kind, receipt |-> 0]
<1>1. /\ inbox' = inbox \cup {row} /\ UNCHANGED <<call, toSigners, accepted>>
      /\ orderly' = orderly \ {TripOfRow(row)}
  BY DEF SignerRepeats, NewRow, signerVars, TripOfRow
<1> HIDE DEF row
<1>2. OneAtATime' /\ OwnAnswer'
  BY <1>1 DEF OneAtATime, OwnAnswer, Running, TripOf
<1>3. Outstanding'
  BY <1>1 DEF Outstanding, Waits, TripOf
<1>4. OnePlace'
  BY <1>1 DEF OnePlace
<1>5. InHand'
  BY <1>1 DEF InHand, TripOf
<1> QED
  BY <1>2, <1>3, <1>4, <1>5

(* Every step keeps at most one envelope under way on an orderly trip.     *)
LEMMA TripInductive == IInv /\ TripInv /\ [Next]_vars => TripInv'
<1> SUFFICES ASSUME IInv, TripInv, [Next]_vars PROVE TripInv'
  OBVIOUS
<1>1. ASSUME UNCHANGED <<call, orderly, toSigners, accepted>>,
             \A r \in inbox' : \E q \in inbox : SameRow(r, q)
      PROVE  TripInv'
  <2>1. CallsStay /\ OneAtATime'
    BY <1>1 DEF CallsStay, Waits, TripOf, TripInv, OneAtATime, Running
  <2> QED
    BY <1>1, <2>1, EnvelopesLost
<1>2. CASE UNCHANGED vars \/ InitVault \/ ExportIdentity
  BY <1>1, <1>2 DEF vars, InitVault, ExportIdentity, signerVars, mailVars, SameRow
<1>3. ASSUME NEW r \in inbox, LeaseEnds(r) \/ RowExpires(r) PROVE TripInv'
  <2>1. NoNewRow
    BY <1>3, LeaseEndsKeepsIds, InboxKept DEF RowExpires
  <2> QED
    BY <1>1, <1>3, <2>1 DEF NoNewRow, LeaseEnds, RowExpires, signerVars
<1>4. ASSUME NEW c \in Calls, Running(c), Fails(c), UNCHANGED accepted,
             \A r \in inbox' : \E q \in inbox : SameRow(r, q),
             toSigners' \in {toSigners, Pushed(c)}
      PROVE  TripInv'
  <2>1. CallsStay /\ OneAtATime' /\ orderly' \subseteq orderly
    BY <1>4, FailsStay
  <2>2. \A r \in toSigners' : r \in toSigners \/ TripOfRequest(r) \notin orderly'
    BY <1>4 DEF Pushed, Fails, TripOfRequest, TripOf
  <2> QED
    BY <1>4, <2>1, <2>2, EnvelopesLost
<1>5. ASSUME NEW c \in Calls,
             \/ Dies(c) \/ PushFails(c) \/ PullFails(c) \/ AckFails(c)
             \/ (PullFinds(c) \/ PullFindsNothing(c)) /\ Fails(c)
      PROVE  TripInv'
  <2>1. Running(c) /\ Fails(c) /\ UNCHANGED accepted
    BY <1>5 DEF Dies, PushFails, PullFails, AckFails, PullFinds, PullFindsNothing, Running,
                Ended, signerVars
  <2>2. toSigners' \in {toSigners, Pushed(c)}
    BY <1>5 DEF Dies, PushFails, Leaves, PullFails, AckFails, PullFinds, PullFindsNothing,
                signerVars
  <2>3. NoNewRow
    BY <1>5, LeaseKeepsIds, InboxKept
       DEF Dies, PushFails, PullFails, AckFails, PullFinds, PullFindsNothing, mailVars
  <2> QED
    BY <1>4, <2>1, <2>2, <2>3 DEF NoNewRow
<1>6. ASSUME NEW c \in Calls, CallStep(c) PROVE TripInv'
  BY <1>5, <1>6, SeqTrip, PushTrip, PullTrip, PullNothingTrip, AckTrip DEF CallStep
<1>7. ASSUME NEW a \in answered, SignerRepeats(a[1], a[2]) PROVE TripInv'
  BY <1>7, RepeatsTrip
<1> QED
  BY <1>2, <1>3, <1>5, <1>6, <1>7, StartTrip, TakesTrip, AnswersTrip DEF Next

(* The answer a call of sign_req returns is the answer to its own request, *)
(* though neither names the other, on every trip whose calls follow one    *)
(* another to the end.                                                     *)
THEOREM OrderlyCallsGetTheirAnswer == Spec => []OwnAnswer
<1>1. TripInv => OwnAnswer
  BY DEF TripInv
<1> QED
  BY <1>1, IInvInit, IInvInductive, TripInit, TripInductive, PTL DEF Spec

-----------------------------------------------------------------------------
(***************************************************************************)
(* The seq file.  While no two calls are between reading and writing it,   *)
(* every seq a signer has heard is on file, the calls about to push have   *)
(* different seqs, and what a trip that is not crowded has under way is    *)
(* newer than what its signer has heard and older than what is yet to be   *)
(* pushed.                                                                 *)
(***************************************************************************)
SeqsTyped ==
    /\ file \in [Escrows -> Nat]
    /\ heard \in [Signers -> [Escrows -> Nat]]
    /\ \A c \in Calls : Running(c) => call[c].escrow \in Escrows /\ call[c].to \in Signers
    /\ \A r \in toSigners : r.escrow \in Escrows /\ r.to \in Signers

(* The one call about to write the file has read what is in it.            *)
OneWriter ==
    /\ \A c, d \in Calls : call[c].pc = "write" /\ call[d].pc = "write" => c = d
    /\ \A c \in Calls : call[c].pc = "write" => call[c].file = file

HeardOnFile == \A s \in Signers, e \in Escrows : heard[s][e] <= file[e]

(* A seq on file, and new to the signer unless the trip is crowded; and    *)
(* the same after a step, for a seq of the state before it.                *)
New(seq, e, s) ==
    /\ seq \in Nat /\ seq <= file[e]
    /\ <<e, s>> \notin crowded => heard[s][e] < seq

NewAfter(seq, e, s) ==
    /\ seq \in Nat /\ seq <= file'[e]
    /\ <<e, s>> \notin crowded' => heard'[s][e] < seq

SeqsNew ==
    /\ \A c \in Calls : call[c].pc = "push" => New(call[c].seq, call[c].escrow, call[c].to)
    /\ \A r \in toSigners : New(r.seq, r.escrow, r.to)

(* Two calls about to push for one escrow have different seqs.             *)
PushesDiffer ==
    \A c, d \in Calls :
        call[c].pc = "push" /\ call[d].pc = "push" /\ call[c].escrow = call[d].escrow /\ c # d
        => call[c].seq # call[d].seq

(* On a trip that is not crowded, one request waits for the signer, and    *)
(* whoever is about to push comes after it.                                *)
InTurn ==
    /\ \A r, q \in toSigners :
           TripOfRequest(r) = TripOfRequest(q) /\ TripOfRequest(r) \notin crowded => r = q
    /\ \A r \in toSigners, c \in Calls :
           call[c].pc = "push" /\ TripOf(c) = TripOfRequest(r) /\ TripOf(c) \notin crowded
           => r.seq < call[c].seq

Unrefused == refused \subseteq crowded

Seqs == SeqsTyped /\ OneWriter /\ HeardOnFile /\ SeqsNew /\ PushesDiffer /\ InTurn /\ Unrefused

HeardInv == raced \/ Seqs

(* Nothing has been sent.                                                  *)
LEMMA HeardInit == Init => HeardInv
BY DEF Init, HeardInv, Seqs, SeqsTyped, OneWriter, HeardOnFile, SeqsNew, PushesDiffer, InTurn,
       Unrefused, NoSeqs, Running, Ended, Unstarted

(* Neither the file nor the signers are touched, and no call gets ready to *)
(* write or to push.                                                       *)
LEMMA SeqsKept ==
    ASSUME HeardInv, UNCHANGED <<file, heard, refused, raced, crowded, toSigners>>,
           \A d \in Calls : call'[d].pc \in {"write", "push"} => call'[d] = call[d],
           \A d \in Calls : Running(d)' =>
               \/ Running(d) /\ SameTrip(call'[d], call[d])
               \/ call'[d].escrow \in Escrows /\ call'[d].to \in Signers
    PROVE  HeardInv'
<1> SUFFICES ASSUME Seqs PROVE Seqs'
  BY DEF HeardInv
<1> USE DEF Seqs
<1>1. SeqsTyped'
  BY DEF SeqsTyped, SameTrip
<1>2. OneWriter'
  BY DEF OneWriter
<1>3. HeardOnFile' /\ Unrefused'
  BY DEF HeardOnFile, Unrefused
<1>4. SeqsNew'
  BY DEF SeqsNew, New
<1>5. PushesDiffer'
  BY DEF PushesDiffer
<1>6. InTurn'
  BY DEF InTurn, TripOf
<1> QED
  BY <1>1, <1>2, <1>3, <1>4, <1>5, <1>6

(* A call reads the file and is the only one about to write it, or the     *)
(* calls race.                                                             *)
LEMMA ReadHeard == ASSUME IInv, HeardInv, NEW c \in Calls, ReadSeqState(c) PROVE HeardInv'
<1>1. /\ GoesOn(c, "write") /\ call'[c].file = file /\ Running(c)
      /\ UNCHANGED <<file, heard, refused, crowded, toSigners>>
  BY CallMoves DEF ReadSeqState, Running, Ended, signerVars
<1>2. raced' = (raced \/ \E d \in Calls : call[d].pc = "write")
  BY DEF ReadSeqState
<1> SUFFICES ASSUME ~raced' PROVE Seqs'
  BY DEF HeardInv
<1>3. Seqs /\ \A d \in Calls : call[d].pc # "write"
  BY <1>2 DEF HeardInv
<1> USE <1>3 DEF Seqs
<1>4. /\ \A d \in Calls : d # c => call'[d] = call[d] /\ (Running(d)' <=> Running(d))
      /\ call'[c].pc = "write" /\ SameTrip(call'[c], call[c])
  BY <1>1 DEF GoesOn, Moves, Running
<1>5. SeqsTyped'
  BY <1>1, <1>4 DEF SeqsTyped, SameTrip
<1>6. OneWriter'
  BY <1>1, <1>4 DEF OneWriter
<1>7. HeardOnFile' /\ Unrefused'
  BY <1>1 DEF HeardOnFile, Unrefused
<1>8. \A d \in Calls : call'[d].pc = "push" => call'[d] = call[d] /\ TripOf(d)' = TripOf(d)
  BY <1>4 DEF TripOf
<1>9. SeqsNew'
  BY <1>1, <1>8 DEF SeqsNew, New
<1>10. PushesDiffer'
  BY <1>8 DEF PushesDiffer
<1>11. InTurn'
  BY <1>1, <1>8 DEF InTurn
<1> QED
  BY <1>5, <1>6, <1>7, <1>9, <1>10, <1>11

(* The seq that a call writes and takes is above every seq on file.        *)
LEMMA WriteHeard == ASSUME IInv, HeardInv, NEW c \in Calls, WriteSeqState(c) PROVE HeardInv'
<1> SUFFICES ASSUME Seqs PROVE Seqs'
  BY DEF HeardInv, WriteSeqState
<1> USE DEF Seqs
<1> DEFINE e == call[c].escrow
           s == call[c].to
<1>1. /\ GoesOn(c, "push") /\ call'[c].seq = call[c].file[e] + 1 /\ Running(c)
      /\ call[c].pc = "write" /\ UNCHANGED <<heard, refused, crowded, toSigners>>
      /\ file' = [call[c].file EXCEPT ![e] = @ + 1]
  BY CallMoves DEF WriteSeqState, NextSeqs, Running, Ended, signerVars
<1>2. call[c].file = file /\ file \in [Escrows -> Nat] /\ e \in Escrows /\ s \in Signers
      /\ heard \in [Signers -> [Escrows -> Nat]]
  BY <1>1 DEF OneWriter, SeqsTyped
<1>3. /\ \A d \in Calls : d # c => call'[d] = call[d] /\ (Running(d)' <=> Running(d))
                                   /\ TripOf(d)' = TripOf(d)
      /\ call'[c].pc = "push" /\ call'[c].escrow = e /\ call'[c].to = s /\ TripOf(c)' = <<e, s>>
  BY <1>1 DEF GoesOn, Moves, Running, SameTrip, TripOf
<1>4. /\ file' \in [Escrows -> Nat] /\ file'[e] = file[e] + 1 /\ call'[c].seq = file'[e]
      /\ \A x \in Escrows : file[x] <= file'[x]
  BY <1>1, <1>2
<1> HIDE DEF e, s
<1>5. SeqsTyped'
  BY <1>1, <1>2, <1>3, <1>4 DEF SeqsTyped
<1>6. OneWriter'
  BY <1>1, <1>3 DEF OneWriter
<1>7. HeardOnFile' /\ Unrefused'
  BY <1>1, <1>2, <1>4 DEF HeardOnFile, Unrefused
<1>8. NewAfter(call'[c].seq, e, s)
  <2>1. heard[s][e] <= file[e] /\ heard[s][e] \in Nat /\ file[e] \in Nat
    BY <1>2 DEF HeardOnFile
  <2> QED
    BY <1>1, <1>2, <1>4, <2>1 DEF NewAfter
<1>9. ASSUME NEW x \in Escrows, NEW t \in Signers, NEW seq, New(seq, x, t)
      PROVE  NewAfter(seq, x, t)
  BY <1>1, <1>2, <1>4, <1>9 DEF New, NewAfter
<1>10. SeqsNew'
  <2>1. \A d \in Calls :
            call'[d].pc = "push" => NewAfter(call'[d].seq, call'[d].escrow, call'[d].to)
    BY <1>3, <1>8, <1>9 DEF SeqsNew, SeqsTyped, Running, Ended
  <2>2. \A r \in toSigners' : NewAfter(r.seq, r.escrow, r.to)
    BY <1>1, <1>9 DEF SeqsNew, SeqsTyped
  <2> QED
    BY <2>1, <2>2 DEF SeqsNew, New, NewAfter
<1>11. /\ \A d \in Calls : call[d].pc = "push" /\ call[d].escrow = e => call[d].seq < call'[c].seq
       /\ \A r \in toSigners : r.escrow = e => r.seq < call'[c].seq
  <2>1. ASSUME NEW seq \in Nat, seq <= file[e] PROVE seq < call'[c].seq
    BY <1>2, <1>4, <2>1
  <2>2. ASSUME NEW d \in Calls, call[d].pc = "push", call[d].escrow = e
        PROVE  call[d].seq \in Nat /\ call[d].seq <= file[e]
    BY <2>2 DEF SeqsNew, New
  <2>3. ASSUME NEW r \in toSigners, r.escrow = e PROVE r.seq \in Nat /\ r.seq <= file[e]
    BY <2>3 DEF SeqsNew, New
  <2> QED
    BY <2>1, <2>2, <2>3
<1>12. PushesDiffer'
  <2> SUFFICES ASSUME NEW a \in Calls, NEW d \in Calls, a # d, call'[a].pc = "push",
                      call'[d].pc = "push", call'[a].escrow = call'[d].escrow
               PROVE  call'[a].seq # call'[d].seq
    BY DEF PushesDiffer
  <2>1. CASE a # c /\ d # c
    BY <1>3, <2>1 DEF PushesDiffer
  <2>2. ASSUME NEW b \in Calls, b # c, call'[b].pc = "push", call'[b].escrow = e
        PROVE  call'[b].seq \in Nat /\ call'[b].seq < call'[c].seq
    BY <1>3, <1>11, <2>2 DEF SeqsNew, New
  <2>3. call'[c].seq \in Nat
    BY <1>2, <1>4
  <2> QED
    BY <1>3, <2>1, <2>2, <2>3
<1>13. InTurn'
  <2>1. \A r \in toSigners : TripOfRequest(r) = <<e, s>> => r.seq < call'[c].seq
    BY <1>11 DEF TripOfRequest
  <2>2. ASSUME NEW r \in toSigners, NEW d \in Calls, call'[d].pc = "push",
               TripOf(d)' = TripOfRequest(r), TripOf(d)' \notin crowded
        PROVE  r.seq < call'[d].seq
    <3>1. CASE d = c
      BY <1>3, <2>1, <2>2, <3>1
    <3>2. CASE d # c
      BY <1>3, <2>2, <3>2 DEF InTurn
    <3> QED
      BY <3>1, <3>2
  <2> QED
    BY <1>1, <2>2 DEF InTurn
<1> QED
  BY <1>5, <1>6, <1>7, <1>10, <1>12, <1>13

(* The request carries the seq of its call.  If its trip is not crowded    *)
(* now, it is the only one to be taken, and the calls about to push have   *)
(* higher seqs.                                                            *)
LEMMA PushHeard ==
    ASSUME IInv, HeardInv, NEW c \in Calls, Push(c) \/ PushFails(c)
    PROVE  HeardInv'
<1> SUFFICES ASSUME Seqs PROVE Seqs'
  BY DEF HeardInv, Push, PushFails
<1> USE DEF Seqs
<1> DEFINE request == [of |-> c, escrow |-> call[c].escrow, to |-> call[c].to, seq |-> call[c].seq]
<1>1. /\ request.escrow = call[c].escrow /\ request.to = call[c].to /\ request.seq = call[c].seq
      /\ TripOfRequest(request) = TripOf(c)
  BY DEF TripOfRequest, TripOf
<1>2. \/ toSigners' = toSigners /\ crowded' = crowded
      \/ /\ toSigners' \subseteq toSigners \cup {request}
         /\ crowded' = IF NotAlone(c) THEN crowded \cup {TripOf(c)} ELSE crowded
  BY DEF Push, PushFails, Leaves, Pushed
<1> HIDE DEF request
<1>3. call[c].pc = "push" /\ Running(c) /\ UNCHANGED <<file, heard, refused>>
  BY DEF Push, PushFails, Fails, Running, Ended
<1>4. /\ \A d \in Calls : d # c => call'[d] = call[d] /\ (Running(d)' <=> Running(d))
      /\ call'[c].pc \in {"pull", "failed"}
      /\ Running(c)' => SameTrip(call'[c], call[c])
  <2>1. CASE Push(c)
    BY <2>1, CallMoves DEF GoesOn, Moves, Running
  <2>2. CASE PushFails(c)
    BY <2>2 DEF PushFails, Fails, Running, Ended, IInv, CallsShaped
  <2> QED
    BY <2>1, <2>2
<1>5. SeqsTyped'
  BY <1>1, <1>2, <1>3, <1>4 DEF SeqsTyped, SameTrip
<1>6. OneWriter'
  BY <1>3, <1>4 DEF OneWriter
<1>7. crowded \subseteq crowded' /\ toSigners' \subseteq toSigners \cup {request}
  BY <1>2
<1>8. HeardOnFile' /\ Unrefused'
  BY <1>3, <1>7 DEF HeardOnFile, Unrefused
<1>9. SeqsNew'
  BY <1>1, <1>3, <1>4, <1>7 DEF SeqsNew, New
<1>10. PushesDiffer'
  BY <1>4 DEF PushesDiffer
<1>11. \A d \in Calls : call'[d].pc = "push" => d # c /\ call'[d] = call[d] /\ TripOf(d)' = TripOf(d)
  BY <1>4 DEF TripOf
<1>12. CASE toSigners' = toSigners /\ crowded' = crowded
  <2>1. InTurn'
    BY <1>11, <1>12 DEF InTurn
  <2> QED
    BY <1>5, <1>6, <1>8, <1>9, <1>10, <2>1
<1>13. CASE crowded' = IF NotAlone(c) THEN crowded \cup {TripOf(c)} ELSE crowded
  <2>1. ASSUME TripOf(c) \notin crowded'
        PROVE  /\ \A r \in toSigners : TripOfRequest(r) # TripOf(c)
               /\ \A d \in Calls : d # c /\ call[d].pc = "push" /\ TripOf(d) = TripOf(c)
                                   => call[c].seq < call[d].seq
    <3>1. ~NotAlone(c)
      BY <1>13, <2>1
    <3>2. ASSUME NEW d \in Calls, d # c, call[d].pc = "push", TripOf(d) = TripOf(c)
          PROVE  call[c].seq < call[d].seq
      <4>1. ~(call[d].seq < call[c].seq)
        BY <3>1, <3>2 DEF NotAlone
      <4>2. call[d].seq # call[c].seq
        BY <1>3, <3>2 DEF PushesDiffer, TripOf
      <4>3. call[d].seq \in Nat /\ call[c].seq \in Nat
        BY <1>3, <3>2 DEF SeqsNew, New
      <4> QED
        BY <4>1, <4>2, <4>3
    <3> QED
      BY <3>1, <3>2 DEF NotAlone, TripOfRequest
  <2>2. ASSUME NEW r \in toSigners', NEW q \in toSigners', TripOfRequest(r) = TripOfRequest(q),
               TripOfRequest(r) \notin crowded'
        PROVE  r = q
    BY <1>1, <1>7, <2>1, <2>2 DEF InTurn
  <2>3. ASSUME NEW r \in toSigners', NEW d \in Calls, call'[d].pc = "push",
               TripOf(d)' = TripOfRequest(r), TripOf(d)' \notin crowded'
        PROVE  r.seq < call'[d].seq
    <3>1. d # c /\ call'[d] = call[d] /\ TripOf(d)' = TripOf(d)
      BY <1>11, <2>3
    <3>2. CASE r = request
      BY <1>1, <2>1, <2>3, <3>1, <3>2
    <3>3. CASE r \in toSigners
      BY <1>7, <2>3, <3>1, <3>3 DEF InTurn
    <3> QED
      BY <1>7, <3>2, <3>3
  <2>4. InTurn'
    BY <2>2, <2>3 DEF InTurn
  <2> QED
    BY <1>5, <1>6, <1>8, <1>9, <1>10, <2>4
<1> QED
  BY <1>2, <1>12, <1>13

(* What the signer hears of a trip that is not crowded is new to it and    *)
(* older than what is yet to be pushed.                                    *)
LEMMA TakesHeard ==
    ASSUME HeardInv, NEW r \in toSigners, SignerTakes(r)
    PROVE  HeardInv'
<1> SUFFICES ASSUME Seqs PROVE Seqs'
  BY DEF HeardInv, SignerTakes
<1> USE DEF Seqs
<1>1. toSigners' = toSigners \ {r} /\ UNCHANGED <<file, call, crowded>>
  BY DEF SignerTakes
<1>2. r.escrow \in Escrows /\ r.to \in Signers /\ New(r.seq, r.escrow, r.to)
  BY DEF SeqsTyped, SeqsNew
<1>3. OneWriter' /\ PushesDiffer' /\ InTurn'
  BY <1>1 DEF OneWriter, PushesDiffer, InTurn, TripOf
<1>4. CASE heard' = heard
  <2>1. SeqsTyped'
    BY <1>1, <1>4 DEF SeqsTyped, Running
  <2>2. HeardOnFile' /\ SeqsNew'
    BY <1>1, <1>4 DEF HeardOnFile, SeqsNew, New
  <2>3. Unrefused'
    <3>1. CASE refused' = refused
      BY <1>1, <3>1 DEF Unrefused
    <3>2. CASE refused' = refused \cup {<<r.escrow, r.to>>} /\ ~(r.seq > heard[r.to][r.escrow])
      <4>1. <<r.escrow, r.to>> \in crowded
        BY <1>2, <3>2 DEF New, SeqsTyped
      <4> QED
        BY <1>1, <3>2, <4>1 DEF Unrefused
    <3> QED
      BY <3>1, <3>2 DEF SignerTakes
  <2> QED
    BY <1>3, <2>1, <2>2, <2>3
<1>5. CASE heard' = [heard EXCEPT ![r.to][r.escrow] = r.seq] /\ refused' = refused
  <2>1. heard' \in [Signers -> [Escrows -> Nat]]
    BY <1>2, <1>5 DEF SeqsTyped, New
  <2>2. \A s \in Signers, e \in Escrows :
            heard'[s][e] = IF <<e, s>> = <<r.escrow, r.to>> THEN r.seq ELSE heard[s][e]
    BY <1>2, <1>5 DEF SeqsTyped
  <2>3. SeqsTyped'
    BY <1>1, <2>1 DEF SeqsTyped, Running
  <2>4. Unrefused'
    BY <1>1, <1>5 DEF Unrefused
  <2>5. HeardOnFile'
    BY <1>1, <1>2, <2>2 DEF HeardOnFile, New
  <2>6. ASSUME NEW seq, NEW e \in Escrows, NEW s \in Signers, New(seq, e, s),
               <<e, s>> = <<r.escrow, r.to>> /\ <<e, s>> \notin crowded => r.seq < seq
        PROVE  NewAfter(seq, e, s)
    BY <1>1, <2>2, <2>6 DEF New, NewAfter
  <2>7. \A c \in Calls : call[c].pc = "push" => NewAfter(call[c].seq, call[c].escrow, call[c].to)
    BY <2>6 DEF SeqsNew, SeqsTyped, Running, Ended, TripOf, TripOfRequest, InTurn
  <2>8. \A q \in toSigners' : NewAfter(q.seq, q.escrow, q.to)
    BY <1>1, <2>6 DEF SeqsNew, SeqsTyped, TripOfRequest, InTurn
  <2>9. SeqsNew'
    BY <1>1, <2>7, <2>8 DEF SeqsNew, New, NewAfter
  <2> QED
    BY <1>3, <2>3, <2>4, <2>5, <2>9
<1> QED
  BY <1>4, <1>5 DEF SignerTakes

(* Every step keeps the seqs of trips that are not crowded new to their    *)
(* signers.                                                                *)
LEMMA HeardInductive == IInv /\ HeardInv /\ [Next]_vars => HeardInv'
<1> SUFFICES ASSUME IInv, HeardInv, [Next]_vars PROVE HeardInv'
  OBVIOUS
<1>1. CASE UNCHANGED <<call, file, heard, refused, raced, crowded, toSigners>>
  BY <1>1, SeqsKept DEF Running, SameTrip
<1>2. ASSUME NEW c \in Calls, NEW e \in Escrows, NEW s \in Signers, Start(c, e, s)
      PROVE  HeardInv'
  <2>1. UNCHANGED <<file, heard, refused, raced, crowded, toSigners>>
    BY <1>2 DEF Start, signerVars
  <2>2. /\ \A d \in Calls : d # c => call'[d] = call[d] /\ (Running(d)' <=> Running(d))
        /\ call'[c].pc = "read" /\ call'[c].escrow = e /\ call'[c].to = s
    BY <1>2, CallMoves DEF Moves, Running
  <2> QED
    BY <2>1, <2>2, SeqsKept DEF SameTrip
<1>3. ASSUME NEW c \in Calls, Running(c), Fails(c) \/ GoesOn(c, "ack") \/ GoesOn(c, "pull"),
             UNCHANGED <<file, heard, refused, raced, crowded, toSigners>>
      PROVE  HeardInv'
  <2>1. /\ \A d \in Calls : d # c => call'[d] = call[d] /\ (Running(d)' <=> Running(d))
        /\ call'[c].pc \in {"failed", "ack", "pull"}
        /\ Running(c)' => SameTrip(call'[c], call[c])
    BY <1>3 DEF GoesOn, Moves, Fails, Running, Ended, IInv, CallsShaped
  <2> QED
    BY <1>3, <2>1, SeqsKept DEF SameTrip
<1>4. ASSUME NEW c \in Calls,
             Dies(c) \/ PullFails(c) \/ AckFails(c) \/ PullFinds(c) \/ PullFindsNothing(c)
      PROVE  HeardInv'
  <2>1. Running(c) /\ UNCHANGED <<file, heard, refused, raced, crowded, toSigners>>
    BY <1>4 DEF Dies, PullFails, AckFails, PullFinds, PullFindsNothing, Running, Ended, signerVars
  <2>2. Fails(c) \/ GoesOn(c, "ack") \/ GoesOn(c, "pull")
    BY <1>4, CallMoves DEF Dies, PullFails, AckFails
  <2> QED
    BY <1>3, <2>1, <2>2
<1>5. ASSUME NEW c \in Calls, AckReturns(c) PROVE HeardInv'
  <2>1. /\ \A d \in Calls : d # c => call'[d] = call[d] /\ (Running(d)' <=> Running(d))
        /\ call'[c].pc = "returned" /\ ~Running(c)'
    BY <1>5, AckMoves DEF Running, Ended
  <2>2. UNCHANGED <<file, heard, refused, raced, crowded, toSigners>>
    BY <1>5 DEF AckReturns, signerVars
  <2> QED
    BY <2>1, <2>2, SeqsKept DEF SameTrip
<1>6. ASSUME NEW c \in Calls, CallStep(c) PROVE HeardInv'
  BY <1>4, <1>5, <1>6, ReadHeard, WriteHeard, PushHeard DEF CallStep
<1>7. ASSUME NEW r \in accepted, NEW kind \in Kinds, SignerAnswers(r, kind) PROVE HeardInv'
  BY <1>1, <1>7 DEF SignerAnswers
<1>8. ASSUME NEW a \in answered, SignerRepeats(a[1], a[2]) PROVE HeardInv'
  BY <1>1, <1>8 DEF SignerRepeats, signerVars
<1>9. CASE \/ UNCHANGED vars \/ InitVault \/ ExportIdentity
           \/ \E r \in inbox : LeaseEnds(r) \/ RowExpires(r)
  BY <1>1, <1>9 DEF vars, InitVault, ExportIdentity, LeaseEnds, RowExpires, signerVars
<1> QED
  BY <1>2, <1>4, <1>6, <1>7, <1>8, <1>9, TakesHeard DEF Next

(* next_out_seq puts the seq on disk before the envelope leaves.  Unless   *)
(* two calls read and rewrote the file at the same time, a signer refuses  *)
(* a request as a replay only on a trip that had two requests on the way   *)
(* at once or sent them out of turn, however many of its calls died.       *)
THEOREM SignersHearNewSeqs == Spec => []HeardInOrder
<1>1. HeardInv => HeardInOrder
  BY DEF HeardInv, Seqs, Unrefused, HeardInOrder
<1> QED
  BY <1>1, IInvInit, IInvInductive, HeardInit, HeardInductive, PTL DEF Spec
=============================================================================
