---------------------------- MODULE MailboxProofs ---------------------------
(***************************************************************************)
(* The mailbox implements the Relay, and hands a message to one consumer   *)
(* at a time, for any number of messages, inboxes and pollers, any limits, *)
(* lease times and clock lag.                                              *)
(*                                                                         *)
(* A lease knows when it is over, not whether its row was leased again.    *)
(* The invariant ties them: ids, dedupe keys and receipts each name one    *)
(* row (Table), and a running lease is the one its row is under            *)
(* (LatestLease).                                                          *)
(*                                                                         *)
(* The quota of an inbox needs what the fold of Total computes, for any    *)
(* rows: a sum, whatever row comes first (LeastNumber to FourBytes).       *)
(***************************************************************************)
EXTENDS Mailbox, FiniteSetTheorems, WellFoundedInduction, TLAPS

-----------------------------------------------------------------------------
(* Rows have ids of their own.                                             *)
DistinctIds(R) == \A r, q \in R : r.id = q.id => r = q

(* ORDER BY id numbers a finite set of rows from 1, each row differently.  *)
LEMMA PositionRange ==
    ASSUME NEW R \in SUBSET Row, IsFiniteSet(R), NEW r \in R
    PROVE  Position(r, R) \in 1 .. Cardinality(R)
<1> DEFINE below == {q \in R : q.id <= r.id}
<1>1. IsFiniteSet(below) /\ Cardinality(below) <= Cardinality(R)
  BY FS_Subset
<1>2. r \in below
  BY DEF Row
<1>3. Cardinality(below) \in Nat /\ Cardinality(below) # 0 /\ Cardinality(R) \in Nat
  BY <1>1, <1>2, FS_CardinalityType, FS_EmptySet
<1> QED
  BY <1>1, <1>3 DEF Position

LEMMA PositionInjective ==
    ASSUME NEW R \in SUBSET Row, IsFiniteSet(R), DistinctIds(R), NEW r \in R, NEW q \in R,
           Position(r, R) = Position(q, R)
    PROVE  r = q
<1> DEFINE Below(x) == {y \in R : y.id <= x.id}
<1>1. ASSUME NEW x \in R, NEW y \in R, x.id < y.id
      PROVE  Position(x, R) < Position(y, R)
  <2>1. Below(x) \subseteq Below(y) /\ y \in Below(y) /\ y \notin Below(x)
    BY <1>1 DEF Row
  <2>2. IsFiniteSet(Below(y))
    BY FS_Subset
  <2> HIDE DEF Below
  <2>a. /\ IsFiniteSet(Below(x))
        /\ Cardinality(Below(x)) <= Cardinality(Below(y))
        /\ Cardinality(Below(x)) # Cardinality(Below(y))
    BY <2>1, <2>2, FS_Subset
  <2>b. Cardinality(Below(x)) \in Nat /\ Cardinality(Below(y)) \in Nat
    BY <2>2, <2>a, FS_CardinalityType
  <2>3. Cardinality(Below(x)) < Cardinality(Below(y))
    BY <2>a, <2>b
  <2> USE DEF Below
  <2> QED
    BY <2>3 DEF Position
<1>2. Position(r, R) \in Nat /\ Position(q, R) \in Nat /\ r.id \in Nat /\ q.id \in Nat
  BY PositionRange DEF Row
<1>3. ~(r.id < q.id) /\ ~(q.id < r.id)
  BY <1>1, <1>2
<1>4. r.id = q.id
  BY <1>2, <1>3
<1> QED
  BY <1>4 DEF DistinctIds

-----------------------------------------------------------------------------
Lease == [id : Nat, lease : Nat, until : Nat]

Typed ==
    /\ now \in Nat
    /\ lastId \in Nat
    /\ lastLease \in Nat
    /\ notifying \in SUBSET Inboxes
    /\ poll \in [Pollers -> PollStates]
    /\ leases \in SUBSET Lease
    /\ acked \in SUBSET Nat
    /\ restarts \in Nat

(* A dedupe key has one row, and a receipt is under one row.               *)
OneRow(R) == \A r, q \in R : r.msg = q.msg => r = q
OwnReceipt(R) == \A r, q \in R : r.lease = q.lease /\ r.lease # NoLease => r = q

Table(R) == IsFiniteSet(R) /\ DistinctIds(R) /\ OneRow(R) /\ OwnReceipt(R)

(* A lease that still runs is the one its row is under, if the row is      *)
(* there; leases carry ids and receipts that were given out.               *)
LatestLease ==
    /\ \A l \in leases : l.id <= lastId /\ l.lease \in 1 .. lastLease
    /\ \A l \in Running, r \in rows : r.id = l.id => r.lease = l.lease /\ r.until = l.until

IInv == Typed /\ RowsTyped /\ Table(rows) /\ LatestLease /\ LeaseExclusive

(* The table is empty and nothing has been handed out.                     *)
LEMMA IInvInit == Init => IInv
BY MailboxConstants, FS_EmptySet
DEF Init, IInv, Typed, PollStates, RowsTyped, Table, DistinctIds, OneRow, OwnReceipt,
    LatestLease, LeaseExclusive, Running

-----------------------------------------------------------------------------
(* A step that drops rows, or none, and hands nothing out.                 *)
LEMMA FewerRows ==
    ASSUME IInv, Typed', rows' \subseteq rows, UNCHANGED <<lastId, lastLease>>,
           now' >= now, leases' \subseteq leases
    PROVE  IInv'
<1> USE DEF IInv
<1>1. RowsTyped'
  BY MailboxConstants DEF RowsTyped, Row, Typed
<1>2. Table(rows')
  BY FS_Subset DEF Table, DistinctIds, OneRow, OwnReceipt
<1>3. Running' \subseteq Running
  BY DEF Running, Typed, Lease
<1>4. LatestLease' /\ LeaseExclusive'
  BY <1>3 DEF LatestLease, LeaseExclusive
<1> QED
  BY <1>1, <1>2, <1>4 DEF Table

LEMMA MinBelow ==
    ASSUME NEW a \in Nat, NEW b \in Nat
    PROVE  Min({a, b}) \in Nat /\ Min({a, b}) <= b
<1>1. \E x \in {a, b} : \A y \in {a, b} : x <= y
  OBVIOUS
<1> QED
  BY <1>1 DEF Min

(* A push puts a row under a new id, for a message without one.            *)
LEMMA PushStep ==
    ASSUME IInv, NEW m \in Messages, NEW ttl \in Ttls, NEW t \in Stamps, Push(m, ttl, t)
    PROVE  IInv'
<1> USE DEF IInv
<1>1. Typed'
  BY MailboxConstants DEF Typed, Push, PushRow
<1>2. Live(t) \subseteq rows
  BY DEF Live
<1>3. CASE rows' = Live(t) /\ lastId' = lastId
  BY <1>1, <1>2, <1>3, FewerRows DEF Push, Typed
<1>4. CASE /\ ~Duplicate(m, Live(t))
           /\ rows' = Live(t) \cup {NewRow(m, ttl, t)}
           /\ lastId' = lastId + 1
  <2> DEFINE n == NewRow(m, ttl, t)
  <2>1. t \in Nat /\ t <= now
    BY DEF Stamps, Typed
  <2>2. ttl \in Nat /\ MaxTtl \in Nat
    BY MailboxConstants
  <2>3. /\ n \in Row /\ n.msg = m /\ n.id = lastId + 1 /\ n.lease = 0 /\ n.until = 0
        /\ n.expires <= now + MaxTtl
    BY <2>1, <2>2, MinBelow DEF NewRow, Row, NoLease, Typed
  <2> HIDE DEF n
  <2>4. UNCHANGED <<now, lastLease, leases>>
    BY DEF Push
  <2>5. \A r \in Live(t) : r \in Row /\ r.id <= lastId /\ r.id # n.id /\ r.msg # m
    BY <1>2, <1>4, <2>3 DEF RowsTyped, Duplicate, Row, Typed
  <2>6. RowsTyped'
    BY <1>2, <1>4, <2>3, <2>4 DEF RowsTyped, Row, Typed, n
  <2>7. Table(rows')
    <3>1. IsFiniteSet(rows')
      BY <1>2, <1>4, FS_Subset, FS_AddElement DEF Table
    <3>2. DistinctIds(rows') /\ OneRow(rows')
      BY <1>2, <1>4, <2>3, <2>5 DEF Table, DistinctIds, OneRow, n
    <3>3. OwnReceipt(rows')
      BY <1>2, <1>4, <2>3 DEF Table, OwnReceipt, NoLease, n
    <3> QED
      BY <3>1, <3>2, <3>3 DEF Table
  <2>8. LatestLease'
    <3>1. Running' = Running
      BY <2>4 DEF Running
    <3>2. \A l \in leases : l.id # n.id /\ l.id <= lastId'
      BY <1>4, <2>3 DEF LatestLease, Typed, Lease
    <3> QED
      BY <1>2, <1>4, <2>4, <3>1, <3>2 DEF LatestLease, Running, n
  <2>9. LeaseExclusive'
    BY <2>4 DEF LeaseExclusive, Running
  <2> QED
    BY <1>1, <2>6, <2>7, <2>8, <2>9
<1> QED
  BY <1>3, <1>4 DEF Push, PushRow

-----------------------------------------------------------------------------
(* A leased row, and what leasing leaves alone.                            *)
Up(r, batch, t) ==
    [r EXCEPT !.lease = lastLease + Position(r, batch), !.until = t + LeaseTime]

(* The rows a pull leases are in the table, live, and under no lease that  *)
(* still runs by the pull's clock.                                         *)
LEMMA BatchRows ==
    ASSUME IInv, NEW i \in Inboxes, NEW t \in Stamps, NEW r \in Batch(i, t)
    PROVE  /\ r \in Live(t) /\ r \in rows /\ r \in Row /\ LeaseOver(r, t)
           /\ t \in Nat /\ t <= now
BY DEF Batch, Available, InInbox, Live, IInv, RowsTyped, Stamps, Typed

LEMMA BatchFinite ==
    ASSUME IInv, NEW i \in Inboxes, NEW t \in Stamps
    PROVE  /\ Batch(i, t) \in SUBSET rows /\ Batch(i, t) \in SUBSET Row
           /\ IsFiniteSet(Batch(i, t)) /\ DistinctIds(Batch(i, t))
           /\ Cardinality(Batch(i, t)) \in Nat
<1>1. Batch(i, t) \subseteq rows /\ Batch(i, t) \subseteq Row
  BY BatchRows
<1>2. IsFiniteSet(Batch(i, t)) /\ DistinctIds(Batch(i, t))
  BY <1>1, FS_Subset DEF IInv, Table, DistinctIds
<1> QED
  BY <1>1, <1>2, FS_CardinalityType

LEMMA LeasedRow ==
    ASSUME IInv, NEW i \in Inboxes, NEW t \in Stamps, NEW r \in Batch(i, t)
    PROVE  LET batch == Batch(i, t)
               n == Up(r, batch, t)
           IN /\ n \in Row
              /\ n.msg = r.msg /\ n.id = r.id /\ n.expires = r.expires
              /\ n.lease = lastLease + Position(r, batch)
              /\ n.lease \in (lastLease + 1) .. (lastLease + Cardinality(batch))
              /\ n.until = t + LeaseTime /\ n.until \in Nat
<1> DEFINE batch == Batch(i, t)
           lease == lastLease + Position(r, batch)
           until == t + LeaseTime
<1>1. r \in Row /\ t \in Nat
  BY BatchRows
<1>2. Position(r, batch) \in 1 .. Cardinality(batch) /\ Cardinality(batch) \in Nat
  BY BatchFinite, PositionRange
<1>3. lastLease \in Nat /\ LeaseTime \in Nat
  BY MailboxConstants DEF IInv, Typed
<1>4. until \in Nat /\ lease \in Nat /\ lease \in (lastLease + 1) .. (lastLease + Cardinality(batch))
  BY <1>1, <1>2, <1>3
<1>5. Up(r, batch, t) = [r EXCEPT !.lease = lease, !.until = until]
  BY DEF Up
<1> HIDE DEF batch, lease, until
<1>6. LET n == Up(r, batch, t)
      IN n \in Row /\ n.msg = r.msg /\ n.id = r.id /\ n.expires = r.expires /\ n.lease = lease
         /\ n.until = until
  BY <1>1, <1>4, <1>5 DEF Row
<1> QED
  BY <1>4, <1>6 DEF batch, lease, until

(* The table after a pull: what it kept, and the leased rows.              *)
Repulled(kept, batch, t) == (kept \ batch) \cup Leased(batch, t)

(* Every row after the pull comes from one row before it: the same row, or *)
(* a row of the batch under its new lease.                                 *)
LEMMA Origin ==
    ASSUME IInv, NEW i \in Inboxes, NEW t \in Stamps, NEW kept \in SUBSET rows,
           NEW x \in Repulled(kept, Batch(i, t), t)
    PROVE  \/ x \in kept /\ x \notin Batch(i, t)
           \/ \E r \in Batch(i, t) : x = Up(r, Batch(i, t), t)
BY DEF Repulled, Leased, Up

LEMMA RepulledTable ==
    ASSUME IInv, NEW i \in Inboxes, NEW t \in Stamps, NEW kept \in SUBSET rows
    PROVE  Table(Repulled(kept, Batch(i, t), t))
<1> DEFINE batch == Batch(i, t)
           R == Repulled(kept, batch, t)
<1>1. IsFiniteSet(R)
  <2> DEFINE f == [r \in batch |-> Up(r, batch, t)]
  <2>1. f \in Surjection(batch, Leased(batch, t))
    BY DEF Surjection, Leased, Up
  <2>2. IsFiniteSet(Leased(batch, t))
    BY <2>1, BatchFinite, FS_Surjection
  <2>3. IsFiniteSet(kept \ batch)
    BY FS_Subset DEF IInv, Table
  <2> QED
    BY <2>2, <2>3, FS_Union DEF Repulled
<1>2. \A r \in batch : /\ r \in rows
                        /\ Up(r, batch, t).id = r.id /\ Up(r, batch, t).msg = r.msg
                        /\ Up(r, batch, t).lease = lastLease + Position(r, batch)
                        /\ Up(r, batch, t).lease > lastLease
                        /\ Position(r, batch) \in Nat
  <2> TAKE r \in batch
  <2>1. Position(r, batch) \in 1 .. Cardinality(batch) /\ Cardinality(batch) \in Nat
    BY BatchFinite, PositionRange
  <2> QED
    BY <2>1, BatchRows, LeasedRow DEF IInv, Typed
<1>3. \A x \in R : \/ x \in rows /\ x \notin batch
                   \/ \E r \in batch : x = Up(r, batch, t)
  BY Origin
<1>4. \A r, q \in batch : Position(r, batch) = Position(q, batch) => r = q
  BY BatchFinite, PositionInjective
<1>5. \A r \in rows : r.lease <= lastLease /\ r.lease \in Nat
  BY DEF IInv, RowsTyped, Row
<1> HIDE DEF batch, R
<1>6. DistinctIds(R)
  BY <1>2, <1>3 DEF IInv, Table, DistinctIds
<1>7. OneRow(R)
  BY <1>2, <1>3 DEF IInv, Table, OneRow
<1>8. OwnReceipt(R)
  <2> SUFFICES ASSUME NEW x \in R, NEW y \in R, x.lease = y.lease, x.lease # NoLease
               PROVE  x = y
    BY DEF OwnReceipt
  <2>1. CASE x \in rows /\ y \in rows
    BY <2>1 DEF IInv, Table, OwnReceipt
  <2>2. CASE x \in rows /\ y \notin rows
    BY <1>2, <1>3, <1>5, <2>2 DEF IInv, Typed
  <2>3. CASE x \notin rows /\ y \in rows
    BY <1>2, <1>3, <1>5, <2>3 DEF IInv, Typed
  <2>4. CASE x \notin rows /\ y \notin rows
    <3>1. PICK r \in batch : x = Up(r, batch, t)
      BY <1>3, <2>4
    <3>2. PICK q \in batch : y = Up(q, batch, t)
      BY <1>3, <2>4
    <3>3. Position(r, batch) = Position(q, batch)
      BY <1>2, <3>1, <3>2 DEF IInv, Typed
    <3> QED
      BY <1>4, <3>1, <3>2, <3>3
  <2> QED
    BY <2>1, <2>2, <2>3, <2>4
<1> QED
  BY <1>1, <1>6, <1>7, <1>8 DEF Table, R, batch

(* The pull's leases are the only running ones of their rows: the leases   *)
(* of these rows were over by a clock that is not ahead of the real one.   *)
LEMMA PullLeasesStep ==
    ASSUME IInv, NEW p \in Pollers, NEW t \in Stamps, PullLeases(p, t)
    PROVE  IInv'
<1> USE DEF IInv
<1> DEFINE i == AuthorizedInbox(p)
           batch == Batch(i, t)
           LeaseOf(r) == [id |-> r.id, lease |-> r.lease, until |-> r.until]
<1>1. i \in Inboxes
  BY MailboxConstants DEF AuthorizedInbox
<1>2. PICK kept \in Pruned(t) : rows' = Repulled(kept, batch, t)
  BY DEF PullLeases, Repulled
<1>3. kept \in SUBSET rows
  BY DEF Pruned, Live
<1>4. /\ lastLease' = lastLease + Cardinality(batch)
      /\ leases' = leases \cup {LeaseOf(r) : r \in Leased(batch, t)}
      /\ poll' = [poll EXCEPT ![p] = "idle"]
      /\ UNCHANGED <<now, lastId, notifying, acked, restarts>>
  BY DEF PullLeases
<1>5. \A r \in batch :
        LET n == Up(r, batch, t)
        IN /\ n \in Row /\ n.id = r.id /\ n.expires = r.expires /\ n.until \in Nat
           /\ n.lease \in (lastLease + 1) .. lastLease' /\ r \in rows /\ LeaseOver(r, t)
  BY <1>1, <1>4, LeasedRow, BatchRows
<1>6. Cardinality(batch) \in Nat
  BY <1>1, BatchFinite
<1>7. t \in Nat /\ t <= now
  BY DEF Stamps, Typed
<1>8. Table(rows')
  BY <1>1, <1>2, <1>3, RepulledTable
<1>9. \A x \in rows' : \/ x \in rows /\ x \notin batch
                       \/ \E r \in batch : x = Up(r, batch, t)
  BY <1>1, <1>2, <1>3, Origin
<1>10. \A l \in leases' : \/ l \in leases
                          \/ \E r \in batch : l = LeaseOf(Up(r, batch, t)) /\ Up(r, batch, t) \in rows'
  <2>1. Leased(batch, t) = {Up(r, batch, t) : r \in batch}
    BY DEF Leased, Up
  <2>2. Leased(batch, t) \subseteq rows'
    BY <1>2 DEF Repulled
  <2> HIDE DEF batch, LeaseOf
  <2> QED
    BY <1>4, <2>1, <2>2
<1> HIDE DEF batch, i
<1>11. Typed'
  <2>1. lastLease' \in Nat
    BY <1>4, <1>6 DEF Typed
  <2>2. leases' \in SUBSET Lease
    <3> SUFFICES ASSUME NEW l \in leases' PROVE l \in Lease
      OBVIOUS
    <3>1. ASSUME NEW r \in batch, l = LeaseOf(Up(r, batch, t)) PROVE l \in Lease
      <4>1. Up(r, batch, t) \in Row
        BY <1>5
      <4> QED
        BY <3>1, <4>1 DEF Lease, Row
    <3> QED
      BY <1>10, <3>1 DEF Typed
  <2> QED
    BY <1>4, <2>1, <2>2 DEF Typed, PollStates
<1>12. RowsTyped'
  <2> SUFFICES ASSUME NEW x \in rows'
               PROVE  /\ x \in Row
                      /\ x.id <= lastId' /\ x.lease <= lastLease' /\ x.expires <= now' + MaxTtl
    BY DEF RowsTyped
  <2>1. CASE x \in rows
    BY <1>4, <1>6, <2>1 DEF RowsTyped, Row, Typed
  <2>2. ASSUME NEW r \in batch, x = Up(r, batch, t)
        PROVE  /\ x \in Row
               /\ x.id <= lastId' /\ x.lease <= lastLease' /\ x.expires <= now' + MaxTtl
    BY <1>4, <1>5, <2>2 DEF RowsTyped
  <2> QED
    BY <1>9, <2>1, <2>2
<1>13. ASSUME NEW l \in Running, NEW r \in batch PROVE l.id # r.id
  <2>1. l.lease \in 1 .. lastLease /\ l.until >= now /\ l.until \in Nat
    BY DEF LatestLease, Running, Typed, Lease
  <2>2. l.id = r.id => r.lease = l.lease /\ r.until = l.until
    BY <1>5 DEF LatestLease
  <2> QED
    BY <1>5, <1>7, <2>1, <2>2 DEF LeaseOver, NoLease, Typed
<1>14. \A l \in Running' : \/ l \in Running
                           \/ \E r \in batch : l = LeaseOf(Up(r, batch, t)) /\ Up(r, batch, t) \in rows'
  BY <1>4, <1>10 DEF Running
<1>15. LatestLease'
  <2>1. \A l \in leases' : l.id <= lastId' /\ l.lease \in 1 .. lastLease'
    <3> SUFFICES ASSUME NEW l \in leases' PROVE l.id <= lastId' /\ l.lease \in 1 .. lastLease'
      OBVIOUS
    <3>1. CASE l \in leases
      BY <1>4, <1>6, <3>1 DEF LatestLease, Typed
    <3>2. ASSUME NEW r \in batch, l = LeaseOf(Up(r, batch, t))
          PROVE  l.id <= lastId' /\ l.lease \in 1 .. lastLease'
      <4>1. l.id = r.id /\ l.lease = Up(r, batch, t).lease
        BY <1>5, <3>2
      <4> QED
        BY <1>4, <1>5, <4>1 DEF RowsTyped, Typed
    <3> QED
      BY <1>10, <3>1, <3>2
  <2>2. \A l \in Running', x \in rows' : x.id = l.id => x.lease = l.lease /\ x.until = l.until
    <3> SUFFICES ASSUME NEW l \in Running', NEW x \in rows', x.id = l.id
                 PROVE  x.lease = l.lease /\ x.until = l.until
      OBVIOUS
    <3>1. CASE l \in Running
      BY <1>5, <1>9, <1>13, <3>1 DEF LatestLease
    <3>2. ASSUME NEW r \in batch, l = LeaseOf(Up(r, batch, t)), Up(r, batch, t) \in rows'
          PROVE  x.lease = l.lease /\ x.until = l.until
      BY <1>8, <3>2 DEF Table, DistinctIds
    <3> QED
      BY <1>14, <3>1, <3>2
  <2> QED
    BY <2>1, <2>2 DEF LatestLease
<1>16. LeaseExclusive'
  <2> SUFFICES ASSUME NEW k \in Running', NEW l \in Running', k.id = l.id
               PROVE  k = l
    BY DEF LeaseExclusive
  <2>1. ASSUME NEW r \in batch PROVE LeaseOf(Up(r, batch, t)).id = r.id
    BY <1>5, <2>1
  <2>2. CASE k \in Running /\ l \in Running
    BY <2>2 DEF LeaseExclusive
  <2>3. CASE k \notin Running /\ l \notin Running
    <3>1. PICK r \in batch : k = LeaseOf(Up(r, batch, t)) /\ Up(r, batch, t) \in rows'
      BY <1>14, <2>3
    <3>2. PICK q \in batch : l = LeaseOf(Up(q, batch, t)) /\ Up(q, batch, t) \in rows'
      BY <1>14, <2>3
    <3>3. r.id = q.id /\ r \in rows /\ q \in rows
      BY <1>5, <2>1, <3>1, <3>2
    <3> QED
      BY <3>1, <3>2, <3>3 DEF Table, DistinctIds
  <2>4. (k \in Running) = (l \in Running)
    BY <1>13, <1>14, <2>1
  <2> QED
    BY <2>2, <2>3, <2>4
<1> QED
  BY <1>8, <1>11, <1>12, <1>15, <1>16 DEF Table

(* The steps that only drop rows, move pollers or let time pass.           *)
Shrinks == rows' \subseteq rows /\ UNCHANGED lastLease

LEMMA QuietPollSteps ==
    ASSUME IInv, NEW p \in Pollers, NEW t \in Stamps,
           StartPull(p) \/ Subscribe(p) \/ PullTimesOut(p) \/ PullFindsNothing(p, t)
    PROVE  IInv' /\ Shrinks /\ acked' = acked
<1>1. poll' \in [Pollers -> PollStates]
  BY DEF IInv, Typed, PollStates, StartPull, Subscribe, PullTimesOut, PullFindsNothing
<1>2. Shrinks /\ UNCHANGED <<now, lastId, notifying, leases, acked, restarts>>
  BY DEF Shrinks, StartPull, Subscribe, PullTimesOut, PullFindsNothing, Pruned, Live
<1>3. Typed'
  BY <1>1, <1>2 DEF IInv, Typed, Shrinks
<1> QED
  BY <1>2, <1>3, FewerRows DEF Shrinks, IInv, Typed

LEMMA NotifyInboxStep ==
    ASSUME IInv, NEW i \in Inboxes, NotifyInbox(i)
    PROVE  IInv' /\ Shrinks /\ acked' = acked
<1>1. Typed' /\ Shrinks /\ UNCHANGED <<now, lastId, leases, acked>>
  BY DEF IInv, Typed, PollStates, NotifyInbox, Shrinks
<1> QED
  BY <1>1, FewerRows DEF Shrinks, IInv, Typed

LEMMA AckStep ==
    ASSUME IInv, NEW i \in Inboxes, NEW receipt \in 1 .. lastLease, Ack(i, receipt)
    PROVE  IInv' /\ Shrinks
<1>1. Typed' /\ Shrinks /\ UNCHANGED <<now, lastId, leases>>
  BY DEF IInv, Typed, Ack, Shrinks
<1> QED
  BY <1>1, FewerRows DEF Shrinks, IInv, Typed

LEMMA CleanupStep ==
    ASSUME IInv, NEW t \in Stamps, CleanupExpired(t)
    PROVE  IInv' /\ Shrinks /\ acked' = acked
<1>1. Typed' /\ Shrinks /\ UNCHANGED <<now, lastId, leases, acked>>
  BY DEF IInv, Typed, CleanupExpired, Live, Shrinks
<1> QED
  BY <1>1, FewerRows DEF Shrinks, IInv, Typed

LEMMA RestartStep ==
    ASSUME IInv, Restart
    PROVE  IInv' /\ Shrinks /\ acked' = acked
<1>1. Typed' /\ Shrinks /\ UNCHANGED <<now, lastId, leases, acked>>
  BY DEF IInv, Typed, PollStates, Restart, Shrinks
<1> QED
  BY <1>1, FewerRows DEF Shrinks, IInv, Typed

LEMMA TickStep ==
    ASSUME IInv, Tick
    PROVE  IInv' /\ Shrinks /\ acked' = acked
<1>1. /\ Typed' /\ Shrinks /\ UNCHANGED <<lastId, acked>>
      /\ now' >= now /\ leases' \subseteq leases
  BY DEF IInv, Typed, Tick, Shrinks
<1> QED
  BY <1>1, FewerRows DEF Shrinks

LEMMA StutterStep ==
    ASSUME IInv, UNCHANGED vars
    PROVE  IInv' /\ Shrinks /\ acked' = acked
<1>1. Typed' /\ Shrinks /\ UNCHANGED <<now, lastId, leases, acked>>
  BY DEF IInv, Typed, vars, Shrinks
<1> QED
  BY <1>1, FewerRows DEF Shrinks, IInv, Typed

(* A step is a push, a pull that leases, an ack, or one of these.          *)
LEMMA StepKinds ==
    ASSUME IInv, [Next]_vars
    PROVE  \/ \E m \in Messages, ttl \in Ttls, t \in Stamps : Push(m, ttl, t)
           \/ \E p \in Pollers, t \in Stamps : PullLeases(p, t)
           \/ \E i \in Inboxes, receipt \in 1 .. lastLease : Ack(i, receipt)
           \/ IInv' /\ Shrinks /\ acked' = acked
<1>1. \E t \in Stamps : TRUE
  <2>1. 0 <= now /\ now - now <= Lag
    BY MailboxConstants DEF IInv, Typed
  <2> QED
    BY <2>1 DEF Stamps, IInv, Typed
<1>2. ASSUME NEW p \in Pollers, PullStep(p)
      PROVE  \/ \E t \in Stamps : PullLeases(p, t)
             \/ IInv' /\ Shrinks /\ acked' = acked
  BY <1>1, <1>2, QuietPollSteps DEF PullStep
<1> QED
  BY <1>2, NotifyInboxStep, CleanupStep, RestartStep, TickStep, StutterStep DEF Next

(* Every step of the mailbox and its clients preserves the invariant.      *)
LEMMA IInvInductive ==
    ASSUME IInv, [Next]_vars
    PROVE  IInv'
BY StepKinds, PushStep, PullLeasesStep, AckStep

(* The invariant holds in every reachable state.                           *)
LEMMA IInvAlways == Spec => []IInv
BY IInvInit, IInvInductive, PTL DEF Spec

(* No message is out under two running leases, whatever clock readings the *)
(* pulls of db.rs use: the lease of a row is renewed only after it is over *)
(* by a reading that is not ahead of the clock.                            *)
THEOREM OneConsumerAtATime == Spec => []LeaseExclusive
<1>1. IInv => LeaseExclusive
  BY DEF IInv
<1> QED
  BY <1>1, IInvAlways, PTL

-----------------------------------------------------------------------------
(* The relay's box, read off the table.                                    *)
LEMMA ReceiptOfRow ==
    ASSUME NEW R, OneRow(R), NEW r \in R, r.msg \in Messages
    PROVE  Receipts(R)[r.msg] = r.lease
<1>1. RowsOf(r.msg, R) = {r}
  BY DEF OneRow, RowsOf
<1> QED
  BY <1>1 DEF Receipts

LEMMA ReceiptOfNone ==
    ASSUME NEW R, NEW m \in Messages, \A r \in R : r.msg # m
    PROVE  Receipts(R)[m] = -1
BY DEF Receipts, RowsOf

(* What the box holds.                                                     *)
LEMMA HeldHasRow ==
    ASSUME IInv, NEW m \in Messages
    PROVE  /\ m \in Promise!Held <=> \E r \in rows : r.msg = m
           /\ \A r \in rows : r.msg = m => Receipts(rows)[m] = r.lease
<1>1. \A r \in rows : r.msg = m => Receipts(rows)[m] = r.lease
  BY ReceiptOfRow DEF IInv, Table
<1>2. \A r \in rows : r.lease \in Nat /\ r.lease # -1
  BY DEF IInv, RowsTyped, Row
<1>3. (\E r \in rows : r.msg = m) \/ Receipts(rows)[m] = -1
  BY ReceiptOfNone
<1> QED
  BY <1>1, <1>2, <1>3 DEF Promise!Held, Promise!Absent

(* The messages of rows that are no longer kept.                           *)
Lost(kept) == {m \in Promise!Held : \A r \in kept : r.msg # m}

(* Dropping rows takes their messages out of the box.                      *)
LEMMA ReceiptsKept ==
    ASSUME IInv, NEW kept \in SUBSET rows
    PROVE  /\ Lost(kept) \in SUBSET Promise!Held
           /\ Receipts(kept) = Promise!Without(Lost(kept))
<1>1. ASSUME NEW m \in Messages
      PROVE  Receipts(kept)[m] = Promise!Without(Lost(kept))[m]
  <2>1. Promise!Without(Lost(kept))[m] = IF m \in Lost(kept) THEN -1 ELSE Receipts(rows)[m]
    BY DEF Promise!Without, Promise!Absent
  <2>2. CASE \E r \in kept : r.msg = m
    <3>1. PICK r \in kept : r.msg = m
      BY <2>2
    <3>2. Receipts(kept)[m] = r.lease
      BY <3>1, ReceiptOfRow DEF IInv, Table, OneRow
    <3> QED
      BY <2>1, <3>1, <3>2, HeldHasRow DEF Lost
  <2>3. CASE \A r \in kept : r.msg # m
    <3>1. Receipts(kept)[m] = -1
      BY <2>3, ReceiptOfNone
    <3>2. m \in Lost(kept) \/ Receipts(rows)[m] = -1
      BY <2>3 DEF Lost, Promise!Held, Promise!Absent
    <3> QED
      BY <2>1, <3>1, <3>2
  <2> QED
    BY <2>2, <2>3
<1> QED
  BY <1>1 DEF Lost, Receipts, Promise!Without

(* A step that drops rows is an expiry of the relay.                       *)
LEMMA ShrinkRefines ==
    ASSUME IInv, Shrinks, acked' = acked
    PROVE  Promise!RelayNext
<1>1. Promise!Expire(Lost(rows'))
  BY ReceiptsKept DEF Shrinks, Promise!Expire
<1> QED
  BY <1>1, ReceiptsKept DEF Shrinks, Promise!RelayNext

(* A push is an expiry, followed by an acceptance if the row is new.       *)
LEMMA PushRefines ==
    ASSUME IInv, NEW m \in Messages, NEW ttl \in Ttls, NEW t \in Stamps, Push(m, ttl, t)
    PROVE  Promise!RelayNext
<1> DEFINE kept == Live(t)
           n == NewRow(m, ttl, t)
<1>1. kept \in SUBSET rows /\ UNCHANGED <<lastLease, acked>>
  BY DEF Live, Push
<1>2. CASE rows' = kept
  BY <1>1, <1>2, ShrinkRefines DEF Shrinks
<1>3. CASE ~Duplicate(m, kept) /\ rows' = kept \cup {n}
  <2>1. \A r \in kept : r.msg # m
    BY <1>3 DEF Duplicate
  <2>2. n.msg = m /\ n.lease = 0
    BY DEF NewRow, NoLease
  <2>3. OneRow(rows')
    BY PushStep DEF IInv, Table
  <2> HIDE DEF n, kept
  <2>4. Receipts(rows') = [Promise!Without(Lost(kept)) EXCEPT ![m] = 0]
    <3>1. ASSUME NEW k \in Messages
          PROVE  Receipts(rows')[k] = IF k = m THEN 0 ELSE Receipts(kept)[k]
      <4>1. CASE k = m
        BY <1>3, <2>2, <2>3, <4>1, ReceiptOfRow
      <4>2. CASE k # m /\ \E r \in kept : r.msg = k
        <5>1. PICK r \in kept : r.msg = k
          BY <4>2
        <5>2. Receipts(kept)[k] = r.lease
          BY <1>1, <5>1, ReceiptOfRow DEF IInv, Table, OneRow
        <5>3. Receipts(rows')[k] = r.lease
          BY <1>3, <2>3, <5>1, ReceiptOfRow
        <5> QED
          BY <4>2, <5>2, <5>3
      <4>3. CASE k # m /\ \A r \in kept : r.msg # k
        BY <1>3, <2>2, <4>3, ReceiptOfNone
      <4> QED
        BY <4>1, <4>2, <4>3
    <3>2. Receipts(kept) = Promise!Without(Lost(kept))
      BY <1>1, ReceiptsKept
    <3> QED
      BY <3>1, <3>2 DEF Receipts
  <2>5. m \notin Promise!Held \/ m \in Lost(kept)
    BY <2>1 DEF Lost
  <2>6. Promise!Accept(m, Lost(kept))
    BY <1>1, <2>4, <2>5 DEF Promise!Accept
  <2> QED
    BY <1>1, <2>6, ReceiptsKept DEF Promise!RelayNext
<1> QED
  BY <1>2, <1>3 DEF Push, PushRow

(* An ack takes out the one message under the receipt.                     *)
LEMMA AckRefines ==
    ASSUME IInv, NEW i \in Inboxes, NEW receipt \in 1 .. lastLease, Ack(i, receipt)
    PROVE  Promise!RelayNext
<1>1. PICK r \in rows : r \in UnderReceipt(i, receipt)
  BY DEF Ack, UnderReceipt, InInbox
<1>2. r.lease = receipt /\ receipt # 0 /\ r.msg \in Messages
  BY <1>1 DEF UnderReceipt, IInv, RowsTyped, Row
<1>3. UnderReceipt(i, receipt) = {r}
  BY <1>1, <1>2 DEF UnderReceipt, InInbox, IInv, Table, OwnReceipt, NoLease
<1>4. rows' = rows \ {r} /\ acked' = acked \cup {receipt} /\ lastLease' = lastLease
  BY <1>3 DEF Ack
<1>5. r.msg \in Promise!Held /\ Receipts(rows)[r.msg] = receipt
  BY <1>2, HeldHasRow
<1>6. Receipts(rows') = [Receipts(rows) EXCEPT ![r.msg] = -1]
  <2>1. Receipts(rows') = Promise!Without(Lost(rows'))
    BY <1>4, ReceiptsKept
  <2>2. Lost(rows') = {r.msg}
    <3>1. ASSUME NEW m \in Promise!Held, m # r.msg PROVE m \notin Lost(rows')
      <4>1. \E q \in rows : q.msg = m
        BY HeldHasRow DEF Promise!Held
      <4> QED
        BY <1>4, <3>1, <4>1 DEF Lost
    <3>2. r.msg \in Lost(rows')
      BY <1>4, <1>5 DEF Lost, IInv, Table, OneRow
    <3> QED
      BY <3>1, <3>2 DEF Lost
  <2> QED
    BY <2>1, <2>2 DEF Promise!Without, Promise!Absent, Receipts
<1>7. Promise!Acknowledge(r.msg)
  BY <1>2, <1>4, <1>5, <1>6 DEF Promise!Acknowledge, Promise!Absent
<1> QED
  BY <1>2, <1>7 DEF Promise!RelayNext

(* The relay's cardinality and injections are the ones used here.          *)
LEMMA SameNotions ==
    ASSUME NEW S, NEW T
    PROVE  Promise!Cardinality(S) = Cardinality(S) /\ Promise!Injection(S, T) = Injection(S, T)
<1>1. Promise!Cardinality(S) = Cardinality(S)
  BY DEF Cardinality, Promise!Cardinality
<1>2. Promise!Injection(S, T) = Injection(S, T)
  BY DEF Injection, Promise!Injection, IsInjective, Promise!IsInjective
<1> QED
  BY <1>1, <1>2

(* A pull that leases hands out the messages of its batch, each under a    *)
(* receipt of its own that nobody had before.                              *)
LEMMA PullRefines ==
    ASSUME IInv, NEW p \in Pollers, NEW t \in Stamps, PullLeases(p, t)
    PROVE  Promise!RelayNext
<1> DEFINE i == AuthorizedInbox(p)
           batch == Batch(i, t)
           B == {r.msg : r \in batch}
<1>1. i \in Inboxes
  BY MailboxConstants DEF AuthorizedInbox
<1>2. PICK kept \in Pruned(t) : rows' = Repulled(kept, batch, t)
  BY DEF PullLeases, Repulled
<1>3. kept \in SUBSET rows /\ batch \subseteq kept
  BY <1>1, BatchRows DEF Pruned, Live
<1>4. batch # {} /\ lastLease' = lastLease + Cardinality(batch) /\ acked' = acked
  BY DEF PullLeases
<1>5. OneRow(rows') /\ OwnReceipt(rows')
  BY PullLeasesStep DEF IInv, Table
<1>6. \A r \in batch : /\ r \in rows /\ r.msg \in Messages
                        /\ Up(r, batch, t) \in rows' /\ Up(r, batch, t).msg = r.msg
                        /\ Up(r, batch, t).lease \in (lastLease + 1) .. lastLease'
  <2> TAKE r \in batch
  <2>1. Up(r, batch, t) \in rows'
    BY <1>2 DEF Repulled, Leased, Up
  <2> QED
    BY <1>1, <1>4, <2>1, BatchRows, LeasedRow DEF Row
<1>7. IsFiniteSet(batch)
  BY <1>1, BatchFinite
<1>8. \A x \in rows' : \/ x \in kept /\ x \notin batch
                       \/ \E r \in batch : x = Up(r, batch, t)
  BY <1>1, <1>2, <1>3, Origin
<1>8a. kept \ batch \subseteq rows'
  BY <1>2 DEF Repulled
<1> HIDE DEF batch, i
<1>9. B \in SUBSET (Promise!Held \ Lost(kept)) /\ B # {}
  BY <1>3, <1>4, <1>6, HeldHasRow DEF Lost, Promise!Held
<1>10. Cardinality(B) = Cardinality(batch)
  <2> DEFINE f == [r \in batch |-> r.msg]
  <2>1. f \in Bijection(batch, B)
    <3>1. f \in [batch -> B]
      OBVIOUS
    <3>2. \A r, q \in batch : f[r] = f[q] => r = q
      BY <1>6 DEF IInv, Table, OneRow
    <3>3. \A m \in B : \E r \in batch : f[r] = m
      OBVIOUS
    <3> HIDE DEF f, B
    <3> QED
      BY <3>1, <3>2, <3>3 DEF Bijection, Injection, IsInjective, Surjection
  <2> QED
    BY <1>7, <2>1, FS_Bijection DEF ExistsBijection
<1> DEFINE receipt == [m \in B |-> Receipts(rows')[m]]
<1>11. \A r \in batch : receipt[r.msg] = Up(r, batch, t).lease
  <2> TAKE r \in batch
  <2> DEFINE n == Up(r, batch, t)
  <2>1. n \in rows' /\ n.msg = r.msg /\ r.msg \in Messages
    BY <1>6
  <2> HIDE DEF n
  <2>2. Receipts(rows')[n.msg] = n.lease
    BY <1>5, <2>1, ReceiptOfRow
  <2> QED
    BY <2>1, <2>2 DEF n
<1>12. receipt \in Injection(B, (lastLease + 1) .. lastLease')
  <2>1. receipt \in [B -> (lastLease + 1) .. lastLease']
    BY <1>6, <1>11
  <2>2. ASSUME NEW k \in B, NEW m \in B, receipt[k] = receipt[m] PROVE k = m
    <3>1. PICK r \in batch : k = r.msg
      OBVIOUS
    <3>2. PICK q \in batch : m = q.msg
      OBVIOUS
    <3>3. Up(r, batch, t).lease = Up(q, batch, t).lease
      BY <1>11, <2>2, <3>1, <3>2
    <3>4. Up(r, batch, t).lease # NoLease
      BY <1>6 DEF NoLease, IInv, Typed
    <3>5. Up(r, batch, t) = Up(q, batch, t)
      BY <1>5, <1>6, <3>3, <3>4 DEF OwnReceipt
    <3> QED
      BY <1>6, <3>1, <3>2, <3>5
  <2> HIDE DEF receipt, B
  <2> QED
    BY <2>1, <2>2 DEF Injection, IsInjective
<1>13. Receipts(rows') = [m \in Messages |->
                            IF m \in B THEN receipt[m] ELSE Promise!Without(Lost(kept))[m]]
  <2>1. Receipts(kept) = Promise!Without(Lost(kept))
    BY <1>3, ReceiptsKept
  <2>2. ASSUME NEW m \in Messages, m \notin B
        PROVE  Receipts(rows')[m] = Receipts(kept)[m]
    <3>1. CASE \E r \in kept : r.msg = m
      <4>1. PICK r \in kept : r.msg = m
        BY <3>1
      <4>2. r \notin batch /\ r \in rows'
        BY <1>8a, <2>2, <4>1
      <4>3. Receipts(rows')[m] = r.lease
        BY <1>5, <4>1, <4>2, ReceiptOfRow
      <4>4. Receipts(kept)[m] = r.lease
        BY <1>3, <4>1, ReceiptOfRow DEF IInv, Table, OneRow
      <4> QED
        BY <4>3, <4>4
    <3>2. CASE \A r \in kept : r.msg # m
      <4>1. \A x \in rows' : x.msg # m
        BY <1>6, <1>8, <2>2, <3>2
      <4> QED
        BY <3>2, <4>1, ReceiptOfNone
    <3> QED
      BY <3>1, <3>2
  <2>3. Receipts(rows') = [m \in Messages |-> Receipts(rows')[m]]
    BY DEF Receipts
  <2> HIDE DEF B
  <2>4. \A m \in Messages :
          Receipts(rows')[m] = IF m \in B THEN receipt[m] ELSE Promise!Without(Lost(kept))[m]
    BY <2>1, <2>2
  <2> HIDE DEF receipt
  <2> QED
    BY <2>3, <2>4
<1>14. Promise!HandOut(B, Lost(kept))
  <2> HIDE DEF B, receipt
  <2> QED
    BY <1>4, <1>9, <1>10, <1>12, <1>13, SameNotions DEF Promise!HandOut
<1> HIDE DEF B
<1> QED
  BY <1>3, <1>9, <1>14, ReceiptsKept DEF Promise!RelayNext

(* The mailbox implements the relay: whatever push, pull, ack, cleanup and *)
(* restart do to the messages table, a message is held once, leaves under  *)
(* fresh receipts, and is lost only by expiry or the ack of its latest     *)
(* receipt.                                                                *)
THEOREM MailboxImplementsRelay == Spec => RelayPromise
<1>1. Init => Promise!RelayInit
  BY DEF Init, Promise!RelayInit, Promise!Absent, Receipts, RowsOf
<1>2. IInv /\ [Next]_vars => [Promise!RelayNext]_(Promise!relayVars)
  BY StepKinds, PushRefines, PullRefines, AckRefines, ShrinkRefines
<1> QED
  BY <1>1, <1>2, IInvAlways, PTL DEF Spec, RelayPromise, Promise!RelaySpec

-----------------------------------------------------------------------------
(* Rows whose ids are among those of S are no more than S.                 *)
LEMMA NoMoreRows ==
    ASSUME NEW R, NEW S, IsFiniteSet(R), IsFiniteSet(S), DistinctIds(R),
           \A x \in R : \E y \in S : y.id = x.id
    PROVE  Cardinality(R) <= Cardinality(S)
<1> DEFINE f == [x \in R |-> CHOOSE y \in S : y.id = x.id]
<1>1. \A x \in R : f[x] \in S /\ f[x].id = x.id
  OBVIOUS
<1>2. f \in [R -> S]
  BY <1>1
<1>3. \A x, y \in R : f[x] = f[y] => x = y
  BY <1>1 DEF DistinctIds
<1> HIDE DEF f
<1>4. f \in Injection(R, S)
  BY <1>2, <1>3 DEF Injection, IsInjective
<1> QED
  BY <1>4, FS_Injection

(* Every row of an inbox was there, in the same inbox, before the step.    *)
SameRows ==
    \A x \in rows' : \E y \in rows : y.id = x.id /\ y.msg = x.msg

LEMMA QuotaKept ==
    ASSUME IInv, IInv', RowsWithinQuota, SameRows
    PROVE  RowsWithinQuota'
<1>1. \A i \in Inboxes : /\ InInbox(i, rows) \in SUBSET rows
                         /\ InInbox(i, rows') \in SUBSET rows'
  BY DEF InInbox
<1>2. IsFiniteSet(rows) /\ IsFiniteSet(rows') /\ DistinctIds(rows')
  BY DEF IInv, Table
<1>3. \A R \in SUBSET rows : IsFiniteSet(R) /\ Cardinality(R) \in Nat
  BY <1>2, FS_Subset, FS_CardinalityType
<1>4. \A R \in SUBSET rows' : IsFiniteSet(R) /\ Cardinality(R) \in Nat /\ DistinctIds(R)
  BY <1>2, FS_Subset, FS_CardinalityType DEF DistinctIds
<1>5. MaxRowsGlobal \in Nat /\ MaxPerInbox \in Nat
  BY MailboxConstants
<1>6. Cardinality(rows') <= Cardinality(rows)
  BY <1>2, NoMoreRows DEF SameRows
<1>7. Cardinality(rows') <= MaxRowsGlobal
  BY <1>3, <1>4, <1>5, <1>6 DEF RowsWithinQuota
<1>8. ASSUME NEW i \in Inboxes PROVE Cardinality(InInbox(i, rows')) <= MaxPerInbox
  <2>1. \A x \in InInbox(i, rows') : \E y \in InInbox(i, rows) : y.id = x.id
    BY DEF SameRows, InInbox
  <2>2. Cardinality(InInbox(i, rows')) <= Cardinality(InInbox(i, rows))
    BY <1>1, <1>3, <1>4, <2>1, NoMoreRows
  <2>3. Cardinality(InInbox(i, rows)) <= MaxPerInbox
    BY DEF RowsWithinQuota
  <2> QED
    BY <1>1, <1>3, <1>4, <1>5, <2>2, <2>3
<1> QED
  BY <1>7, <1>8 DEF RowsWithinQuota

(* A push of a new row is checked against both quotas first.               *)
LEMMA PushQuota ==
    ASSUME IInv, RowsWithinQuota, NEW m \in Messages, NEW ttl \in Ttls, NEW t \in Stamps,
           Push(m, ttl, t)
    PROVE  RowsWithinQuota'
<1>1. IInv'
  BY PushStep
<1>2. CASE rows' = Live(t)
  BY <1>1, <1>2, QuotaKept DEF SameRows, Live
<1>3. CASE WithinQuota(m, Live(t)) /\ rows' = Live(t) \cup {NewRow(m, ttl, t)}
  <2> DEFINE kept == Live(t)
             n == NewRow(m, ttl, t)
  <2>1. IsFiniteSet(kept) /\ kept \in SUBSET rows
    BY FS_Subset DEF IInv, Table, Live
  <2>2. n.msg = m
    BY DEF NewRow
  <2> HIDE DEF n, kept
  <2>3. \A R \in SUBSET rows : IsFiniteSet(R) /\ Cardinality(R) \in Nat
    BY FS_Subset, FS_CardinalityType DEF IInv, Table
  <2>4. ASSUME NEW R \in SUBSET rows, NEW q \in Nat, Cardinality(R) < q
        PROVE  Cardinality(R \cup {n}) <= q
    <3>1. Cardinality(R \cup {n}) = IF n \in R THEN Cardinality(R) ELSE Cardinality(R) + 1
      BY <2>3, FS_AddElement
    <3> QED
      BY <2>3, <2>4, <3>1
  <2>5. MaxRowsGlobal \in Nat /\ MaxPerInbox \in Nat
    BY MailboxConstants
  <2>6. Cardinality(rows') <= MaxRowsGlobal
    BY <1>3, <2>1, <2>4, <2>5 DEF WithinQuota, kept, n
  <2>7. ASSUME NEW i \in Inboxes PROVE Cardinality(InInbox(i, rows')) <= MaxPerInbox
    <3>1. CASE i = Inbox[m]
      <4>1. InInbox(i, rows') = InInbox(i, kept) \cup {n}
        BY <1>3, <2>2, <3>1 DEF InInbox, kept, n
      <4>2. InInbox(i, kept) \in SUBSET rows /\ Cardinality(InInbox(i, kept)) < MaxPerInbox
        BY <1>3, <2>1, <3>1 DEF WithinQuota, InInbox, kept
      <4> QED
        BY <2>4, <2>5, <4>1, <4>2
    <3>2. CASE i # Inbox[m]
      <4>1. InInbox(i, rows') \subseteq InInbox(i, rows) /\ InInbox(i, rows) \in SUBSET rows
        BY <1>3, <2>1, <2>2, <3>2 DEF InInbox, kept, n
      <4>2. Cardinality(InInbox(i, rows')) <= Cardinality(InInbox(i, rows))
        BY <2>3, <4>1, FS_Subset
      <4>3. InInbox(i, rows') \in SUBSET rows
        BY <4>1
      <4> QED
        BY <2>3, <2>5, <4>1, <4>2, <4>3 DEF RowsWithinQuota
    <3> QED
      BY <3>1, <3>2
  <2> QED
    BY <2>6, <2>7 DEF RowsWithinQuota
<1> QED
  BY <1>2, <1>3 DEF Push, PushRow

(* A lease replaces rows one for one.                                      *)
LEMMA PullKeepsRows ==
    ASSUME IInv, NEW p \in Pollers, NEW t \in Stamps, PullLeases(p, t)
    PROVE  SameRows
<1> DEFINE i == AuthorizedInbox(p)
           batch == Batch(i, t)
<1>1. i \in Inboxes
  BY MailboxConstants DEF AuthorizedInbox
<1>2. PICK kept \in Pruned(t) : rows' = Repulled(kept, batch, t)
  BY DEF PullLeases, Repulled
<1>3. kept \in SUBSET rows
  BY DEF Pruned, Live
<1>4. \A x \in rows' : x \in rows \/ \E r \in batch : x = Up(r, batch, t)
  BY <1>1, <1>2, <1>3, Origin
<1>5. \A r \in batch : r \in rows /\ Up(r, batch, t).id = r.id /\ Up(r, batch, t).msg = r.msg
  BY <1>1, BatchRows, LeasedRow
<1> QED
  BY <1>4, <1>5 DEF SameRows

LEMMA PullQuota ==
    ASSUME IInv, RowsWithinQuota, NEW p \in Pollers, NEW t \in Stamps, PullLeases(p, t)
    PROVE  RowsWithinQuota'
BY PullKeepsRows, PullLeasesStep, QuotaKept

(* Every row of the messages table is well formed and expires within the   *)
(* server's maximum ttl, and push_sync takes neither the table nor an      *)
(* inbox over its quota of rows, whatever is leased, expired or repeated.  *)
THEOREM TableWithinLimits == Spec => [](RowsTyped /\ RowsWithinQuota)
<1>1. Init => RowsWithinQuota
  BY MailboxConstants, FS_EmptySet DEF Init, RowsWithinQuota, InInbox
<1>2. IInv /\ RowsWithinQuota /\ [Next]_vars => RowsWithinQuota'
  <2> SUFFICES ASSUME IInv, RowsWithinQuota, [Next]_vars PROVE RowsWithinQuota'
    OBVIOUS
  <2>1. ASSUME IInv', Shrinks PROVE RowsWithinQuota'
    BY <2>1, QuotaKept DEF Shrinks, SameRows
  <2> QED
    BY <2>1, StepKinds, PushQuota, PullQuota, AckStep
<1>3. IInv => RowsTyped
  BY DEF IInv
<1> QED
  BY <1>1, <1>2, <1>3, IInvAlways, PTL DEF Spec
-----------------------------------------------------------------------------
(* The library's induction theorems cannot be instantiated, but that < is  *)
(* well founded is a fact about a set: a claim that fails for some number  *)
(* fails for a least one.                                                  *)
LEMMA LeastNumber ==
    ASSUME NEW T \in SUBSET Nat, T # {}
    PROVE  \E n \in T : \A m \in T : n <= m
<1> DEFINE LT == {p \in Nat \X Nat : p[1] < p[2]}
<1>1. IsWellFoundedOn(LT, Nat)
  BY NatLessThanWellFounded, Zenon DEF OpToRel
<1> HIDE DEF LT
<1>2. PICK n \in T : \A m \in T : ~ (<<m, n>> \in LT)
  BY <1>1, WFMin
<1>3. \A m \in T : ~ (m < n)
  BY <1>2 DEF LT
<1> QED
  BY <1>3

(* Removing a row makes a finite set smaller.                              *)
LEMMA OneLess ==
    ASSUME NEW s, IsFiniteSet(s), NEW x \in s
    PROVE  /\ IsFiniteSet(s \ {x})
           /\ Cardinality(s) \in Nat /\ Cardinality(s \ {x}) \in Nat
           /\ Cardinality(s \ {x}) = Cardinality(s) - 1
BY FS_RemoveElement, FS_CardinalityType

(* The sum of the lengths, row after row.                                  *)
First(s) == CHOOSE x \in s : TRUE
Added(len, f, s) == IF s = {} THEN 0 ELSE len[First(s).msg] + f[s \ {First(s)}]

LEMMA FirstIn == ASSUME NEW s, s # {} PROVE First(s) \in s
BY DEF First

LEMMA TotalByFold ==
    ASSUME NEW len, NEW R
    PROVE  Total(len, R) = (CHOOSE f : f = [s \in SUBSET R |-> Added(len, f, s)])[R]
BY DEF Total, MapThenSumSet, MapThenFoldSet, First, Added

IsSum(len, f, R) == f = [s \in SUBSET R |-> Added(len, f, s)]

(* There is such a sum: what adds up the sets of up to n - 1 rows can be   *)
(* extended to those of n rows.                                            *)
AddsUpTo(len, f, n, R) ==
    /\ f \in [SUBSET R -> Nat]
    /\ \A s \in SUBSET R : Cardinality(s) <= n => f[s] = Added(len, f, s)

LEMMA SumExists ==
    ASSUME NEW len \in [Messages -> Nat], NEW R \in SUBSET Row, IsFiniteSet(R)
    PROVE  \E f \in [SUBSET R -> Nat] : IsSum(len, f, R)
<1> DEFINE T == {n \in Nat : ~ \E f : AddsUpTo(len, f, n, R)}
<1>1. \A s \in SUBSET R : IsFiniteSet(s) /\ Cardinality(s) \in Nat /\ Cardinality(s) <= Cardinality(R)
  BY FS_Subset, FS_CardinalityType
<1>2. \A s \in SUBSET R : s # {} =>
          /\ First(s) \in s /\ s \ {First(s)} \in SUBSET R
          /\ len[First(s).msg] \in Nat
          /\ Cardinality(s \ {First(s)}) = Cardinality(s) - 1
  <2> SUFFICES ASSUME NEW s \in SUBSET R, s # {}
               PROVE  /\ First(s) \in s /\ s \ {First(s)} \in SUBSET R
                      /\ len[First(s).msg] \in Nat
                      /\ Cardinality(s \ {First(s)}) = Cardinality(s) - 1
    OBVIOUS
  <2>1. First(s) \in s
    BY FirstIn
  <2>2. First(s).msg \in Messages
    BY <2>1 DEF Row
  <2> QED
    BY <1>1, <2>1, <2>2, OneLess
<1>3. T = {}
  <2> SUFFICES ASSUME T # {} PROVE FALSE
    OBVIOUS
  <2>1. PICK n \in T : \A m \in T : n <= m
    BY LeastNumber
  <2>2. CASE n = 0
    <3> DEFINE g == [s \in SUBSET R |-> 0]
    <3>1. ASSUME NEW s \in SUBSET R, Cardinality(s) <= 0 PROVE g[s] = Added(len, g, s)
      <4>1. s = {}
        BY <1>1, <3>1, FS_EmptySet
      <4> QED
        BY <4>1 DEF Added
    <3>2. AddsUpTo(len, g, 0, R)
      BY <3>1 DEF AddsUpTo
    <3> QED
      BY <2>1, <2>2, <3>2
  <2>3. CASE n # 0
    <3>1. n \in Nat /\ n - 1 \in Nat /\ n - 1 \notin T
      BY <2>1, <2>3
    <3>2. PICK f : AddsUpTo(len, f, n - 1, R)
      <4> DEFINE k == n - 1
      <4> HIDE DEF k
      <4>1. k \in Nat /\ k \notin T
        BY <3>1 DEF k
      <4>2. \E f : AddsUpTo(len, f, k, R)
        BY <4>1
      <4> QED
        BY <4>2 DEF k
    <3> DEFINE g == [s \in SUBSET R |-> IF Cardinality(s) <= n THEN Added(len, f, s) ELSE 0]
    <3>3. ASSUME NEW s \in SUBSET R PROVE Added(len, f, s) \in Nat
      <4>1. CASE s = {}
        BY <4>1 DEF Added
      <4>2. CASE s # {}
        <5>1. len[First(s).msg] \in Nat /\ f[s \ {First(s)}] \in Nat
          BY <1>2, <3>2, <4>2 DEF AddsUpTo
        <5> QED
          BY <4>2, <5>1 DEF Added
      <4> QED
        BY <4>1, <4>2
    <3>4. g \in [SUBSET R -> Nat]
      BY <3>3
    <3>5. ASSUME NEW s \in SUBSET R, Cardinality(s) <= n PROVE g[s] = Added(len, g, s)
      <4>1. CASE s = {}
        BY <3>5, <4>1 DEF Added
      <4>2. CASE s # {}
        <5> DEFINE u == s \ {First(s)}
        <5>1. u \in SUBSET R /\ Cardinality(u) <= n - 1 /\ Cardinality(u) <= n
          BY <1>1, <1>2, <3>1, <3>5, <4>2
        <5> HIDE DEF u
        <5>2. g[u] = Added(len, f, u) /\ f[u] = Added(len, f, u)
          BY <3>2, <5>1 DEF AddsUpTo
        <5>3. g[s] = Added(len, f, s)
          BY <3>5
        <5> HIDE DEF g
        <5> QED
          BY <4>2, <5>2, <5>3 DEF Added, u
      <4> QED
        BY <4>1, <4>2
    <3> HIDE DEF g
    <3>6. AddsUpTo(len, g, n, R)
      BY <3>4, <3>5 DEF AddsUpTo
    <3> QED
      BY <2>1, <3>6
  <2> QED
    BY <2>2, <2>3
<1>4. PICK f : AddsUpTo(len, f, Cardinality(R), R)
  BY <1>1, <1>3
<1>5. \A s \in SUBSET R : f[s] = Added(len, f, s)
  BY <1>1, <1>4 DEF AddsUpTo
<1>6. f \in [SUBSET R -> Nat] /\ IsSum(len, f, R)
  BY <1>4, <1>5 DEF AddsUpTo, IsSum
<1> QED
  BY <1>6

(* ... and only one.                                                       *)
LEMMA SumUnique ==
    ASSUME NEW len \in [Messages -> Nat], NEW R \in SUBSET Row, IsFiniteSet(R), NEW S \in SUBSET R,
           NEW f, IsSum(len, f, R), NEW g, IsSum(len, g, S)
    PROVE  \A s \in SUBSET S : f[s] = g[s]
<1> DEFINE Differ(s) == f[s] # g[s]
           T == {n \in Nat : \E s \in SUBSET S : Differ(s) /\ n = Cardinality(s)}
<1> HIDE DEF Differ
<1>a. \A s \in SUBSET S : Differ(s) => Cardinality(s) \in T
  BY FS_Subset, FS_CardinalityType
<1> SUFFICES ASSUME T # {} PROVE FALSE
  BY <1>a DEF Differ
<1>1. \A s \in SUBSET S : IsFiniteSet(s) /\ Cardinality(s) \in Nat /\ s \in SUBSET R
  BY FS_Subset, FS_CardinalityType
<1>3. PICK n \in T : \A m \in T : n <= m
  BY LeastNumber
<1>4. PICK s \in SUBSET S : f[s] # g[s] /\ n = Cardinality(s)
  BY <1>3 DEF Differ
<1>5. f[s] = Added(len, f, s) /\ g[s] = Added(len, g, s)
  BY <1>1 DEF IsSum
<1>6. s # {}
  BY <1>4, <1>5 DEF Added
<1>7. /\ s \ {First(s)} \in SUBSET S
      /\ Cardinality(s \ {First(s)}) = Cardinality(s) - 1
      /\ Cardinality(s) \in Nat /\ Cardinality(s \ {First(s)}) \in Nat
  BY <1>1, <1>6, FirstIn, OneLess
<1>8. f[s \ {First(s)}] = g[s \ {First(s)}]
  <2>1. Cardinality(s \ {First(s)}) \notin T
    <3> HIDE DEF T
    <3>1. ~ (n <= Cardinality(s \ {First(s)}))
      BY <1>4, <1>7
    <3> QED
      BY <1>3, <3>1
  <2> QED
    BY <1>a, <1>7, <2>1 DEF Differ
<1> QED
  BY <1>4, <1>5, <1>6, <1>8 DEF Added

(* Hence the total of a set of rows is that of its first row and of the    *)
(* others.                                                                 *)
LEMMA TotalFirst ==
    ASSUME NEW len \in [Messages -> Nat], NEW R \in SUBSET Row, IsFiniteSet(R)
    PROVE  /\ Total(len, R) \in Nat
           /\ R = {} => Total(len, R) = 0
           /\ R # {} => Total(len, R) = len[First(R).msg] + Total(len, R \ {First(R)})
<1> DEFINE F(S) == CHOOSE f : IsSum(len, f, S)
<1>1. ASSUME NEW S \in SUBSET R PROVE IsSum(len, F(S), S) /\ Total(len, S) = F(S)[S]
  <2>1. IsFiniteSet(S) /\ S \in SUBSET Row
    BY FS_Subset
  <2>2. \E f : IsSum(len, f, S)
    BY <2>1, SumExists
  <2>3. IsSum(len, F(S), S)
    BY <2>2
  <2>4. Total(len, S) = F(S)[S]
    BY TotalByFold, Zenon DEF IsSum
  <2> QED
    BY <2>3, <2>4
<1> HIDE DEF F
<1>2. PICK f \in [SUBSET R -> Nat] : IsSum(len, f, R)
  BY SumExists
<1>3. ASSUME NEW S \in SUBSET R PROVE Total(len, S) = f[S]
  <2>1. \A s \in SUBSET S : f[s] = F(S)[s]
    BY <1>1, <1>2, SumUnique
  <2> QED
    BY <1>1, <2>1
<1>4. f[R] = Added(len, f, R) /\ f[R] \in Nat
  BY <1>2 DEF IsSum
<1>5. R # {} => R \ {First(R)} \in SUBSET R
  OBVIOUS
<1> QED
  BY <1>3, <1>4, <1>5 DEF Added
(* ... and, in whatever order they are added up, that of any row and of    *)
(* the others.                                                             *)
LEMMA TotalOfRow ==
    ASSUME NEW len \in [Messages -> Nat], NEW R \in SUBSET Row, IsFiniteSet(R), NEW r \in R
    PROVE  Total(len, R) = len[r.msg] + Total(len, R \ {r})
<1> DEFINE Fails(s) == \E x \in s : Total(len, s) # len[x.msg] + Total(len, s \ {x})
           T == {n \in Nat : \E s \in SUBSET R : Fails(s) /\ n = Cardinality(s)}
<1>1. \A s \in SUBSET R : IsFiniteSet(s) /\ Cardinality(s) \in Nat /\ Total(len, s) \in Nat
  <2>1. \A s \in SUBSET R : IsFiniteSet(s) /\ Cardinality(s) \in Nat /\ s \in SUBSET Row
    BY FS_Subset, FS_CardinalityType
  <2> QED
    BY <2>1, TotalFirst
<1>2. \A s \in SUBSET R : \A x \in s : len[x.msg] \in Nat
  BY DEF Row
<1>3. \A s \in SUBSET R : Fails(s) => Cardinality(s) \in T
  BY <1>1
<1>4. ASSUME NEW s \in SUBSET R, Fails(s), \A m \in T : Cardinality(s) <= m PROVE FALSE
  <2>1. PICK x \in s : Total(len, s) # len[x.msg] + Total(len, s \ {x})
    BY <1>4
  <2> DEFINE y == First(s)
  <2>2. y \in s /\ Total(len, s) = len[y.msg] + Total(len, s \ {y})
    BY <1>1, <2>1, TotalFirst, FirstIn
  <2> HIDE DEF y, Fails
  <2>3. x # y
    BY <2>1, <2>2
  <2>4. ASSUME NEW z \in s PROVE ~Fails(s \ {z})
    <3> DEFINE u == s \ {z}
    <3>1. /\ u \in SUBSET R
          /\ Cardinality(u) \in Nat /\ Cardinality(s) \in Nat /\ Cardinality(u) = Cardinality(s) - 1
      BY <1>1, OneLess
    <3> HIDE DEF u, T
    <3>2. Cardinality(u) \notin T
      BY <1>4, <3>1
    <3>3. ~Fails(u)
      BY <1>3, <3>1, <3>2
    <3> QED
      BY <3>3 DEF u
  <2> DEFINE rest == s \ {x, y}
  <2>5. Total(len, s \ {x}) = len[y.msg] + Total(len, rest)
    <3>1. (s \ {x}) \ {y} = rest /\ y \in s \ {x}
      BY <2>2, <2>3
    <3> QED
      BY <2>4, <3>1 DEF Fails
  <2>6. Total(len, s \ {y}) = len[x.msg] + Total(len, rest)
    <3>1. (s \ {y}) \ {x} = rest /\ x \in s \ {y}
      BY <2>3
    <3> QED
      BY <2>2, <2>4, <3>1 DEF Fails
  <2>7. Total(len, rest) \in Nat /\ len[x.msg] \in Nat /\ len[y.msg] \in Nat
    BY <1>1, <1>2, <2>2
  <2> HIDE DEF rest
  <2> QED
    BY <2>1, <2>2, <2>5, <2>6, <2>7
<1> HIDE DEF Fails
<1>5. ASSUME T # {} PROVE FALSE
  <2>1. PICK n \in T : \A m \in T : n <= m
    BY <1>5, LeastNumber
  <2>2. PICK s \in SUBSET R : Fails(s) /\ n = Cardinality(s)
    BY <2>1
  <2> QED
    BY <1>4, <2>1, <2>2
<1>6. ~Fails(R)
  BY <1>3, <1>5
<1> QED
  BY <1>6 DEF Fails

(* A row more adds its length.                                             *)
LEMMA TotalAdd ==
    ASSUME NEW len \in [Messages -> Nat], NEW R \in SUBSET Row, IsFiniteSet(R),
           NEW r \in Row, r \notin R
    PROVE  Total(len, R \cup {r}) = Total(len, R) + len[r.msg]
<1>1. R \cup {r} \in SUBSET Row /\ IsFiniteSet(R \cup {r}) /\ (R \cup {r}) \ {r} = R
  BY FS_AddElement
<1>2. Total(len, R \cup {r}) = len[r.msg] + Total(len, R)
  BY <1>1, TotalOfRow
<1>3. Total(len, R) \in Nat /\ len[r.msg] \in Nat
  BY TotalFirst DEF Row
<1> QED
  BY <1>2, <1>3

(* Rows that are in S up to their lease are no longer than S.              *)
Within(R, S) == \A x \in R : \E y \in S : y.id = x.id /\ y.msg = x.msg

LEMMA NoMoreTotal ==
    ASSUME NEW len \in [Messages -> Nat], NEW R \in SUBSET Row, NEW S \in SUBSET Row,
           IsFiniteSet(R), IsFiniteSet(S), DistinctIds(R), Within(R, S)
    PROVE  Total(len, R) <= Total(len, S)
<1> DEFINE More(A, B) == Within(A, B) /\ ~(Total(len, A) <= Total(len, B))
           T == {n \in Nat : \E A \in SUBSET R, B \in SUBSET S : More(A, B) /\ n = Cardinality(A)}
<1>1. \A A \in SUBSET R : IsFiniteSet(A) /\ Cardinality(A) \in Nat /\ Total(len, A) \in Nat
  <2>1. \A A \in SUBSET R : IsFiniteSet(A) /\ Cardinality(A) \in Nat /\ A \in SUBSET Row
    BY FS_Subset, FS_CardinalityType
  <2> QED
    BY <2>1, TotalFirst
<1>2. \A B \in SUBSET S : IsFiniteSet(B) /\ Total(len, B) \in Nat
  <2>1. \A B \in SUBSET S : IsFiniteSet(B) /\ B \in SUBSET Row
    BY FS_Subset
  <2> QED
    BY <2>1, TotalFirst
<1>3. \A A \in SUBSET R, B \in SUBSET S : More(A, B) => Cardinality(A) \in T
  BY <1>1
<1>4. ASSUME NEW A \in SUBSET R, NEW B \in SUBSET S, More(A, B), \A m \in T : Cardinality(A) <= m
      PROVE  FALSE
  <2>1. A # {}
    BY <1>1, <1>2, <1>4, TotalFirst
  <2>2. PICK x \in A : TRUE
    BY <2>1
  <2>3. PICK y \in B : y.id = x.id /\ y.msg = x.msg
    BY <1>4 DEF Within
  <2> DEFINE C == A \ {x}
             D == B \ {y}
  <2>4. Within(C, D)
    BY <1>4, <2>3 DEF Within, DistinctIds
  <2>5. Total(len, A) = len[x.msg] + Total(len, C) /\ Total(len, B) = len[x.msg] + Total(len, D)
    BY <1>1, <1>2, <2>3, TotalOfRow
  <2>6. /\ C \in SUBSET R /\ D \in SUBSET S
        /\ Cardinality(C) \in Nat /\ Cardinality(A) \in Nat /\ Cardinality(C) = Cardinality(A) - 1
    BY <1>1, OneLess
  <2>7. len[x.msg] \in Nat
    BY DEF Row
  <2> HIDE DEF C, D, T
  <2>8. Cardinality(C) \notin T
    BY <1>4, <2>6
  <2>9. Total(len, C) <= Total(len, D)
    BY <1>3, <2>4, <2>6, <2>8
  <2>10. Total(len, C) \in Nat /\ Total(len, D) \in Nat
    BY <1>1, <1>2, <2>6
  <2> QED
    BY <1>4, <2>5, <2>7, <2>9, <2>10
<1> HIDE DEF More
<1>5. ASSUME T # {} PROVE FALSE
  <2>1. PICK n \in T : \A m \in T : n <= m
    BY <1>5, LeastNumber
  <2>2. PICK A \in SUBSET R, B \in SUBSET S : More(A, B) /\ n = Cardinality(A)
    BY <2>1
  <2> QED
    BY <1>4, <2>1, <2>2
<1>6. ~More(R, S)
  BY <1>3, <1>5
<1> QED
  BY <1>6 DEF More

(* A character is at most four bytes, and so is a set of rows.             *)
LEMMA FourBytes ==
    ASSUME NEW R \in SUBSET Row, IsFiniteSet(R)
    PROVE  Total(ByteLen, R) <= 4 * Total(CharLen, R)
<1> DEFINE Longer(s) == ~(Total(ByteLen, s) <= 4 * Total(CharLen, s))
           T == {n \in Nat : \E s \in SUBSET R : Longer(s) /\ n = Cardinality(s)}
<1>1. \A s \in SUBSET R : /\ IsFiniteSet(s) /\ Cardinality(s) \in Nat
                         /\ Total(ByteLen, s) \in Nat /\ Total(CharLen, s) \in Nat
  <2>1. \A s \in SUBSET R : IsFiniteSet(s) /\ Cardinality(s) \in Nat /\ s \in SUBSET Row
    BY FS_Subset, FS_CardinalityType
  <2> QED
    BY <2>1, TotalFirst, MailboxConstants
<1>2. \A s \in SUBSET R : Longer(s) => Cardinality(s) \in T
  BY <1>1
<1>3. ASSUME NEW s \in SUBSET R, Longer(s), \A m \in T : Cardinality(s) <= m PROVE FALSE
  <2>1. s # {}
    <3>1. Total(ByteLen, {}) = 0 /\ Total(CharLen, {}) = 0
      BY TotalFirst, FS_EmptySet, MailboxConstants
    <3> QED
      BY <1>3, <3>1
  <2>2. PICK x \in s : TRUE
    BY <2>1
  <2> DEFINE u == s \ {x}
  <2>3. /\ Total(ByteLen, s) = ByteLen[x.msg] + Total(ByteLen, u)
        /\ Total(CharLen, s) = CharLen[x.msg] + Total(CharLen, u)
    BY <1>1, TotalOfRow, MailboxConstants
  <2>4. /\ u \in SUBSET R
        /\ Cardinality(u) \in Nat /\ Cardinality(s) \in Nat /\ Cardinality(u) = Cardinality(s) - 1
    BY <1>1, OneLess
  <2>5. ByteLen[x.msg] <= 4 * CharLen[x.msg] /\ ByteLen[x.msg] \in Nat /\ CharLen[x.msg] \in Nat
    BY MailboxConstants DEF Row
  <2> HIDE DEF u, T
  <2>6. Cardinality(u) \notin T
    BY <1>3, <2>4
  <2>7. Total(ByteLen, u) <= 4 * Total(CharLen, u)
    BY <1>2, <2>4, <2>6
  <2>8. Total(ByteLen, u) \in Nat /\ Total(CharLen, u) \in Nat
    BY <1>1, <2>4
  <2> QED
    BY <1>3, <2>3, <2>5, <2>7, <2>8
<1> HIDE DEF Longer
<1>4. ASSUME T # {} PROVE FALSE
  <2>1. PICK n \in T : \A m \in T : n <= m
    BY <1>4, LeastNumber
  <2>2. PICK s \in SUBSET R : Longer(s) /\ n = Cardinality(s)
    BY <2>1
  <2> QED
    BY <1>3, <2>1, <2>2
<1>5. ~Longer(R)
  BY <1>2, <1>4
<1> QED
  BY <1>5 DEF Longer

-----------------------------------------------------------------------------
(* What the quota is checked against: the characters of an inbox.          *)
Chars(i, R) == Total(CharLen, InInbox(i, R))
CharsWithinQuota == \A i \in Inboxes : Chars(i, rows) <= MaxBytesPerInbox

(* A table whose rows were all there stays within the quota.               *)
LEMMA CharsKept ==
    ASSUME IInv, IInv', CharsWithinQuota, SameRows
    PROVE  CharsWithinQuota'
<1> SUFFICES ASSUME NEW i \in Inboxes PROVE Chars(i, rows') <= MaxBytesPerInbox
  BY DEF CharsWithinQuota
<1> DEFINE A == InInbox(i, rows')
           B == InInbox(i, rows)
<1>1. A \in SUBSET rows' /\ B \in SUBSET rows /\ Within(A, B)
  BY DEF InInbox, Within, SameRows
<1>2. /\ rows \in SUBSET Row /\ IsFiniteSet(rows)
      /\ rows' \in SUBSET Row /\ IsFiniteSet(rows') /\ DistinctIds(rows')
  BY DEF IInv, RowsTyped, Table
<1> HIDE DEF A, B
<1>3. /\ A \in SUBSET Row /\ IsFiniteSet(A) /\ DistinctIds(A)
      /\ B \in SUBSET Row /\ IsFiniteSet(B)
  BY <1>1, <1>2, FS_Subset DEF DistinctIds
<1>4. Total(CharLen, A) <= Total(CharLen, B) /\ Total(CharLen, A) \in Nat /\ Total(CharLen, B) \in Nat
  BY <1>1, <1>3, NoMoreTotal, TotalFirst, MailboxConstants
<1>5. Total(CharLen, B) <= MaxBytesPerInbox /\ MaxBytesPerInbox \in Nat
  BY MailboxConstants DEF CharsWithinQuota, Chars, B
<1> QED
  BY <1>4, <1>5 DEF A, Chars

(* A push counts the new row first, in bytes, which are no fewer than its  *)
(* characters.                                                             *)
LEMMA PushChars ==
    ASSUME IInv, CharsWithinQuota, NEW m \in Messages, NEW ttl \in Ttls, NEW t \in Stamps,
           Push(m, ttl, t)
    PROVE  CharsWithinQuota'
<1>1. IInv'
  BY PushStep
<1>2. CASE rows' = Live(t)
  BY <1>1, <1>2, CharsKept DEF SameRows, Live
<1>3. CASE /\ ~Duplicate(m, Live(t)) /\ WithinQuota(m, Live(t))
           /\ rows' = Live(t) \cup {NewRow(m, ttl, t)}
  <2> SUFFICES ASSUME NEW i \in Inboxes PROVE Chars(i, rows') <= MaxBytesPerInbox
    BY DEF CharsWithinQuota
  <2> DEFINE n == NewRow(m, ttl, t)
             K == InInbox(i, Live(t))
  <2>1. n.msg = m
    BY DEF NewRow
  <2>2. n \in Row /\ rows \in SUBSET Row /\ IsFiniteSet(rows)
    BY <1>1, <1>3 DEF IInv, RowsTyped, Table
  <2>3. K \in SUBSET rows /\ n \notin K
    BY <1>3, <2>1 DEF InInbox, Live, Duplicate
  <2> HIDE DEF n, K
  <2>4. K \in SUBSET Row /\ IsFiniteSet(K)
    BY <2>2, <2>3, FS_Subset
  <2>5. CASE i = Inbox[m]
    <3>1. InInbox(i, rows') = K \cup {n}
      BY <1>3, <2>1, <2>5 DEF InInbox, K, n
    <3>2. Total(CharLen, K \cup {n}) = Total(CharLen, K) + CharLen[m]
      BY <2>1, <2>2, <2>3, <2>4, TotalAdd, MailboxConstants
    <3>3. Total(CharLen, K) + ByteLen[m] <= MaxBytesPerInbox
      BY <1>3, <2>5 DEF WithinQuota, K
    <3>4. /\ Total(CharLen, K) \in Nat /\ CharLen[m] \in Nat /\ ByteLen[m] \in Nat
          /\ CharLen[m] <= ByteLen[m] /\ MaxBytesPerInbox \in Nat
      BY <2>4, TotalFirst, MailboxConstants
    <3> QED
      BY <3>1, <3>2, <3>3, <3>4 DEF Chars
  <2>6. CASE i # Inbox[m]
    <3>1. InInbox(i, rows') = K
      BY <1>3, <2>1, <2>6 DEF InInbox, K, n
    <3>2. InInbox(i, rows) \in SUBSET Row /\ IsFiniteSet(InInbox(i, rows))
      BY <2>2, FS_Subset DEF InInbox
    <3>3. DistinctIds(K) /\ Within(K, InInbox(i, rows))
      BY <2>3 DEF IInv, Table, DistinctIds, Within, InInbox, K, Live
    <3>4. Total(CharLen, K) <= Chars(i, rows) /\ Total(CharLen, K) \in Nat /\ Chars(i, rows) \in Nat
      BY <2>4, <3>2, <3>3, NoMoreTotal, TotalFirst, MailboxConstants DEF Chars
    <3>5. Chars(i, rows) <= MaxBytesPerInbox /\ MaxBytesPerInbox \in Nat
      BY MailboxConstants DEF CharsWithinQuota
    <3> QED
      BY <3>1, <3>4, <3>5 DEF Chars
  <2> QED
    BY <2>5, <2>6
<1> QED
  BY <1>2, <1>3 DEF Push, PushRow

(* Types and limits: push_sync takes no inbox over max_bytes_per_inbox     *)
(* characters, so over four times as many bytes, although it measures the  *)
(* stored envelopes and the new one differently.                           *)
THEOREM MailboxWithinLimits == Spec => []TypeOK
<1>1. Init => CharsWithinQuota
  <2> SUFFICES ASSUME Init PROVE CharsWithinQuota
    OBVIOUS
  <2>1. \A i \in Inboxes : InInbox(i, rows) = {}
    BY DEF Init, InInbox
  <2>2. Total(CharLen, {}) = 0
    BY TotalFirst, FS_EmptySet, MailboxConstants
  <2> QED
    BY <2>1, <2>2, MailboxConstants DEF CharsWithinQuota, Chars
<1>2. IInv /\ CharsWithinQuota /\ [Next]_vars => CharsWithinQuota'
  <2> SUFFICES ASSUME IInv, CharsWithinQuota, [Next]_vars PROVE CharsWithinQuota'
    OBVIOUS
  <2>1. ASSUME IInv', Shrinks PROVE CharsWithinQuota'
    BY <2>1, CharsKept DEF Shrinks, SameRows
  <2>2. ASSUME NEW p \in Pollers, NEW t \in Stamps, PullLeases(p, t) PROVE CharsWithinQuota'
    BY <2>2, PullKeepsRows, PullLeasesStep, CharsKept
  <2> QED
    BY <2>1, <2>2, StepKinds, PushChars, AckStep
<1>3. IInv /\ CharsWithinQuota => LengthWithinQuota
  <2> SUFFICES ASSUME IInv, CharsWithinQuota, NEW i \in Inboxes
               PROVE  /\ Total(CharLen, InInbox(i, rows)) <= MaxBytesPerInbox
                      /\ Total(ByteLen, InInbox(i, rows)) <= 4 * MaxBytesPerInbox
    BY DEF LengthWithinQuota
  <2> DEFINE R == InInbox(i, rows)
  <2>1. R \in SUBSET Row /\ IsFiniteSet(R)
    BY FS_Subset DEF IInv, RowsTyped, Table, InInbox
  <2>2. Total(CharLen, R) <= MaxBytesPerInbox
    BY DEF CharsWithinQuota, Chars
  <2> HIDE DEF R
  <2>3. /\ Total(CharLen, R) \in Nat /\ Total(ByteLen, R) \in Nat /\ MaxBytesPerInbox \in Nat
        /\ Total(ByteLen, R) <= 4 * Total(CharLen, R)
    BY <2>1, TotalFirst, FourBytes, MailboxConstants
  <2> QED
    BY <2>2, <2>3 DEF R
<1>4. IInv /\ RowsTyped /\ RowsWithinQuota /\ LengthWithinQuota => TypeOK
  BY DEF IInv, Typed, Lease, TypeOK
<1> QED
  BY <1>1, <1>2, <1>3, <1>4, IInvAlways, TableWithinLimits, PTL DEF Spec
=============================================================================
