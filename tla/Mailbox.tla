------------------------------ MODULE Mailbox ------------------------------
(***************************************************************************)
(* nxms-mailbox: the messages table of db.rs and the push, long-polling    *)
(* pull and ack handlers of api.rs with the NotifyMap of lib.rs.           *)
(*                                                                         *)
(* A message stands for its dedupe key (to, from, escrow, seq).  Each      *)
(* handler reads the clock BEFORE it gets SQLite's write lock, so the      *)
(* stamp its transaction uses may lag behind by up to the busy timeout.    *)
(***************************************************************************)
EXTENDS Naturals, FiniteSets, FiniteSetsExt

CONSTANTS
    Messages,      \* dedupe keys of envelopes
    Inboxes,       \* recipient ids
    Inbox,         \* Inbox[m]: the recipient of m
    ByteLen,       \* ByteLen[m]: the length of m's envelope in bytes (UTF-8)
    CharLen,       \* CharLen[m]: its length in characters
    Pollers,       \* long-polling clients
    PollerInbox,   \* PollerInbox[p]: the inbox p may pull from
    MaxRowsGlobal, MaxPerInbox, MaxBytesPerInbox,   \* MailboxLimits
    PullMax,       \* rows leased by one pull
    LeaseTime,     \* lease_secs
    Ttls,          \* the ttl_secs clients ask for
    MaxTtl,        \* max_ttl_secs
    Lag,           \* how old a transaction's clock reading may be
    MaxNow,        \* bound: the clock stops here
    MaxPushes,     \* bound: rows ever inserted
    MaxLeases,     \* bound: receipts ever handed out
    MaxRestarts    \* bound: restarts of the mailbox process

ASSUME MailboxConstants ==
    /\ Inbox \in [Messages -> Inboxes]
    /\ CharLen \in [Messages -> Nat]
    /\ ByteLen \in [Messages -> Nat]
    /\ \A m \in Messages : CharLen[m] <= ByteLen[m] /\ ByteLen[m] <= 4 * CharLen[m]
    /\ PollerInbox \in [Pollers -> Inboxes]
    /\ {MaxRowsGlobal, MaxPerInbox, MaxBytesPerInbox} \subseteq Nat
    /\ {PullMax, LeaseTime, MaxTtl} \subseteq Nat \ {0}
    /\ Ttls \subseteq Nat \ {0}
    /\ {Lag, MaxNow, MaxPushes, MaxLeases, MaxRestarts} \subseteq Nat

VARIABLES
    now,        \* the wall clock
    rows,       \* the messages table
    lastId,     \* AUTOINCREMENT
    lastLease,  \* receipts are random; the model numbers them
    notifying,  \* inboxes whose push has committed and will notify
    poll,       \* what each poller's handler does next
    leases,     \* history: leases whose holder may still believe in them
    acked,      \* history: receipts whose ack was accepted
    restarts    \* history: restarts so far

vars == <<now, rows, lastId, lastLease, notifying, poll, leases, acked, restarts>>

NoLease == 0
Row == [msg : Messages, id : Nat, expires : Nat, lease : Nat, until : Nat]
PollStates == {"idle", "reading", "subscribing", "waiting"}

Init ==
    /\ now = 0
    /\ rows = {}
    /\ lastId = 0
    /\ lastLease = 0
    /\ notifying = {}
    /\ poll = [p \in Pollers |-> "idle"]
    /\ leases = {}
    /\ acked = {}
    /\ restarts = 0

(* The clock readings a transaction committing now may be using.           *)
Stamps == {t \in 0 .. now : now - t <= Lag}

(* DELETE ... WHERE expires_at_ms <= t, run by push, pull and cleanup.     *)
Live(t) == {r \in rows : r.expires > t}

(* Pull ignores a failure of its DELETE.                                   *)
Pruned(t) == {Live(t), rows}

InInbox(i, R) == {r \in R : Inbox[r.msg] = i}
Total(len, R) == MapThenSumSet(LAMBDA r : len[r.msg], R)

-----------------------------------------------------------------------------
(* Push.  A request refused before the database is asked (token, size,     *)
(* rate limit, malformed envelope, ttl of zero) is no action.              *)

(* Mutated form: a row whose lease is out does not count as a duplicate.   *)
UnleasedDuplicate(m, R) == \E r \in R : r.msg = m /\ r.lease = NoLease

Duplicate(m, R) == \E r \in R : r.msg = m

(* Mutated form: the new envelope is not counted.                          *)
QuotaBeforeInsert(m, R) ==
    /\ Cardinality(R) < MaxRowsGlobal
    /\ Cardinality(InInbox(Inbox[m], R)) < MaxPerInbox
    /\ Total(CharLen, InInbox(Inbox[m], R)) <= MaxBytesPerInbox

(* The rows of the inbox are measured by SQL's LENGTH, which counts the    *)
(* characters of a TEXT, the new envelope by its bytes.                    *)
WithinQuota(m, R) ==
    /\ Cardinality(R) < MaxRowsGlobal
    /\ Cardinality(InInbox(Inbox[m], R)) < MaxPerInbox
    /\ Total(CharLen, InInbox(Inbox[m], R)) + ByteLen[m] <= MaxBytesPerInbox

(* The server caps the ttl.                                                *)
NewRow(m, ttl, t) ==
    [msg |-> m, id |-> lastId + 1, expires |-> t + Min({ttl, MaxTtl}),
     lease |-> NoLease, until |-> 0]

(* push_sync: prune, dedupe, quotas in this order, insert.                 *)
PushRow(m, ttl, t) ==
    IF Duplicate(m, Live(t)) \/ ~WithinQuota(m, Live(t))
      THEN rows' = Live(t) /\ UNCHANGED lastId
      ELSE /\ lastId < MaxPushes
           /\ rows' = Live(t) \cup {NewRow(m, ttl, t)}
           /\ lastId' = lastId + 1

(* The handler notifies the inbox of a new row only.                       *)
Push(m, ttl, t) ==
    /\ PushRow(m, ttl, t)
    /\ notifying' = notifying \cup (IF lastId' = lastId THEN {} ELSE {Inbox[m]})
    /\ UNCHANGED <<now, lastLease, poll, leases, acked, restarts>>

(* After its transaction, push wakes the handlers waiting on the inbox.    *)
NotifyInbox(i) ==
    /\ i \in notifying
    /\ notifying' = notifying \ {i}
    /\ poll' = [p \in Pollers |->
                   IF PollerInbox[p] = i /\ poll[p] = "waiting" THEN "reading" ELSE poll[p]]
    /\ UNCHANGED <<now, rows, lastId, lastLease, leases, acked, restarts>>

-----------------------------------------------------------------------------
(* Pull: read; if there is nothing, subscribe and wait for a notification  *)
(* or the deadline.                                                        *)

(* A bearer token belongs to one inbox.                                    *)
AuthorizedInbox(p) == PollerInbox[p]

StartPull(p) ==
    /\ poll[p] = "idle"
    /\ poll' = [poll EXCEPT ![p] = "reading"]
    /\ UNCHANGED <<now, rows, lastId, lastLease, notifying, leases, acked, restarts>>

(* Mutated form: a lease ends at its last instant instead of after it.     *)
LeaseOverEarly(r, t) == r.lease = NoLease \/ r.until <= t

(* lease_until_ms IS NULL OR lease_until_ms < now                          *)
LeaseOver(r, t) == r.lease = NoLease \/ r.until < t

Available(i, t) == {r \in InInbox(i, Live(t)) : LeaseOver(r, t)}

(* ORDER BY id LIMIT max                                                   *)
Position(r, R) == Cardinality({q \in R : q.id <= r.id})
Batch(i, t) ==
    LET avail == Available(i, t)
    IN {r \in avail : Position(r, avail) <= PullMax}

Leased(batch, t) ==
    {[r EXCEPT !.lease = lastLease + Position(r, batch), !.until = t + LeaseTime] : r \in batch}

(* The rows are leased and returned, each under a fresh receipt.           *)
PullLeases(p, t) ==
    LET batch == Batch(AuthorizedInbox(p), t) IN
    /\ poll[p] = "reading"
    /\ batch # {}
    /\ lastLease + Cardinality(batch) <= MaxLeases
    /\ rows' \in {(kept \ batch) \cup Leased(batch, t) : kept \in Pruned(t)}
    /\ lastLease' = lastLease + Cardinality(batch)
    /\ leases' = leases \cup {[id |-> r.id, lease |-> r.lease, until |-> r.until] :
                                  r \in Leased(batch, t)}
    /\ poll' = [poll EXCEPT ![p] = "idle"]
    /\ UNCHANGED <<now, lastId, notifying, acked, restarts>>

(* Nothing to lease: go on to subscribe, or return at the deadline.        *)
PullFindsNothing(p, t) ==
    /\ poll[p] = "reading"
    /\ Batch(AuthorizedInbox(p), t) = {}
    /\ rows' \in Pruned(t)
    /\ poll' \in {[poll EXCEPT ![p] = s] : s \in {"subscribing", "idle"}}
    /\ UNCHANGED <<now, lastId, lastLease, notifying, leases, acked, restarts>>

(* notified() only sees notifications sent after this point.               *)
Subscribe(p) ==
    /\ poll[p] = "subscribing"
    /\ poll' = [poll EXCEPT ![p] = "waiting"]
    /\ UNCHANGED <<now, rows, lastId, lastLease, notifying, leases, acked, restarts>>

(* Mutated form: wait for a notification only.                             *)
NeverGivesUp(p) == poll[p] = "waiting" /\ FALSE

WaitOver(p) == poll[p] = "waiting"

PullTimesOut(p) ==
    /\ WaitOver(p)
    /\ poll' = [poll EXCEPT ![p] = "idle"]
    /\ UNCHANGED <<now, rows, lastId, lastLease, notifying, leases, acked, restarts>>

-----------------------------------------------------------------------------
(* DELETE ... WHERE lease_id = receipt AND to_id = the token's inbox.  A   *)
(* receipt that matches nothing is answered "unknown receipt".             *)
UnderReceipt(i, receipt) == {r \in InInbox(i, rows) : r.lease = receipt}

Ack(i, receipt) ==
    /\ UnderReceipt(i, receipt) # {}
    /\ rows' = rows \ UnderReceipt(i, receipt)
    /\ acked' = acked \cup {receipt}
    /\ UNCHANGED <<now, lastId, lastLease, notifying, poll, leases, restarts>>

(* The background cleanup task.                                            *)
CleanupExpired(t) ==
    /\ rows' = Live(t)
    /\ UNCHANGED <<now, lastId, lastLease, notifying, poll, leases, acked, restarts>>

(* The mailbox process restarts: its handlers die, the table stays.        *)
Restart ==
    /\ restarts < MaxRestarts
    /\ restarts' = restarts + 1
    /\ notifying' = {}
    /\ poll' = [p \in Pollers |-> "idle"]
    /\ UNCHANGED <<now, rows, lastId, lastLease, leases, acked>>

Tick ==
    /\ now < MaxNow
    /\ now' = now + 1
    /\ leases' = {l \in leases : l.until >= now'}
    /\ UNCHANGED <<rows, lastId, lastLease, notifying, poll, acked, restarts>>

-----------------------------------------------------------------------------
PullStep(p) ==
    \/ StartPull(p) \/ Subscribe(p) \/ PullTimesOut(p)
    \/ \E t \in Stamps : PullLeases(p, t) \/ PullFindsNothing(p, t)

Next ==
    \/ \E m \in Messages, ttl \in Ttls, t \in Stamps : Push(m, ttl, t)
    \/ \E i \in Inboxes : NotifyInbox(i)
    \/ \E p \in Pollers : PullStep(p)
    \/ \E i \in Inboxes, receipt \in 1 .. lastLease : Ack(i, receipt)
    \/ \E t \in Stamps : CleanupExpired(t)
    \/ Restart
    \/ Tick

Spec == Init /\ [][Next]_vars

(* Clients poll in a loop and tokio runs every handler and timer; the      *)
(* clock goes on.  Nothing is assumed of pushes, acks or restarts.         *)
FairSpec ==
    /\ Spec
    /\ WF_vars(Tick)
    /\ \A i \in Inboxes : WF_vars(NotifyInbox(i))
    /\ \A p \in Pollers : WF_vars(PullStep(p))

-----------------------------------------------------------------------------
(* The rows are well formed and carry ids and receipts that were given     *)
(* out; no row outlives the server's maximum ttl.                          *)
RowsTyped ==
    /\ rows \in SUBSET Row
    /\ \A r \in rows : r.id <= lastId /\ r.lease <= lastLease /\ r.expires <= now + MaxTtl

(* No push takes the table or an inbox over its quotas of rows, expired    *)
(* and leased rows included ...                                            *)
RowsWithinQuota ==
    /\ Cardinality(rows) <= MaxRowsGlobal
    /\ \A i \in Inboxes : Cardinality(InInbox(i, rows)) <= MaxPerInbox

(* ... nor an inbox over max_bytes_per_inbox characters, which may be up   *)
(* to four times as many bytes.                                            *)
LengthWithinQuota ==
    \A i \in Inboxes :
        /\ Total(CharLen, InInbox(i, rows)) <= MaxBytesPerInbox
        /\ Total(ByteLen, InInbox(i, rows)) <= 4 * MaxBytesPerInbox

(* Types, and the limits that hold in every state.                         *)
TypeOK ==
    /\ now \in Nat
    /\ lastId \in Nat
    /\ lastLease \in Nat
    /\ notifying \in SUBSET Inboxes
    /\ poll \in [Pollers -> PollStates]
    /\ leases \in SUBSET [id : Nat, lease : Nat, until : Nat]
    /\ acked \in SUBSET Nat
    /\ restarts \in Nat
    /\ RowsTyped
    /\ RowsWithinQuota
    /\ LengthWithinQuota

(* Not a property of this code (see Further observations in the README):   *)
(* main.rs documents max_bytes_per_inbox as the "Hard cap of queued        *)
(* envelope bytes per inbox", but stored envelopes count as characters.    *)
BytesHardCap == \A i \in Inboxes : Total(ByteLen, InInbox(i, rows)) <= MaxBytesPerInbox

(* A message is never out under two leases that are both still running,    *)
(* even when pulls use stale clock readings: two consumers cannot be       *)
(* working on it at once.                                                  *)
Running == {l \in leases : l.until >= now}
LeaseExclusive == \A k, l \in Running : k.id = l.id => k = l

(* The mailbox keeps the relay's promises: one row per dedupe key, fresh   *)
(* receipts, and no loss but by expiry or an ack of the latest receipt.    *)
RowsOf(m, R) == {r \in R : r.msg = m}
Receipts(R) ==
    [m \in Messages |->
        IF RowsOf(m, R) = {} THEN -1 ELSE (CHOOSE r \in RowsOf(m, R) : TRUE).lease]
Promise == INSTANCE Relay WITH box <- Receipts(rows), issued <- lastLease, acks <- acked
RelayPromise == Promise!RelaySpec

(* No pushed message waits for ever while clients poll: it is leased or    *)
(* expires.  A notification lost between a handler's read and its          *)
(* subscription, or in a restart, is made up for by the poll's deadline.   *)
Waiting(m) == \E r \in RowsOf(m, rows) : r.lease = NoLease /\ r.expires > now
MessageMoves == \A m \in Messages : Waiting(m) ~> ~Waiting(m)
=============================================================================
