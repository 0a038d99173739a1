--------------------------- MODULE WalletRuntime ---------------------------
(***************************************************************************)
(* Calls of the escrow bridge to its pool of wallet-rpc processes:         *)
(* wallet_rpc_call of wallet_runtime.rs (client cache, circuit breaker,    *)
(* endpoint mutex) and ensure_wallet_open of wallet_rpc.rs.                *)
(*                                                                         *)
(* A wallet-rpc process has one wallet open at a time, and serves several  *)
(* escrows when the pool is smaller than the set of escrows.  Each RPC is  *)
(* a step of its own; whoever reaches the process switches its wallet.     *)
(***************************************************************************)
EXTENDS Integers, Sequences, FiniteSets

CONSTANTS
    Callers,        \* concurrent tasks that call the bridge
    Escrows,        \* escrow ids, natural numbers
    Ports,          \* XMR_WALLET_RPC_POOL_PORTS
    OpenAttempts,   \* XMR_WALLET_RPC_OPEN_ATTEMPTS
    FailThreshold,  \* XMR_WALLET_RPC_CB_FAIL_THRESHOLD
    OpenSecs,       \* XMR_WALLET_RPC_CB_OPEN_SECS
    MaxEntries,     \* XMR_WALLET_RPC_CLIENT_CACHE_MAX_ENTRIES
    MaxAge,         \* XMR_WALLET_RPC_CLIENT_CACHE_MAX_AGE_S
    MaxNow,         \* bound: the clock
    Nil

ASSUME RuntimeConstants ==
    /\ Escrows \subseteq Nat
    /\ Ports \in Seq(Nat) /\ Len(Ports) > 0
    /\ OpenAttempts \in Nat \ {0}
    /\ FailThreshold \in Nat \ {0}
    /\ OpenSecs \in Nat \ {0}
    /\ MaxEntries \in Nat \ {0}
    /\ MaxAge \in Nat
    /\ MaxNow \in Nat
    /\ Nil \notin Callers \cup Int

VARIABLES
    now,       \* now_ts()
    lastUsed,  \* cached clients: last_used_ts of an escrow's client, or Nil
    circuit,   \* breaker of each endpoint; zeros when it has no entry
    lock,      \* endpoint mutex: the caller that holds it, or Nil
    opened,    \* wallet open in each wallet-rpc process: an escrow, or Nil
    files,     \* escrows whose wallet file exists
    call,      \* call in progress of each caller
    intruded   \* history: endpoints whose wallet was changed past the mutex
               \* since it was last taken

runtimeVars == <<now, lastUsed, circuit, lock, opened, files, call, intruded>>

Endpoints == {Ports[i] : i \in 1 .. Len(Ports)}

PickPort(e) == Ports[(e % Len(Ports)) + 1]

(* What an RPC can fail with.  Transport errors and timeouts are retried   *)
(* and trip the breaker; "busy" (and "No wallet file") is only retried;    *)
(* anything else is neither.                                               *)
Errors == {"transient", "busy", "fatal"}
IsRetryable(k) == k \in {"transient", "busy"}
ShouldTrip(k) == k = "transient"

Idle == [at |-> "idle"]
At(c) == call[c].at
Esc(c) == call[c].escrow
Port(c) == PickPort(Esc(c))
Holds(c) == At(c) # "idle" /\ lock[Port(c)] = c
Goto(c, at) == call' = [call EXCEPT ![c].at = at]
(* The call starts, or starts again, with ensure_wallet_open.              *)
Opening(c, e, n) == call' = [call EXCEPT ![c] = [at |-> "open", escrow |-> e, attempt |-> n]]
Return(c) == call' = [call EXCEPT ![c] = Idle]

RuntimeInit ==
    /\ now = 0
    /\ lastUsed = [e \in Escrows |-> Nil]
    /\ circuit = [p \in Endpoints |-> [failures |-> 0, openUntil |-> 0]]
    /\ lock = [p \in Endpoints |-> Nil]
    /\ opened = [p \in Endpoints |-> Nil]
    /\ files = {}
    /\ call = [c \in Callers |-> Idle]
    /\ intruded = {}

-----------------------------------------------------------------------------
(* wallet_client: the cache of clients, one per escrow.                    *)

Cached(used) == {e \in Escrows : used[e] # Nil}

(* Mutated form: a fresh insertion is not pruned.                          *)
Unpruned(used) == used

(* At most MaxEntries clients are kept, the least recently used dropped    *)
(* first; entries of equal age are dropped in the order of their ids.      *)
Pruned(used) ==
    LET Newer(e, f) == used[f] > used[e] \/ (used[f] = used[e] /\ f >= e)
    IN  [e \in Escrows |->
            IF /\ e \in Cached(used)
               /\ Cardinality({f \in Cached(used) : Newer(e, f)}) <= MaxEntries
            THEN used[e] ELSE Nil]

(* Stale clients go, except the caller's own, which is touched or created. *)
WithClient(e) ==
    Pruned([f \in Escrows |->
        CASE f = e -> now
          [] f # e /\ f \in Cached(lastUsed) /\ lastUsed[f] >= now - MaxAge -> lastUsed[f]
          [] OTHER -> Nil])

WalletRpcCall(c, e) ==
    /\ At(c) = "idle"
    /\ lastUsed' = WithClient(e)
    /\ Opening(c, e, 1)
    /\ UNCHANGED <<now, circuit, lock, opened, files, intruded>>

-----------------------------------------------------------------------------
(* The breaker.                                                            *)

CircuitOpen(p) == circuit[p].openUntil > now

RecordFailure(p) ==
    LET n == circuit[p].failures + 1
    IN  [circuit EXCEPT ![p] =
            IF n >= FailThreshold
            THEN [failures |-> 0, openUntil |-> now + OpenSecs]
            ELSE [@ EXCEPT !.failures = n]]

RecordSuccess(p) == [circuit EXCEPT ![p] = [failures |-> 0, openUntil |-> 0]]

Unlocked(c) == [lock EXCEPT ![Port(c)] = Nil]

(* The call fails.  Inside the lock the client is dropped and a transient  *)
(* error counted; before it, nothing is.                                   *)
Fails(c, k) ==
    /\ IF Holds(c)
         THEN /\ lastUsed' = [lastUsed EXCEPT ![Esc(c)] = Nil]
              /\ circuit' = IF ShouldTrip(k) THEN RecordFailure(Port(c)) ELSE circuit
              /\ lock' = Unlocked(c)
         ELSE UNCHANGED <<lastUsed, circuit, lock>>
    /\ Return(c)

Succeeds(c) ==
    /\ circuit' = RecordSuccess(Port(c))
    /\ lock' = Unlocked(c)
    /\ Return(c)
    /\ UNCHANGED lastUsed

-----------------------------------------------------------------------------
(* ensure_wallet_open, called once before the lock and again under it.     *)

Runtime == <<lastUsed, circuit, lock>>
Switch(c) == opened' = [opened EXCEPT ![Port(c)] = Esc(c)]

(* History: a call without the mutex changes the wallet of one with it.    *)
Intrudes(c) == ~Holds(c) /\ lock[Port(c)] # Nil /\ opened' # opened
NoteIntrusion(c) == intruded' = IF Intrudes(c) THEN intruded \cup {Port(c)} ELSE intruded

(* An attempt failed: close the wallet and try again, or give up.          *)
AttemptFails(c, k) ==
    IF IsRetryable(k) /\ call[c].attempt < OpenAttempts
    THEN Goto(c, "close") /\ UNCHANGED Runtime
    ELSE Fails(c, k)

(* open_wallet; a timed-out request may have been served all the same.     *)
OpenWallet(c) ==
    /\ At(c) = "open"
    /\ \/ Esc(c) \in files /\ Switch(c) /\ Goto(c, "probe") /\ UNCHANGED Runtime
       \/ Esc(c) \notin files /\ Goto(c, "create") /\ UNCHANGED <<opened, lastUsed, circuit, lock>>
       \/ \E k \in Errors :
              /\ AttemptFails(c, k)
              /\ UNCHANGED opened \/ (k = "transient" /\ Esc(c) \in files /\ Switch(c))
    /\ NoteIntrusion(c)
    /\ UNCHANGED <<now, files>>

(* create_wallet; when the file turns out to exist, open it after all.     *)
CreateWallet(c) ==
    /\ At(c) = "create"
    /\ \/ /\ Esc(c) \notin files
          /\ files' = files \cup {Esc(c)}
          /\ Switch(c) /\ Goto(c, "probe") /\ UNCHANGED Runtime
       \/ /\ Esc(c) \in files
          /\ Goto(c, "open") /\ UNCHANGED <<opened, files, lastUsed, circuit, lock>>
       \/ \E k \in Errors :
              /\ Fails(c, k)
              /\ \/ UNCHANGED <<opened, files>>
                 \/ k = "transient" /\ Switch(c) /\ files' = files \cup {Esc(c)}
    /\ NoteIntrusion(c)
    /\ UNCHANGED now

(* get_address: some wallet is open.                                       *)
ProbeWallet(c) ==
    /\ At(c) = "probe"
    /\ \/ /\ opened[Port(c)] # Nil
          /\ Goto(c, IF Holds(c) THEN "run" ELSE "gate")
          /\ UNCHANGED Runtime
       \/ opened[Port(c)] = Nil /\ AttemptFails(c, "busy")
       \/ \E k \in Errors : AttemptFails(c, k)
    /\ UNCHANGED <<now, opened, files, intruded>>

(* Mutated form: attempts are not counted.                                 *)
SameAttempt(n) == n

NextAttempt(n) == n + 1

(* close_wallet_best_effort closes whatever wallet is open.                *)
CloseWallet(c) ==
    /\ At(c) = "close"
    /\ Opening(c, Esc(c), NextAttempt(call[c].attempt))
    /\ opened' \in {opened, [opened EXCEPT ![Port(c)] = Nil]}
    /\ NoteIntrusion(c)
    /\ UNCHANGED <<now, lastUsed, circuit, lock, files>>

-----------------------------------------------------------------------------
(* wallet_circuit_before_call, then the queue for the endpoint mutex.      *)
Gate(c) ==
    /\ At(c) = "gate"
    /\ IF CircuitOpen(Port(c)) THEN Return(c) ELSE Goto(c, "wait")
    /\ UNCHANGED <<now, lastUsed, circuit, lock, opened, files, intruded>>

(* Mutated form: the breaker is not read again under the lock.             *)
RefusedBeforeWaiting(c) == FALSE

RefusedAfterWaiting(c) == CircuitOpen(Port(c))

(* Mutated form: the wallet opened before the lock is taken for granted.   *)
RunAtOnce(c) == Goto(c, "run")

(* Every method starts with another ensure_wallet_open.                    *)
StartMethod(c) == Opening(c, Esc(c), 1)

Acquire(c) ==
    /\ At(c) = "wait"
    /\ lock[Port(c)] = Nil
    /\ IF RefusedAfterWaiting(c)
         THEN Return(c) /\ UNCHANGED <<lock, intruded>>
         ELSE /\ lock' = [lock EXCEPT ![Port(c)] = c]
              /\ intruded' = intruded \ {Port(c)}
              /\ StartMethod(c)
    /\ UNCHANGED <<now, lastUsed, circuit, opened, files>>

(* The method itself.  Methods that change the wallet then store it.       *)
RunMethod(c) ==
    /\ At(c) = "run"
    /\ \/ /\ opened[Port(c)] # Nil
          /\ \/ Goto(c, "store") /\ UNCHANGED Runtime
             \/ Succeeds(c)
       \/ opened[Port(c)] = Nil /\ Fails(c, "busy")
       \/ \E k \in Errors : Fails(c, k)
    /\ UNCHANGED <<now, opened, files, intruded>>

StoreWallet(c) ==
    /\ At(c) = "store"
    /\ \/ opened[Port(c)] # Nil /\ Succeeds(c)
       \/ opened[Port(c)] = Nil /\ Fails(c, "busy")
       \/ \E k \in Errors : Fails(c, k)
    /\ UNCHANGED <<now, opened, files, intruded>>

Tick ==
    /\ now < MaxNow
    /\ now' = now + 1
    /\ UNCHANGED <<lastUsed, circuit, lock, opened, files, call, intruded>>

Progress(c) ==
    \/ OpenWallet(c) \/ CreateWallet(c) \/ ProbeWallet(c) \/ CloseWallet(c)
    \/ Gate(c) \/ RunMethod(c) \/ StoreWallet(c)

RuntimeNext ==
    \/ \E c \in Callers :
           Progress(c) \/ Acquire(c) \/ \E e \in Escrows : WalletRpcCall(c, e)
    \/ Tick

RuntimeSpec == RuntimeInit /\ [][RuntimeNext]_runtimeVars

(* Every RPC ends, with an answer or by its timeout; the endpoint mutex is *)
(* a tokio Mutex, which serves its waiters in order.                       *)
FairSpec ==
    /\ RuntimeSpec
    /\ \A c \in Callers : WF_runtimeVars(Progress(c)) /\ SF_runtimeVars(Acquire(c))

-----------------------------------------------------------------------------
(* Types and limits: a breaker that has not tripped counts fewer failures  *)
(* than its threshold, and the cache of clients never outgrows its limit,  *)
(* whatever clients are added while calls are using the old ones.          *)
TypeOK ==
    /\ now \in 0 .. MaxNow
    /\ lastUsed \in [Escrows -> Nat \cup {Nil}]
    /\ circuit \in [Endpoints -> [failures : 0 .. FailThreshold - 1, openUntil : Nat]]
    /\ lock \in [Endpoints -> Callers \cup {Nil}]
    /\ opened \in [Endpoints -> Escrows \cup {Nil}]
    /\ files \subseteq Escrows
    /\ call \in [Callers -> {Idle} \cup
           [at : {"open", "create", "probe", "close", "gate", "wait", "run", "store"},
            escrow : Escrows, attempt : 1 .. OpenAttempts]]
    /\ intruded \subseteq Endpoints
    /\ Cardinality(Cached(lastUsed)) <= MaxEntries

(* No call works behind an open breaker: a call that queued while the      *)
(* breaker was closed is turned away when the call before it opened it,    *)
(* and only the holder of the endpoint runs a method on it.                *)
BreakerGuardsEndpoint ==
    /\ \A p \in Endpoints : lock[p] # Nil => ~CircuitOpen(p)
    /\ \A c \in Callers : At(c) \in {"run", "store"} => Holds(c)

(* Escrows share a wallet-rpc process, and everyone who reaches it         *)
(* switches its wallet.  The mutex and the second ensure_wallet_open keep  *)
(* a method on its own escrow's wallet whatever the other calls do under   *)
(* it, time out on, retry or evict: the only way another wallet gets       *)
(* under a running method is the ensure_wallet_open that wallet_rpc_call   *)
(* makes before it takes the mutex.                                        *)
MutexKeepsWallet ==
    \A c \in Callers :
        At(c) \in {"run", "store"} /\ Port(c) \notin intruded => opened[Port(c)] = Esc(c)

(* What the comment of the client cache is about, "sharing one client      *)
(* across escrows on the same endpoint could open the wrong wallet": no    *)
(* method runs on another escrow's wallet.                                 *)
NoForeignWallet ==
    \A c \in Callers : At(c) \in {"run", "store"} => opened[Port(c)] \in {Esc(c), Nil}

(* Every call returns, however the calls contend for an endpoint.          *)
CallsReturn == \A c \in Callers : At(c) # "idle" ~> At(c) = "idle"
=============================================================================
