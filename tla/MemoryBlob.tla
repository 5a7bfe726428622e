------------------------------ MODULE MemoryBlob ------------------------------
(***************************************************************************)
(* The in-memory backend (src/gufo/blob/sync/memory.py).                   *)
(*                                                                         *)
(* One instance is shared by several threads.  Every operation runs inside *)
(* `with self._data_lock`; the statements inside are steps of their own,   *)
(* so the lock and nothing else makes the counter `_size` move together    *)
(* with the dictionary `_data`.                                            *)
(*                                                                         *)
(* A dictionary is a total function to Values \cup {None}; a payload is a  *)
(* member of Values, and Bytes[v] is its len().                            *)
(***************************************************************************)
EXTENDS Integers, FiniteSets

CONSTANTS
    Threads,      \* threads that share the instance
    Keys,         \* keys they use
    EmptyKey,     \* the key "", the one key Python takes for false
    Values,       \* payloads
    Bytes,        \* Bytes[v]: length of payload v
    Prefixes,     \* prefixes they scan
    Under,        \* Under[p]: the keys that start with p
    MaxObjects,   \* max_objects, or None for no limit
    MaxSize,      \* max_size, or None for no limit
    None

VARIABLES
    data,    \* self._data
    size,    \* self._size
    lock,    \* self._data_lock: the thread that holds it, or None
    pc,      \* pc[t]: where thread t is
    old,     \* old[t]: the value put() read before, or delete() popped
    call,    \* call[t]: the request thread t executes, or None
    ret      \* ret[t]: its outcome once it is decided, or None

vars == <<data, size, lock, pc, old, call, ret>>

\* The contract of the base class; the requests and outcomes are its own.
Store == INSTANCE BlobStore WITH Clients <- Threads, store <- data

ASSUME BytesAssumption == Bytes \in [Values -> Nat]

ASSUME LimitsAssumption ==
    /\ MaxObjects \in Nat \cup {None}
    /\ MaxSize \in Nat \cup {None}

ASSUME NoneAssumption ==
    None \notin Threads \cup Values \cup Nat \cup Store!Requests \cup Store!Outcomes

-----------------------------------------------------------------------------

\* len(v) of a value that may be missing.
Length(v) == IF v = None THEN 0 ELSE Bytes[v]

\* The number of bytes in dictionary d, as the number of its byte positions.
Slots(d) == UNION {{k} \X (1 .. Bytes[d[k]]) : k \in Store!Stored(d)}
TotalBytes(d) == Cardinality(Slots(d))

TooMany(n) == MaxObjects # None /\ n > MaxObjects
TooLarge(n) == MaxSize # None /\ n > MaxSize

\* Mutant: an overwrite is counted on top of the value it replaces.
OverLimitsCountingTwice(key, v) ==
    \/ data[key] = None /\ TooMany(Cardinality(Store!Stored(data)) + 1)
    \/ TooLarge(size + Bytes[v])

(***************************************************************************)
(* _check_limits(key, len(v)) raises.  `if new_key` leaves out the old     *)
(* length for the empty key.                                               *)
(***************************************************************************)
OverLimits(key, v) ==
    \/ data[key] = None /\ TooMany(Cardinality(Store!Stored(data)) + 1)
    \/ TooLarge(size - (IF key # EmptyKey THEN Length(data[key]) ELSE 0) + Bytes[v])

-----------------------------------------------------------------------------

Init ==
    /\ data = [k \in Keys |-> None]
    /\ size = 0
    /\ lock = None
    /\ pc = [t \in Threads |-> "idle"]
    /\ old = [t \in Threads |-> None]
    /\ call = [t \in Threads |-> None]
    /\ ret = [t \in Threads |-> None]

Goto(t, from, to) == pc[t] = from /\ pc' = [pc EXCEPT ![t] = to]
Outcome(t, o) == ret' = [ret EXCEPT ![t] = o]

\* Thread t holds the lock and starts the body of operation op.
Body(t, op, to) == Goto(t, "locked", to) /\ call[t].op = op

Invoke(t) ==
    /\ Goto(t, "idle", "waiting")
    /\ \E r \in Store!Requests : call' = [call EXCEPT ![t] = r]
    /\ UNCHANGED <<data, size, lock, old, ret>>

\* Mutant: the body runs without waiting for the lock.
AcquireWithoutWaiting(t) ==
    /\ Goto(t, "waiting", "locked")
    /\ lock' = t
    /\ UNCHANGED <<data, size, old, call, ret>>

Acquire(t) ==
    /\ lock = None
    /\ Goto(t, "waiting", "locked")
    /\ lock' = t
    /\ UNCHANGED <<data, size, old, call, ret>>

PutRefused(t) ==
    /\ Body(t, "put", "unlock")
    /\ OverLimits(call[t].key, call[t].data)
    /\ Outcome(t, Store!BlobError)
    /\ UNCHANGED <<data, size, lock, old, call>>

PutAccepted(t) ==
    /\ Body(t, "put", "accepted")
    /\ ~ OverLimits(call[t].key, call[t].data)
    /\ old' = [old EXCEPT ![t] = data[call[t].key]]
    /\ UNCHANGED <<data, size, lock, call, ret>>

\* Mutant: an overwrite forgets the length of the old value.
PutAccountAsNew(t) ==
    /\ Goto(t, "accepted", "counted")
    /\ size' = size + Bytes[call[t].data]
    /\ UNCHANGED <<data, lock, old, call, ret>>

PutAccount(t) ==
    /\ Goto(t, "accepted", "counted")
    /\ size' = size + Bytes[call[t].data] - Length(old[t])
    /\ UNCHANGED <<data, lock, old, call, ret>>

PutStore(t) ==
    /\ Goto(t, "counted", "unlock")
    /\ data' = [data EXCEPT ![call[t].key] = call[t].data]
    /\ Outcome(t, Store!Done)
    /\ UNCHANGED <<size, lock, old, call>>

\* Mutant: self._data.get(key) in place of self._data[key].
GetOrNone(t) ==
    /\ Body(t, "get", "unlock")
    /\ Outcome(t, [value |-> data[call[t].key]])
    /\ UNCHANGED <<data, size, lock, old, call>>

Get(t) ==
    /\ Body(t, "get", "unlock")
    /\ Outcome(t, IF data[call[t].key] = None
                  THEN Store!KeyError
                  ELSE [value |-> data[call[t].key]])
    /\ UNCHANGED <<data, size, lock, old, call>>

\* Mutant: self._data.pop(key, None), which raises nothing.
DeleteMissingSilently(t) ==
    /\ Body(t, "delete", "unlock")
    /\ data[call[t].key] = None
    /\ Outcome(t, Store!Done)
    /\ UNCHANGED <<data, size, lock, old, call>>

\* Mutant: acquire() and release() by hand, with no release when raising.
DeleteMissingKeepsLock(t) ==
    /\ Body(t, "delete", "done")
    /\ data[call[t].key] = None
    /\ Outcome(t, Store!KeyError)
    /\ UNCHANGED <<data, size, lock, old, call>>

DeleteMissing(t) ==
    /\ Body(t, "delete", "unlock")
    /\ data[call[t].key] = None
    /\ Outcome(t, Store!KeyError)
    /\ UNCHANGED <<data, size, lock, old, call>>

DeletePop(t) ==
    /\ Body(t, "delete", "popped")
    /\ data[call[t].key] # None
    /\ old' = [old EXCEPT ![t] = data[call[t].key]]
    /\ data' = [data EXCEPT ![call[t].key] = None]
    /\ Outcome(t, Store!Done)
    /\ UNCHANGED <<size, lock, call>>

DeleteAccount(t) ==
    /\ Goto(t, "popped", "unlock")
    /\ size' = size - Length(old[t])
    /\ UNCHANGED <<data, lock, old, call, ret>>

Exists(t) ==
    /\ Body(t, "exists", "unlock")
    /\ Outcome(t, [found |-> data[call[t].key] # None])
    /\ UNCHANGED <<data, size, lock, old, call>>

\* The generator's first next(): the snapshot it will yield from.
Scan(t) ==
    /\ Body(t, "scan", "unlock")
    /\ Outcome(t, [keys |-> Store!Stored(data) \cap Under[call[t].prefix]])
    /\ UNCHANGED <<data, size, lock, old, call>>

\* `with` releases the lock on every way out, exceptions included.
Release(t) ==
    /\ Goto(t, "unlock", "done")
    /\ lock' = None
    /\ UNCHANGED <<data, size, old, call, ret>>

\* The frame of the call is gone, its local variables with it.
Return(t) ==
    /\ Goto(t, "done", "idle")
    /\ old' = [old EXCEPT ![t] = None]
    /\ call' = [call EXCEPT ![t] = None]
    /\ ret' = [ret EXCEPT ![t] = None]
    /\ UNCHANGED <<data, size, lock>>

PutStep(t) == PutRefused(t) \/ PutAccepted(t) \/ PutAccount(t) \/ PutStore(t)
DeleteStep(t) == DeleteMissing(t) \/ DeletePop(t) \/ DeleteAccount(t)
Locked(t) == PutStep(t) \/ Get(t) \/ DeleteStep(t) \/ Exists(t) \/ Scan(t) \/ Release(t)

Next == \E t \in Threads : Invoke(t) \/ Acquire(t) \/ Locked(t) \/ Return(t)

Spec == Init /\ [][Next]_vars

(***************************************************************************)
(* The interpreter runs the holder of the lock and hands a free lock to    *)
(* one of the threads that wait; threading.Lock does not say to which, so  *)
(* no thread is promised its turn.                                         *)
(***************************************************************************)
Fairness ==
    /\ \A t \in Threads : WF_vars(Locked(t))
    /\ WF_vars(\E t \in Threads : Acquire(t))

FairSpec == Spec /\ Fairness

-----------------------------------------------------------------------------

Held == {"locked", "accepted", "counted", "popped", "unlock"}

TypeOK ==
    /\ data \in [Keys -> Values \cup {None}]
    /\ size \in Int
    /\ lock \in Threads \cup {None}
    /\ pc \in [Threads -> {"idle", "waiting", "done"} \cup Held]
    /\ old \in [Threads -> Values \cup {None}]
    /\ call \in [Threads -> Store!Requests \cup {None}]
    /\ ret \in [Threads -> Store!Outcomes \cup {None}]

(***************************************************************************)
(* Whenever no operation is inside the lock, the counter `_size` is the    *)
(* total length of the stored values (memory.py:38), whatever puts,        *)
(* overwrites, refusals and deletes came before.                           *)
(***************************************************************************)
SizeAccounts == lock = None => size = TotalBytes(data)

(***************************************************************************)
(* The limits of the constructor hold in every state, not only between     *)
(* calls: puts that passed _check_limits at the same time cannot together  *)
(* overshoot max_objects or max_size.                                      *)
(***************************************************************************)
LimitsRespected ==
    /\ ~ TooMany(Cardinality(Store!Stored(data)))
    /\ ~ TooLarge(TotalBytes(data))

\* The dictionary with value v under key k, taken as a whole, breaks a limit.
WouldOverflow(k, v) ==
    LET projected == [data EXCEPT ![k] = v] IN
    \/ TooMany(Cardinality(Store!Stored(projected)))
    \/ TooLarge(TotalBytes(projected))

(***************************************************************************)
(* put() raises BlobError only when the store it would leave breaks a      *)
(* limit: "the check is performed against a projected state ... for        *)
(* existing keys, the old value size is replaced with the new one"         *)
(* (memory.py:110-113).  It fails for the empty key.                       *)
(***************************************************************************)
RefusedOnlyWhenFull ==
    [][\A t \in Threads :
          ret'[t] = Store!BlobError /\ ret[t] = None
              => WouldOverflow(call[t].key, call[t].data)]_vars

(***************************************************************************)
(* Callers cannot tell the backend from the contract of the base class:    *)
(* each operation takes effect at one instant between call and return.     *)
(***************************************************************************)
ImplementsStore == Store!Spec

(***************************************************************************)
(* No operation leaves the lock behind, on any path: as long as threads    *)
(* wait for it, calls go on completing.                                    *)
(***************************************************************************)
CallsComplete ==
    (\E t \in Threads : pc[t] = "waiting") ~> (\E t \in Threads : pc[t] = "done")
=============================================================================
