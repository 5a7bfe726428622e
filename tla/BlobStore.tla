------------------------------ MODULE BlobStore ------------------------------
(***************************************************************************)
(* What a blob store promises its callers (src/gufo/blob/sync/base.py): a  *)
(* flat map from keys to values on which put, get, delete, exists and scan *)
(* each take effect at one instant between the call and its return.        *)
(*                                                                         *)
(* A backend implements this module when its own steps, seen through a     *)
(* refinement mapping, are steps of Spec: whatever its threads interleave, *)
(* callers cannot tell it from a dictionary accessed one call at a time.   *)
(***************************************************************************)

CONSTANTS
    Clients,    \* callers: threads or tasks
    Keys,       \* object keys
    Values,     \* payloads
    Prefixes,   \* arguments of scan()
    Under,      \* Under[p]: the keys that start with prefix p
    None        \* Python's None: no value, no call in progress, no outcome yet

VARIABLES
    store,      \* store[k]: the value under key k, None when k is absent
    call,       \* call[c]: the request client c is executing, or None
    ret         \* ret[c]: its outcome once it has taken effect, or None

vars == <<store, call, ret>>

(***************************************************************************)
(* Requests and their outcomes: a value, a truth value, a set of keys,     *)
(* nothing, or one of the two exceptions of the API.                       *)
(***************************************************************************)
Requests ==
         [op : {"put"}, key : Keys, data : Values]
    \cup [op : {"get", "delete", "exists"}, key : Keys]
    \cup [op : {"scan"}, prefix : Prefixes]

Done      == [raised |-> "nothing"]
KeyError  == [raised |-> "KeyError"]
BlobError == [raised |-> "BlobError"]

Outcomes ==
         [value : Values] \cup [found : BOOLEAN] \cup [keys : SUBSET Keys]
    \cup {Done, KeyError, BlobError}

Stored(d) == {k \in Keys : d[k] # None}

TypeOK ==
    /\ store \in [Keys -> Values \cup {None}]
    /\ call \in [Clients -> Requests \cup {None}]
    /\ ret \in [Clients -> Outcomes \cup {None}]

-----------------------------------------------------------------------------

Init ==
    /\ store = [k \in Keys |-> None]
    /\ call = [c \in Clients |-> None]
    /\ ret = [c \in Clients |-> None]

Invoke(c) ==
    /\ call[c] = None
    /\ \E r \in Requests : call' = [call EXCEPT ![c] = r]
    /\ UNCHANGED <<store, ret>>

\* The request of client c takes effect with outcome o.
Takes(c, op, o) ==
    /\ call[c] # None
    /\ call[c].op = op
    /\ ret[c] = None
    /\ ret' = [ret EXCEPT ![c] = o]
    /\ UNCHANGED call

Put(c) ==
    /\ Takes(c, "put", Done)
    /\ store' = [store EXCEPT ![call[c].key] = call[c].data]

\* Any operation may fail; one that does changes nothing.
Fails(c) ==
    /\ call[c] # None
    /\ Takes(c, call[c].op, BlobError)
    /\ UNCHANGED store

Get(c) ==
    /\ Takes(c, "get", IF store[call[c].key] = None
                       THEN KeyError
                       ELSE [value |-> store[call[c].key]])
    /\ UNCHANGED store

Delete(c) ==
    /\ Takes(c, "delete", IF store[call[c].key] = None THEN KeyError ELSE Done)
    /\ store' = [store EXCEPT ![call[c].key] = None]

Exists(c) ==
    /\ Takes(c, "exists", [found |-> store[call[c].key] # None])
    /\ UNCHANGED store

Scan(c) ==
    /\ Takes(c, "scan", [keys |-> Stored(store) \cap Under[call[c].prefix]])
    /\ UNCHANGED store

Return(c) ==
    /\ ret[c] # None
    /\ call' = [call EXCEPT ![c] = None]
    /\ ret' = [ret EXCEPT ![c] = None]
    /\ UNCHANGED store

Next ==
    \E c \in Clients :
        \/ Invoke(c) \/ Return(c)
        \/ Put(c) \/ Fails(c) \/ Get(c) \/ Delete(c) \/ Exists(c) \/ Scan(c)

Spec == Init /\ [][Next]_vars
=============================================================================
