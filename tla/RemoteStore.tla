------------------------------ MODULE RemoteStore ------------------------------
(***************************************************************************)
(* What is left of the contract of the base class (src/gufo/blob/sync/     *)
(* base.py) when the store is a service over a network.  An operation that *)
(* returns, or raises KeyError, took effect at one instant of the call.  A *)
(* put() or delete() that raised BlobError may have taken effect, and may  *)
(* still do so when the caller has gone on.  delete() promises that the    *)
(* key was removed, not that it was this call that removed it.  Of what    *)
(* scan() yields this module says nothing.                                 *)
(***************************************************************************)

CONSTANTS
    Clients, Keys, Values, Prefixes, Under, None   \* as in BlobStore

VARIABLES
    store, call, ret,   \* as in BlobStore
    took,     \* took[c]: the outcome of c's request, which c has yet to learn, or None
    loose     \* requests that failed but may still take effect

vars == <<store, call, ret, took, loose>>

Contract == INSTANCE BlobStore

Mutators == {"put", "delete"}

-----------------------------------------------------------------------------

Init ==
    /\ Contract!Init
    /\ took = [c \in Clients |-> None]
    /\ loose = {}

Invoke(c) ==
    /\ Contract!Invoke(c)
    /\ UNCHANGED <<took, loose>>

Return(c) ==
    /\ Contract!Return(c)
    /\ UNCHANGED <<took, loose>>

\* The request of client c takes effect with outcome o.
Takes(c, op, o) ==
    /\ call[c] # None
    /\ call[c].op = op
    /\ ret[c] = None /\ took[c] = None
    /\ took' = [took EXCEPT ![c] = o]
    /\ UNCHANGED <<call, ret, loose>>

\* The map after request r.
After(r) == [store EXCEPT ![r.key] = IF r.op = "put" THEN r.data ELSE None]

Put(c) ==
    /\ Takes(c, "put", Contract!Done)
    /\ store' = After(call[c])

Get(c) ==
    /\ Takes(c, "get", IF store[call[c].key] = None
                       THEN Contract!KeyError
                       ELSE [value |-> store[call[c].key]])
    /\ UNCHANGED store

Exists(c) ==
    /\ Takes(c, "exists", [found |-> store[call[c].key] # None])
    /\ UNCHANGED store

DeleteMissing(c) ==
    /\ Takes(c, "delete", Contract!KeyError)
    /\ store[call[c].key] = None
    /\ UNCHANGED store

DeleteAny(c) ==
    /\ Takes(c, "delete", Contract!Done)
    /\ store' = After(call[c])

Scan(c) ==
    /\ \E S \in SUBSET Keys : Takes(c, "scan", [keys |-> S])
    /\ UNCHANGED store

\* The client learns the outcome.
Replies(c) ==
    /\ took[c] # None
    /\ ret' = [ret EXCEPT ![c] = took[c]]
    /\ took' = [took EXCEPT ![c] = None]
    /\ UNCHANGED <<store, call, loose>>

\* The client gives up, before the request has taken effect or after.
Fails(c) ==
    /\ call[c] # None /\ ret[c] = None
    /\ ret' = [ret EXCEPT ![c] = Contract!BlobError]
    /\ took' = [took EXCEPT ![c] = None]
    /\ \/ UNCHANGED loose
       \/ call[c].op \in Mutators /\ took[c] = None /\ loose' = loose \cup {call[c]}
    /\ UNCHANGED <<store, call>>

\* A failed request takes effect after all.
Late(r) ==
    /\ store' = After(r)
    /\ \/ UNCHANGED loose
       \/ loose' = loose \ {r}
    /\ UNCHANGED <<call, ret, took>>

Next ==
    \/ \E c \in Clients :
          \/ Invoke(c) \/ Return(c)
          \/ Put(c) \/ Get(c) \/ Exists(c) \/ DeleteMissing(c) \/ DeleteAny(c) \/ Scan(c)
          \/ Replies(c) \/ Fails(c)
    \/ \E r \in loose : Late(r)

Spec == Init /\ [][Next]_vars
=============================================================================
