-------------------------------- MODULE S3Blob --------------------------------
(***************************************************************************)
(* The S3 backend (src/gufo/blob/sync/s3.py; aio/s3.py sends the same      *)
(* requests in the same order) against a bucket.                           *)
(*                                                                         *)
(* The backend keeps nothing between calls: clients meet in the bucket.  A *)
(* call is one HTTP request, except that delete() is HEAD and then DELETE, *)
(* and scan() is one request per page.  The service carries out a request  *)
(* at one instant and its answer comes later, or never: the client gives   *)
(* up, and a request that was still under way may yet be carried out.      *)
(*                                                                         *)
(* A key stands for the object of that name under the bucket prefix.       *)
(***************************************************************************)
EXTENDS Naturals, FiniteSets, FiniteSetsExt

CONSTANTS
    Clients,     \* calls in progress at the same time, of any instances on the bucket
    Keys,        \* numbers, in the order in which objects are listed
    Values,
    Prefixes,
    Under,       \* Under[p]: the keys that start with p
    PageSize,    \* objects in a page of a listing
    MaxFaults,   \* bound: requests that are refused, and requests given up
    None

VARIABLES
    objects,     \* objects[k]: what is stored under k, or None
    request,     \* request[c]: the request of c that has yet to be carried out, or None
    reply,       \* reply[c]: the response to it, on its way, or None
    stray,       \* requests given up that may yet be carried out
    call, ret,
    got,         \* got[c]: the keys c's scan has yielded
    span,        \* span[c]: keys that were there always, and ever, during c's call
    faults

vars == <<objects, request, reply, stray, call, ret, got, span, faults>>

ASSUME KeysAssumption == Keys \subseteq Nat \ {0}
ASSUME UnderAssumption == Under \in [Prefixes -> SUBSET Keys]
ASSUME PageAssumption == PageSize \in Nat \ {0} /\ MaxFaults \in Nat

-----------------------------------------------------------------------------
(* Requests, and how the service carries them out. *)

Get(key) == [method |-> "GET", key |-> key]
Head(key) == [method |-> "HEAD", key |-> key]
PutObject(key, data) == [method |-> "PUT", key |-> key, data |-> data]
DeleteObject(key) == [method |-> "DELETE", key |-> key]
List(prefix, token) == [method |-> "LIST", prefix |-> prefix, token |-> token]

HttpRequests ==
         [method : {"GET", "HEAD", "DELETE"}, key : Keys]
    \cup [method : {"PUT"}, key : Keys, data : Values]
    \cup [method : {"LIST"}, prefix : Prefixes, token : Keys \cup {0}]

Pages == [keys : SUBSET Keys, token : Keys \cup {None}]

HttpResponses ==
    [to : {"GET", "HEAD", "DELETE", "PUT", "LIST"}, status : {200, 204, 404, 503},
     body : Values \cup Pages \cup {None}]

Stored(o) == {k \in Keys : o[k] # None}

Listed(r) == {k \in Stored(objects) \cap Under[r.prefix] : k > r.token}

\* The next page and, if there is more, the token to go on from.
Page(r) ==
    LET first == {k \in Listed(r) : Cardinality({x \in Listed(r) : x < k}) < PageSize}
    IN  [keys |-> first, token |-> IF first = Listed(r) THEN None ELSE Max(first)]

Response(r, status, body) == [to |-> r.method, status |-> status, body |-> body]

Answer(r) ==
    CASE r.method = "PUT"    -> Response(r, 200, None)
      [] r.method = "DELETE" -> Response(r, 204, None)
      [] r.method = "LIST"   -> Response(r, 200, Page(r))
      [] r.method \in {"GET", "HEAD"} ->
            IF objects[r.key] = None THEN Response(r, 404, None)
            ELSE Response(r, 200, objects[r.key])

Performed(r) ==
    CASE r.method = "PUT"    -> [objects EXCEPT ![r.key] = r.data]
      [] r.method = "DELETE" -> [objects EXCEPT ![r.key] = None]
      [] OTHER               -> objects

-----------------------------------------------------------------------------
(* How the client acts on a response. *)

Done      == [raised |-> "nothing"]
KeyError  == [raised |-> "KeyError"]
BlobError == [raised |-> "BlobError"]

\* Mutant: delete() does not ask first.
DeleteAtOnce(key) == DeleteObject(key)

\* delete() asks whether the object is there.
DeleteFirst(key) == Head(key)

First(q) ==
    CASE q.op = "put"    -> PutObject(q.key, q.data)
      [] q.op = "get"    -> Get(q.key)
      [] q.op = "exists" -> Head(q.key)
      [] q.op = "delete" -> DeleteFirst(q.key)
      [] q.op = "scan"   -> List(q.prefix, 0)

\* Mutant: the continuation token is left out of the URL.
NextPageFromStart(q, page) == IF page.token = None THEN None ELSE List(q.prefix, 0)

\* Mutant: only the first page is read.
NoNextPage(q, page) == None

NextPage(q, page) == IF page.token = None THEN None ELSE List(q.prefix, page.token)

\* The request that follows on response r, or None.
Following(q, r) ==
    CASE q.op = "delete" /\ r.to = "HEAD" /\ r.status = 200 -> DeleteObject(q.key)
      [] q.op = "scan" /\ r.status = 200                    -> NextPage(q, r.body)
      [] OTHER                                              -> None

\* Mutant: the body is returned whatever the status.
GetOutcomeAnyBody(r) == [value |-> r.body]

GetOutcome(r) ==
    CASE r.status = 200 -> [value |-> r.body]
      [] r.status = 404 -> KeyError
      [] OTHER          -> BlobError

\* Mutant: any refusal is taken for a missing object.
ExistsOutcomeNotOK(r) == [found |-> r.status = 200]

ExistsOutcome(r) ==
    IF r.status \in {200, 404} THEN [found |-> r.status = 200] ELSE BlobError

\* The outcome when no request follows.  The keys S have been yielded before.
Outcome(q, r, S) ==
    CASE q.op = "get"                       -> GetOutcome(r)
      [] q.op = "exists"                    -> ExistsOutcome(r)
      [] q.op = "put" /\ r.status = 200     -> Done
      [] q.op = "delete" /\ r.to = "HEAD" /\ r.status = 404   -> KeyError
      [] q.op = "delete" /\ r.to = "DELETE" /\ r.status = 204 -> Done
      [] q.op = "scan" /\ r.status = 200    -> [keys |-> S \cup r.body.keys]
      [] OTHER                              -> BlobError

(***************************************************************************)
(* What callers see: the contract of a remote store.  A call has taken     *)
(* effect when the service has carried out the request that decides it.    *)
(***************************************************************************)
Took(c) ==
    IF reply[c] = None \/ Following(call[c], reply[c]) # None THEN None
    ELSE LET o == Outcome(call[c], reply[c], got[c]) IN IF o = BlobError THEN None ELSE o

AsCall(r) ==
    IF r.method = "PUT" THEN [op |-> "put", key |-> r.key, data |-> r.data]
    ELSE [op |-> "delete", key |-> r.key]

Remote == INSTANCE RemoteStore WITH
    store <- objects,
    took <- [c \in Clients |-> Took(c)],
    loose <- {AsCall(s.request) : s \in stray}

ASSUME NoneAssumption ==
    None \notin Keys \cup {0} \cup Values \cup HttpRequests \cup HttpResponses
                \cup Remote!Contract!Requests \cup Remote!Contract!Outcomes

-----------------------------------------------------------------------------

ExactlyNone == [always |-> {}, ever |-> {}]

Init ==
    /\ objects = [k \in Keys |-> None]
    /\ request = [c \in Clients |-> None]
    /\ reply = [c \in Clients |-> None]
    /\ stray = {}
    /\ call = [c \in Clients |-> None]
    /\ ret = [c \in Clients |-> None]
    /\ got = [c \in Clients |-> {}]
    /\ span = [c \in Clients |-> ExactlyNone]
    /\ faults = 0

Concerns(q) == IF q.op = "scan" THEN Under[q.prefix] ELSE {q.key}

Invoke(c) ==
    /\ call[c] = None
    /\ \E q \in Remote!Contract!Requests :
          LET there == Stored(objects) \cap Concerns(q) IN
          /\ call' = [call EXCEPT ![c] = q]
          /\ request' = [request EXCEPT ![c] = First(q)]
          /\ span' = [span EXCEPT ![c] = [always |-> there, ever |-> there]]
    /\ UNCHANGED <<objects, reply, stray, ret, got, faults>>

\* The objects become o.
Becomes(o) ==
    /\ objects' = o
    /\ span' = [c \in Clients |->
          IF call[c] = None THEN span[c]
          ELSE [always |-> span[c].always \cap Stored(o),
                ever   |-> span[c].ever \cup (Stored(o) \cap Concerns(call[c]))]]

\* The service carries out the request of c.
Perform(c) ==
    /\ request[c] # None
    /\ Becomes(Performed(request[c]))
    /\ reply' = [reply EXCEPT ![c] = Answer(request[c])]
    /\ request' = [request EXCEPT ![c] = None]
    /\ UNCHANGED <<stray, call, ret, got, faults>>

\* The service carries out a request whose client has given up.
PerformStray(s) ==
    /\ Becomes(Performed(s.request))
    /\ stray' = stray \ {s}
    /\ UNCHANGED <<request, reply, call, ret, got, faults>>

Fault == faults < MaxFaults /\ faults' = faults + 1

\* The service refuses the request.  503 stands for every status the code does
\* not name, and for a listing that does not parse (common/s3.py:128-130).
Refuse(c) ==
    /\ Fault
    /\ request[c] # None
    /\ reply' = [reply EXCEPT ![c] = Response(request[c], 503, None)]
    /\ request' = [request EXCEPT ![c] = None]
    /\ UNCHANGED <<objects, stray, call, ret, got, span>>

\* The HTTP client raises: no connection, no response in time, a connection
\* cut.  A request under way is lost, or arrives later.
GiveUp(c) ==
    /\ Fault
    /\ request[c] # None \/ reply[c] # None
    /\ \/ UNCHANGED stray
       \/ /\ request[c] # None /\ request[c].method \in {"PUT", "DELETE"}
          /\ stray' = stray \cup {[number |-> faults, request |-> request[c]]}
    /\ request' = [request EXCEPT ![c] = None]
    /\ reply' = [reply EXCEPT ![c] = None]
    /\ ret' = [ret EXCEPT ![c] = BlobError]
    /\ UNCHANGED <<objects, call, got, span>>

\* The response leads to another request.
Follow(c) ==
    /\ reply[c] # None
    /\ Following(call[c], reply[c]) # None
    /\ request' = [request EXCEPT ![c] = Following(call[c], reply[c])]
    /\ reply' = [reply EXCEPT ![c] = None]
    /\ got' = IF call[c].op = "scan" THEN [got EXCEPT ![c] = @ \cup reply[c].body.keys] ELSE got
    /\ UNCHANGED <<objects, stray, call, ret, span, faults>>

Finish(c) ==
    /\ reply[c] # None
    /\ Following(call[c], reply[c]) = None
    /\ ret' = [ret EXCEPT ![c] = Outcome(call[c], reply[c], got[c])]
    /\ reply' = [reply EXCEPT ![c] = None]
    /\ UNCHANGED <<objects, request, stray, call, got, span, faults>>

Return(c) ==
    /\ ret[c] # None
    /\ call' = [call EXCEPT ![c] = None]
    /\ ret' = [ret EXCEPT ![c] = None]
    /\ got' = [got EXCEPT ![c] = {}]
    /\ span' = [span EXCEPT ![c] = ExactlyNone]
    /\ UNCHANGED <<objects, request, reply, stray, faults>>

Next ==
    \/ \E c \in Clients :
          \/ Invoke(c) \/ Return(c)
          \/ Perform(c) \/ Refuse(c) \/ GiveUp(c) \/ Follow(c) \/ Finish(c)
    \/ \E s \in stray : PerformStray(s)

Spec == Init /\ [][Next]_vars

\* The service answers, and a client goes on when a response is there.
FairSpec == Spec /\ \A c \in Clients : WF_vars(Perform(c)) /\ WF_vars(Follow(c) \/ Finish(c))

-----------------------------------------------------------------------------

TypeOK ==
    /\ objects \in [Keys -> Values \cup {None}]
    /\ request \in [Clients -> HttpRequests \cup {None}]
    /\ reply \in [Clients -> HttpResponses \cup {None}]
    /\ stray \subseteq [number : 0 .. MaxFaults - 1, request : HttpRequests]
    /\ call \in [Clients -> Remote!Contract!Requests \cup {None}]
    /\ ret \in [Clients -> Remote!Contract!Outcomes \cup {None}]
    /\ got \in [Clients -> SUBSET Keys]
    /\ span \in [Clients -> [always : SUBSET Keys, ever : SUBSET Keys]]
    /\ faults \in 0 .. MaxFaults

(***************************************************************************)
(* delete() raises KeyError only if the key was missing at some time       *)
(* during the call, and returns only if it was there at some time during   *)
(* it (base.py:143), though its two requests do not look at one moment and *)
(* requests given up may delete or restore the key between them.           *)
(***************************************************************************)
DeleteJustified ==
    \A c \in Clients : ret[c] # None /\ call[c].op = "delete" =>
        /\ ret[c] = KeyError => call[c].key \notin span[c].always
        /\ ret[c] = Done => call[c].key \in span[c].ever

(***************************************************************************)
(* scan() that ends without an error has yielded every key that was there  *)
(* during the whole of it and none that never was, whatever comes and goes *)
(* between its pages.                                                      *)
(***************************************************************************)
ScanFaithful ==
    \A c \in Clients : ret[c] \notin {None, BlobError} /\ call[c].op = "scan" =>
        /\ span[c].always \subseteq ret[c].keys
        /\ ret[c].keys \subseteq span[c].ever

(***************************************************************************)
(* Callers cannot tell the backend from the contract of a remote store:    *)
(* each answer is true of one instant of the call, and a put() or delete() *)
(* that raised has done what it was asked, will do it later, or never.     *)
(***************************************************************************)
ImplementsRemote == Remote!Spec

(***************************************************************************)
(* Every call returns; in particular a scan gets past every page, though   *)
(* keys are added ahead of it.                                             *)
(***************************************************************************)
EveryCallReturns == \A c \in Clients : call[c] # None ~> ret[c] # None
=============================================================================
