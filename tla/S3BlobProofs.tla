----------------------------- MODULE S3BlobProofs -----------------------------
(***************************************************************************)
(* S3Blob for every number of clients, every set of keys, payloads and     *)
(* prefixes, every page size and every number of faults: delete() answers  *)
(* justly, a scan by pages is faithful, and callers cannot tell the        *)
(* backend from the contract of a remote store.                            *)
(***************************************************************************)
EXTENDS S3Blob, FiniteSetTheorems, WellFoundedInduction, TLAPS

Requests == Remote!Contract!Requests

-----------------------------------------------------------------------------
(* The inductive invariant. *)

\* The requests that call q may have under way.
Asked(q) ==
    CASE q.op = "put"    -> {PutObject(q.key, q.data)}
      [] q.op = "get"    -> {Get(q.key)}
      [] q.op = "exists" -> {Head(q.key)}
      [] q.op = "delete" -> {Head(q.key), DeleteObject(q.key)}
      [] q.op = "scan"   -> {List(q.prefix, token) : token \in Keys \cup {0}}

LooksAt(method) ==
         [to : {method}, status : {200}, body : Values]
    \cup [to : {method}, status : {404, 503}, body : {None}]

\* The responses it may receive.
Answered(q) ==
    CASE q.op = "put"    -> [to : {"PUT"}, status : {200, 503}, body : {None}]
      [] q.op = "get"    -> LooksAt("GET")
      [] q.op = "exists" -> LooksAt("HEAD")
      [] q.op = "delete" -> LooksAt("HEAD")
                            \cup [to : {"DELETE"}, status : {204, 503}, body : {None}]
      [] q.op = "scan"   -> [to : {"LIST"}, status : {200}, body : Pages]
                            \cup [to : {"LIST"}, status : {503}, body : {None}]

\* The outcomes it may have.
Decided(q) ==
    {BlobError} \cup
    CASE q.op = "put"    -> {Done}
      [] q.op = "get"    -> {KeyError} \cup [value : Values]
      [] q.op = "exists" -> [found : BOOLEAN]
      [] q.op = "delete" -> {Done, KeyError}
      [] q.op = "scan"   -> [keys : SUBSET Keys]

\* A call has a request under way, a response to act on, or an outcome.
OneThing(c) ==
    /\ call[c] = None => request[c] = None /\ reply[c] = None /\ ret[c] = None
    /\ request[c] # None => request[c] \in Asked(call[c]) /\ reply[c] = None /\ ret[c] = None
    /\ reply[c] # None => reply[c] \in Answered(call[c]) /\ ret[c] = None
    /\ ret[c] # None => ret[c] \in Decided(call[c])

\* What is there now has been there ever, and includes what was always.
SpanSound(c) ==
    call[c] # None =>
        /\ span[c].always \subseteq Stored(objects) \cap Concerns(call[c])
        /\ Stored(objects) \cap Concerns(call[c]) \subseteq span[c].ever

\* The second request of a delete(), and what follows, rests on the first.
DeleteSound(c) ==
    call[c] # None /\ call[c].op = "delete" =>
        LET missing == call[c].key \notin span[c].always
            there == call[c].key \in span[c].ever
        IN  /\ request[c] # None /\ request[c].method = "DELETE" => there
            /\ reply[c] # None =>
                  /\ reply[c].to = "DELETE" => there
                  /\ reply[c].to = "HEAD" /\ reply[c].status = 200 => there
                  /\ reply[c].to = "HEAD" /\ reply[c].status = 404 => missing
            /\ ret[c] = KeyError => missing
            /\ ret[c] = Done => there

UpTo(S, token) == {k \in S : token = None \/ k <= token}

\* Of the keys that are always there a scan has those up to its token, or
\* all when there is no token.
ScanSound(c) ==
    call[c] # None /\ call[c].op = "scan" =>
        LET always == span[c].always
            ever == span[c].ever
        IN  /\ got[c] \subseteq ever
            /\ request[c] # None => UpTo(always, request[c].token) \subseteq got[c]
            /\ reply[c] # None /\ reply[c].status = 200 =>
                  /\ reply[c].body.keys \subseteq ever
                  /\ UpTo(always, reply[c].body.token) \subseteq got[c] \cup reply[c].body.keys
            /\ ret[c] \notin {None, BlobError} =>
                  always \subseteq ret[c].keys /\ ret[c].keys \subseteq ever

\* Between calls nothing has been yielded.
NothingYielded(c) == call[c] = None => got[c] = {}

ClientSound(c) == OneThing(c) /\ SpanSound(c) /\ DeleteSound(c) /\ ScanSound(c) /\ NothingYielded(c)

\* Of the requests given up only those that change something may matter.
StrayChanges == \A s \in stray : s.request.method \in {"PUT", "DELETE"}

IInv == TypeOK /\ StrayChanges /\ \A c \in Clients : ClientSound(c)

-----------------------------------------------------------------------------
(* Lemmas about the operators. *)

\* A set of natural numbers that is not empty has a smallest element.
LEMMA Smallest ==
    ASSUME NEW S, S \subseteq Nat, S # {}
    PROVE  \E x \in S : \A y \in S : x <= y
<1> DEFINE Less == {p \in Nat \X Nat : p[1] < p[2]}
<1>1. IsWellFoundedOn(Less, Nat)
  BY NatLessThanWellFounded DEF OpToRel
<1> HIDE DEF Less
<1>2. PICK x \in S : \A y \in S : ~ (<<y, x>> \in Less)
  BY <1>1, WFMin
<1>3. \A y \in Nat : y < x => <<y, x>> \in Less
  BY DEF Less
<1>4. \A y \in S : ~ (y < x)
  BY <1>2, <1>3
<1> QED
  BY <1>4

\* One that is bounded has a greatest, and Max is it.
LEMMA Greatest ==
    ASSUME NEW S, S \subseteq Nat, S # {}, NEW n \in Nat, \A x \in S : x <= n
    PROVE  Max(S) \in S /\ \A x \in S : Max(S) >= x
<1> DEFINE Bounds == {u \in Nat : \A x \in S : x <= u}
<1>1. PICK u \in Bounds : \A w \in Bounds : u <= w
  BY Smallest
<1>2. u \in S
  <2> SUFFICES ASSUME u \notin S PROVE FALSE
    OBVIOUS
  <2>1. u \in Nat /\ \A x \in S : x <= u
    BY <1>1
  <2>2. \A x \in S : x \in Nat /\ x < u
    BY <2>1
  <2>3. u # 0
    <3>1. PICK x : x \in S
      OBVIOUS
    <3> QED
      BY <2>1, <2>2, <3>1
  <2>4. u - 1 \in Nat /\ \A x \in S : x <= u - 1
    BY <2>1, <2>2, <2>3
  <2> QED
    BY <1>1, <2>1, <2>4
<1>3. \A x \in S : u >= x
  BY <1>1
<1> QED
  BY <1>2, <1>3 DEF Max

\* Under a prefix there are only keys, and keys are positive numbers.
LEMMA KeyNumbers ==
    /\ \A k \in Keys : k \in Nat /\ k > 0
    /\ None \notin Keys
    /\ \A r : Listed(r) \subseteq Keys /\ Listed(r) \subseteq Nat
<1>1. \A r : Listed(r) \subseteq Keys
  BY DEF Listed, Stored
<1>2. None \notin Keys
  BY NoneAssumption
<1>3. \A k \in Keys : k \in Nat /\ k > 0
  BY KeysAssumption
<1> QED
  BY <1>1, <1>2, <1>3

\* The keys of a page are the first ones: none is skipped up to the token.
LEMMA PageSkipsNone ==
    ASSUME NEW r
    PROVE  /\ Page(r) \in Pages
           /\ Page(r).keys \subseteq Listed(r)
           /\ UpTo(Listed(r), Page(r).token) \subseteq Page(r).keys
<1> DEFINE L == Listed(r)
           Below(k) == {x \in L : x < k}
           F == {k \in L : Cardinality(Below(k)) < PageSize}
<1>1. Page(r) = [keys |-> F, token |-> IF F = L THEN None ELSE Max(F)]
  BY DEF Page
<1>2. L \subseteq Nat /\ L \subseteq Keys
  BY KeyNumbers
<1>3. \A k \in L : IsFiniteSet(Below(k)) /\ Cardinality(Below(k)) \in Nat
  <2> SUFFICES ASSUME NEW k \in L
               PROVE  IsFiniteSet(Below(k)) /\ Cardinality(Below(k)) \in Nat
    OBVIOUS
  <2>1. Below(k) \subseteq 0 .. k
    BY <1>2
  <2>2. IsFiniteSet(0 .. k)
    BY <1>2, FS_Interval
  <2> QED
    BY <2>1, <2>2, FS_Subset, FS_CardinalityType
<1>4. ASSUME NEW j \in L, NEW k \in F, j <= k
      PROVE  j \in F
  <2>1. Below(j) \subseteq Below(k)
    BY <1>2, <1>4
  <2>2. Cardinality(Below(j)) <= Cardinality(Below(k))
    BY <1>3, <2>1, FS_Subset
  <2>3. Cardinality(Below(k)) < PageSize
    OBVIOUS
  <2>4. Cardinality(Below(j)) \in Nat /\ Cardinality(Below(k)) \in Nat
    BY <1>3
  <2> QED
    BY <2>2, <2>3, <2>4, PageAssumption
<1>5. CASE F = L
  BY <1>1, <1>2, <1>5 DEF Pages, UpTo
<1>6. CASE F # L
  <2>1. PICK n \in L : n \notin F
    BY <1>6
  <2>2. PICK m \in L : \A k \in L : m <= k
    BY <1>2, <2>1, Smallest
  <2>3. m \in F
    <3>1. Below(m) = {}
      BY <1>2, <2>2
    <3> QED
      BY <3>1, FS_EmptySet, PageAssumption
  <2>4. \A k \in F : k <= n
    BY <1>2, <1>4, <2>1
  <2>5. F \subseteq Nat /\ n \in Nat
    BY <1>2
  <2> HIDE DEF F
  <2>6. Max(F) \in F
    BY <2>3, <2>4, <2>5, Greatest
  <2>7. F \subseteq L
    BY DEF F
  <2>8. Max(F) # None
    BY <1>2, <2>6, <2>7, KeyNumbers
  <2>9. \A k \in L : k <= Max(F) => k \in F
    BY <1>4, <2>6
  <2> QED
    BY <1>1, <1>2, <1>6, <2>6, <2>7, <2>8, <2>9 DEF Pages, UpTo
<1> QED
  BY <1>5, <1>6

\* The forms of a call.
LEMMA CallForms ==
    ASSUME NEW q \in Requests
    PROVE  /\ q # None
           /\ q.op \in {"put", "get", "delete", "exists", "scan"}
           /\ q.op # "scan" => q.key \in Keys
           /\ q.op = "put" =>
                 q.data \in Values /\ q = [op |-> "put", key |-> q.key, data |-> q.data]
           /\ q.op = "delete" => q = [op |-> "delete", key |-> q.key]
           /\ q.op = "scan" => q.prefix \in Prefixes
BY NoneAssumption DEF Requests, Remote!Contract!Requests

\* The forms of its requests.
LEMMA AskedForms ==
    ASSUME NEW q \in Requests, NEW r \in Asked(q)
    PROVE  /\ r \in HttpRequests /\ r # None
           /\ q.op = "put" => r = PutObject(q.key, q.data)
           /\ q.op = "get" => r = Get(q.key)
           /\ q.op = "exists" => r = Head(q.key)
           /\ q.op = "delete" => r \in {Head(q.key), DeleteObject(q.key)}
           /\ q.op = "scan" => r = List(q.prefix, r.token) /\ r.token \in Keys \cup {0}
<1>1. /\ q.op = "put" => r = PutObject(q.key, q.data)
      /\ q.op = "get" => r = Get(q.key)
      /\ q.op = "exists" => r = Head(q.key)
      /\ q.op = "delete" => r \in {Head(q.key), DeleteObject(q.key)}
      /\ q.op = "scan" => \E token \in Keys \cup {0} : r = List(q.prefix, token)
  BY CallForms DEF Asked
<1>2. q.op = "scan" => r = List(q.prefix, r.token) /\ r.token \in Keys \cup {0}
  BY <1>1 DEF List
<1>3. r \in HttpRequests
  BY <1>1, CallForms DEF HttpRequests, PutObject, Get, Head, DeleteObject, List
<1> QED
  BY <1>1, <1>2, <1>3, NoneAssumption

\* The first request is one of them.
LEMMA FirstAsked ==
    ASSUME NEW q \in Requests
    PROVE  /\ First(q) \in Asked(q)
           /\ q.op = "scan" => First(q).token = 0
           /\ q.op = "delete" => First(q).method = "HEAD"
BY CallForms DEF First, DeleteFirst, Asked, List, Head

\* The forms of its responses.
LEMMA AnsweredForms ==
    ASSUME NEW q \in Requests, NEW p \in Answered(q)
    PROVE  /\ p \in HttpResponses /\ p # None
           /\ q.op = "put" => p.to = "PUT" /\ p.status \in {200, 503}
           /\ q.op = "get" => p.to = "GET" /\ p.status \in {200, 404, 503}
                              /\ (p.status = 200 => p.body \in Values)
           /\ q.op = "exists" => p.to = "HEAD" /\ p.status \in {200, 404, 503}
           /\ q.op = "delete" => \/ p.to = "HEAD" /\ p.status \in {200, 404, 503}
                                 \/ p.to = "DELETE" /\ p.status \in {204, 503}
           /\ q.op = "scan" => p.to = "LIST" /\ p.status \in {200, 503}
                              /\ (p.status = 200 => p.body \in Pages)
<1>1. p \in HttpResponses
  BY CallForms DEF Answered, LooksAt, HttpResponses
<1>2. p # None
  BY <1>1, NoneAssumption
<1> QED
  BY <1>1, <1>2, CallForms DEF Answered, LooksAt

\* The service answers a request with one of them, or refuses it.
LEMMA AnswerForms ==
    ASSUME objects \in [Keys -> Values \cup {None}],
           NEW q \in Requests, NEW r \in Asked(q)
    PROVE  /\ Answer(r) \in Answered(q)
           /\ Response(r, 503, None) \in Answered(q)
           /\ Performed(r) \in [Keys -> Values \cup {None}]
<1>1. CASE q.op = "put"
  BY <1>1, AskedForms, CallForms DEF Answer, Response, Performed, Answered, PutObject
<1>2. CASE q.op = "get"
  BY <1>2, AskedForms, CallForms DEF Answer, Response, Performed, Answered, LooksAt, Get
<1>3. CASE q.op = "exists"
  BY <1>3, AskedForms, CallForms DEF Answer, Response, Performed, Answered, LooksAt, Head
<1>4. CASE q.op = "delete"
  BY <1>4, AskedForms, CallForms
  DEF Answer, Response, Performed, Answered, LooksAt, Head, DeleteObject
<1>5. CASE q.op = "scan"
  <2>1. Page(r) \in Pages
    BY PageSkipsNone
  <2>2. r.method = "LIST"
    BY <1>5, AskedForms DEF List
  <2> QED
    BY <1>5, <2>1, <2>2 DEF Answer, Response, Performed, Answered
<1> QED
  BY <1>1, <1>2, <1>3, <1>4, <1>5, CallForms

\* What follows on a response is a request of the call, or an outcome.
LEMMA FollowingForms ==
    ASSUME NEW q \in Requests, NEW p \in Answered(q)
    PROVE  /\ Following(q, p) # None => Following(q, p) \in Asked(q)
           /\ q.op \notin {"delete", "scan"} => Following(q, p) = None
           /\ q.op = "delete" =>
                 IF p.to = "HEAD" /\ p.status = 200
                 THEN Following(q, p) = DeleteObject(q.key) /\ Following(q, p) # None
                 ELSE Following(q, p) = None
           /\ q.op = "scan" =>
                 IF p.status = 200 /\ p.body.token # None
                 THEN Following(q, p) = List(q.prefix, p.body.token) /\ Following(q, p) # None
                 ELSE Following(q, p) = None
<1>1. CASE q.op = "delete"
  <2>1. DeleteObject(q.key) \in HttpRequests
    BY <1>1, CallForms DEF DeleteObject, HttpRequests
  <2> QED
    BY <1>1, <2>1, NoneAssumption DEF Following, Asked
<1>2. CASE q.op = "scan"
  <2>1. CASE p.status = 200
    <3>1. p.body.token \in Keys \cup {None}
      BY <1>2, <2>1, AnsweredForms DEF Pages
    <3>2. p.body.token # None => List(q.prefix, p.body.token) \in HttpRequests
      BY <1>2, <3>1, CallForms DEF List, HttpRequests
    <3> QED
      BY <1>2, <2>1, <3>1, <3>2, NoneAssumption DEF Following, NextPage, Asked
  <2> QED
    BY <1>2, <2>1 DEF Following
<1> QED
  BY <1>1, <1>2 DEF Following

LEMMA OutcomeForms ==
    ASSUME NEW q \in Requests, NEW p \in Answered(q), NEW S \in SUBSET Keys,
           Following(q, p) = None
    PROVE  Outcome(q, p, S) \in Decided(q)
<1>1. CASE q.op = "put"
  BY <1>1, AnsweredForms DEF Outcome, Decided
<1>2. CASE q.op = "get"
  BY <1>2, AnsweredForms DEF Outcome, GetOutcome, Decided
<1>3. CASE q.op = "exists"
  BY <1>3, AnsweredForms DEF Outcome, ExistsOutcome, Decided
<1>4. CASE q.op = "delete"
  BY <1>4, AnsweredForms, FollowingForms DEF Outcome, Decided
<1>5. CASE q.op = "scan"
  BY <1>5, AnsweredForms DEF Outcome, Decided, Pages
<1> QED
  BY <1>1, <1>2, <1>3, <1>4, <1>5, CallForms

\* The outcomes of a call are those of the contract.
LEMMA DecidedForms ==
    ASSUME NEW q \in Requests, NEW o \in Decided(q)
    PROVE  o \in Remote!Contract!Outcomes /\ o # None
<1>1. o \in Remote!Contract!Outcomes
  BY CallForms DEF Decided, Remote!Contract!Outcomes, Done, KeyError, BlobError,
     Remote!Contract!Done, Remote!Contract!KeyError, Remote!Contract!BlobError
<1> QED
  BY <1>1, NoneAssumption

\* The three exceptions, and the outcomes that carry something, differ.
LEMMA OutcomesDiffer ==
    /\ Done # KeyError /\ Done # BlobError /\ KeyError # BlobError
    /\ \A x : BlobError \notin {[value |-> x], [found |-> x], [keys |-> x]}
    /\ BlobError # None /\ Done # None /\ KeyError # None
<1>1. /\ Done # KeyError /\ Done # BlobError /\ KeyError # BlobError
      /\ \A x : BlobError \notin {[value |-> x], [found |-> x], [keys |-> x]}
  BY DEF Done, KeyError, BlobError
<1>2. {Done, KeyError, BlobError} \subseteq Remote!Contract!Outcomes
  BY DEF Done, KeyError, BlobError, Remote!Contract!Outcomes,
     Remote!Contract!Done, Remote!Contract!KeyError, Remote!Contract!BlobError
<1> QED
  BY <1>1, <1>2, NoneAssumption

-----------------------------------------------------------------------------
(* Every step keeps the invariant. *)

\* A change of the bucket and its effect on what calls have had to see.
LEMMA BecomesKeeps ==
    ASSUME TypeOK, NEW o \in [Keys -> Values \cup {None}], Becomes(o), call' = call
    PROVE  /\ objects' = o
           /\ span' \in [Clients -> [always : SUBSET Keys, ever : SUBSET Keys]]
           /\ \A c \in Clients :
                 /\ span'[c].always \subseteq span[c].always
                 /\ span[c].ever \subseteq span'[c].ever
                 /\ SpanSound(c) => SpanSound(c)'
                 /\ call[c] # None =>
                       /\ span'[c].always \subseteq Stored(o)
                       /\ Stored(o) \cap Concerns(call[c]) \subseteq span'[c].ever
<1> DEFINE always(c) == span[c].always \cap Stored(o)
           ever(c) == span[c].ever \cup (Stored(o) \cap Concerns(call[c]))
<1>1. /\ \A c \in Clients : span[c] \in [always : SUBSET Keys, ever : SUBSET Keys]
      /\ span' = [c \in Clients |->
            IF call[c] = None THEN span[c] ELSE [always |-> always(c), ever |-> ever(c)]]
  BY DEF TypeOK, Becomes
<1>2. Stored(o) \subseteq Keys /\ objects' = o
  BY DEF Stored, Becomes
<1>3. span' \in [Clients -> [always : SUBSET Keys, ever : SUBSET Keys]]
  <2>1. ASSUME NEW c \in Clients
        PROVE  [always |-> always(c), ever |-> ever(c)] \in [always : SUBSET Keys, ever : SUBSET Keys]
    <3>1. always(c) \in SUBSET Keys /\ ever(c) \in SUBSET Keys
      BY <1>1, <1>2
    <3> QED
      BY <3>1
  <2> HIDE DEF always, ever
  <2> QED
    BY <1>1, <2>1
<1>4. ASSUME NEW c \in Clients, call[c] # None
      PROVE  span'[c].always = always(c) /\ span'[c].ever = ever(c)
  <2> HIDE DEF always, ever
  <2>1. span'[c] = [always |-> always(c), ever |-> ever(c)]
    BY <1>1, <1>4
  <2> QED
    BY <2>1
<1>5. ASSUME NEW c \in Clients, SpanSound(c) PROVE SpanSound(c)'
  <2>1. CASE call[c] = None
    BY <2>1 DEF SpanSound
  <2>2. CASE call[c] # None
    <3>1. span'[c].always \subseteq Stored(objects)' \cap Concerns(call[c])'
      BY <1>2, <1>4, <1>5, <2>2 DEF SpanSound, Stored, Concerns
    <3>2. Stored(objects)' \cap Concerns(call[c])' \subseteq span'[c].ever
      BY <1>2, <1>4, <2>2 DEF Stored, Concerns
    <3> QED
      BY <3>1, <3>2 DEF SpanSound
  <2> QED
    BY <2>1, <2>2
<1>6. ASSUME NEW c \in Clients
      PROVE  span'[c].always \subseteq span[c].always /\ span[c].ever \subseteq span'[c].ever
  BY <1>1, <1>4
<1> QED
  BY <1>2, <1>3, <1>4, <1>5, <1>6

\* A client of which a step only narrows, or widens, what it may see.
LEMMA Undisturbed ==
    ASSUME NEW d \in Clients, OneThing(d), DeleteSound(d), ScanSound(d), NothingYielded(d),
           call'[d] = call[d], request'[d] = request[d], reply'[d] = reply[d],
           ret'[d] = ret[d], got'[d] = got[d],
           span'[d].always \subseteq span[d].always, span[d].ever \subseteq span'[d].ever
    PROVE  OneThing(d)' /\ DeleteSound(d)' /\ ScanSound(d)' /\ NothingYielded(d)'
<1>1. OneThing(d)' /\ NothingYielded(d)'
  BY DEF OneThing, NothingYielded
<1>2. DeleteSound(d)'
  BY DEF DeleteSound
<1>3. ScanSound(d)'
  BY DEF ScanSound, UpTo
<1> QED
  BY <1>1, <1>2, <1>3

\* One whom a step does not concern at all.
LEMMA Untouched ==
    ASSUME NEW d \in Clients, ClientSound(d), objects' = objects,
           call'[d] = call[d], request'[d] = request[d], reply'[d] = reply[d],
           ret'[d] = ret[d], got'[d] = got[d], span'[d] = span[d]
    PROVE  ClientSound(d)'
<1>1. SpanSound(d)'
  BY DEF ClientSound, SpanSound, Stored, Concerns
<1>2. OneThing(d)' /\ DeleteSound(d)' /\ ScanSound(d)' /\ NothingYielded(d)'
  BY Undisturbed DEF ClientSound
<1> QED
  BY <1>1, <1>2 DEF ClientSound

LEMMA InitIInv == Init => IInv
<1> SUFFICES ASSUME Init PROVE IInv
  OBVIOUS
<1>1. TypeOK
  BY PageAssumption DEF Init, TypeOK, ExactlyNone
<1>2. StrayChanges
  BY DEF Init, StrayChanges
<1>3. \A c \in Clients : ClientSound(c)
  BY DEF Init, ClientSound, OneThing, SpanSound, DeleteSound, ScanSound, NothingYielded
<1> QED
  BY <1>1, <1>2, <1>3 DEF IInv

LEMMA InvokeKeeps ==
    ASSUME IInv, NEW c \in Clients, Invoke(c)
    PROVE  IInv'
<1> DEFINE there(q) == Stored(objects) \cap Concerns(q)
<1>1. PICK q \in Requests :
          /\ call' = [call EXCEPT ![c] = q]
          /\ request' = [request EXCEPT ![c] = First(q)]
          /\ span' = [span EXCEPT ![c] = [always |-> there(q), ever |-> there(q)]]
  BY DEF Invoke, Requests
<1>2. /\ First(q) \in Asked(q) /\ First(q) \in HttpRequests
      /\ First(q) # None /\ q # None
  BY FirstAsked, AskedForms, CallForms
<1>3. there(q) \subseteq Keys
  BY DEF Stored
<1>4. call[c] = None /\ UNCHANGED <<objects, reply, stray, ret, got, faults>>
  BY DEF Invoke
<1>5. TypeOK'
  BY <1>1, <1>2, <1>3, <1>4 DEF IInv, TypeOK, Requests
<1>6. StrayChanges'
  BY <1>4 DEF IInv, StrayChanges
<1>7. ASSUME NEW d \in Clients, d # c PROVE ClientSound(d)'
  <2>1. call'[d] = call[d] /\ request'[d] = request[d] /\ span'[d] = span[d]
    BY <1>1, <1>7 DEF IInv, TypeOK
  <2> QED
    BY <1>4, <2>1, Untouched DEF IInv
<1>8. ClientSound(c)'
  <2>1. /\ call'[c] = q /\ request'[c] = First(q)
        /\ span'[c] = [always |-> there(q), ever |-> there(q)]
        /\ reply'[c] = None /\ ret'[c] = None /\ got'[c] = {}
    BY <1>1, <1>4 DEF IInv, TypeOK, ClientSound, OneThing, NothingYielded
  <2>2. OneThing(c)' /\ NothingYielded(c)'
    BY <1>2, <2>1 DEF OneThing, NothingYielded
  <2>3. SpanSound(c)'
    BY <1>4, <2>1 DEF SpanSound, Stored, Concerns
  <2>4. DeleteSound(c)'
    BY <2>1, FirstAsked, OutcomesDiffer DEF DeleteSound
  <2>5. ScanSound(c)'
    <3>1. UpTo(there(q), 0) = {}
      BY <1>3, KeyNumbers, NoneAssumption DEF UpTo
    <3> QED
      BY <1>2, <2>1, <3>1, FirstAsked DEF ScanSound, UpTo
  <2> QED
    BY <2>2, <2>3, <2>4, <2>5 DEF ClientSound
<1> QED
  BY <1>5, <1>6, <1>7, <1>8 DEF IInv

\* A request under way, or a response to act on, belongs to a call.
LEMMA InCall ==
    ASSUME IInv, NEW c \in Clients, request[c] # None \/ reply[c] # None \/ ret[c] # None
    PROVE  call[c] # None /\ call[c] \in Requests
BY DEF IInv, ClientSound, OneThing, TypeOK, Requests

LEMMA PerformKeeps ==
    ASSUME IInv, NEW c \in Clients, Perform(c)
    PROVE  IInv'
<1> DEFINE q == call[c]
           r == request[c]
           o == Performed(r)
<1>1. /\ r # None /\ q # None /\ q \in Requests /\ r \in Asked(q)
      /\ reply[c] = None /\ ret[c] = None
  BY InCall DEF Perform, IInv, ClientSound, OneThing
<1>2. /\ Answer(r) \in Answered(q) /\ o \in [Keys -> Values \cup {None}]
      /\ Answer(r) \in HttpResponses /\ Answer(r) # None
  BY <1>1, AnswerForms, AnsweredForms DEF IInv, TypeOK
<1>3. /\ Becomes(o)
      /\ reply' = [reply EXCEPT ![c] = Answer(r)]
      /\ request' = [request EXCEPT ![c] = None]
      /\ UNCHANGED <<stray, call, ret, got, faults>>
  BY DEF Perform
<1>4. /\ objects' = o
      /\ span' \in [Clients -> [always : SUBSET Keys, ever : SUBSET Keys]]
      /\ \A d \in Clients :
            /\ span'[d].always \subseteq span[d].always
            /\ span[d].ever \subseteq span'[d].ever
            /\ SpanSound(d) => SpanSound(d)'
            /\ call[d] # None =>
                  /\ span'[d].always \subseteq Stored(o)
                  /\ Stored(o) \cap Concerns(call[d]) \subseteq span'[d].ever
  <2> HIDE DEF o
  <2> QED
    BY <1>2, <1>3, BecomesKeeps DEF IInv
<1>5. TypeOK'
  BY <1>2, <1>3, <1>4 DEF IInv, TypeOK
<1>6. StrayChanges'
  BY <1>3 DEF IInv, StrayChanges
<1>7. ASSUME NEW d \in Clients, d # c PROVE ClientSound(d)'
  <2>1. call'[d] = call[d] /\ request'[d] = request[d] /\ reply'[d] = reply[d]
    BY <1>3, <1>7 DEF IInv, TypeOK
  <2> QED
    BY <1>3, <1>4, <2>1, Undisturbed DEF IInv, ClientSound
<1>8. ClientSound(c)'
  <2>1. /\ call'[c] = q /\ request'[c] = None /\ reply'[c] = Answer(r)
        /\ ret'[c] = None /\ got'[c] = got[c]
    BY <1>1, <1>3 DEF IInv, TypeOK
  <2>2. SpanSound(c)
    BY DEF IInv, ClientSound
  <2>3. OneThing(c)' /\ NothingYielded(c)'
    BY <1>1, <1>2, <2>1 DEF OneThing, NothingYielded
  <2>4. SpanSound(c)'
    BY <1>4, <2>2
  <2>5. DeleteSound(c)'
    <3> SUFFICES ASSUME q.op = "delete" PROVE DeleteSound(c)'
      BY <2>1 DEF DeleteSound
    <3>1. q.key \in Keys /\ Concerns(q) = {q.key}
      BY <1>1, CallForms DEF Concerns
    <3>2. CASE r = Head(q.key)
      <4>1. o = objects /\ Answer(r).to = "HEAD"
        BY <3>2 DEF Performed, Answer, Response, Head
      <4>2. Answer(r).status = 200 => q.key \in span'[c].ever
        BY <1>1, <1>4, <3>1, <3>2, <4>1 DEF Answer, Response, Head, Stored
      <4>3. Answer(r).status = 404 => q.key \notin span'[c].always
        BY <1>1, <1>4, <3>1, <3>2, <4>1 DEF Answer, Response, Head, Stored
      <4> QED
        BY <2>1, <4>1, <4>2, <4>3, OutcomesDiffer DEF DeleteSound
    <3>3. CASE r = DeleteObject(q.key)
      <4>1. Answer(r).to = "DELETE"
        BY <3>3 DEF Answer, Response, DeleteObject
      <4>2. q.key \in span'[c].ever
        BY <1>1, <1>4, <3>3 DEF IInv, ClientSound, DeleteSound, DeleteObject
      <4> QED
        BY <2>1, <4>1, <4>2, OutcomesDiffer DEF DeleteSound
    <3> QED
      BY <1>1, <3>2, <3>3, AskedForms
  <2>6. ScanSound(c)'
    <3> SUFFICES ASSUME q.op = "scan" PROVE ScanSound(c)'
      BY <2>1 DEF ScanSound
    <3> DEFINE page == Page(r)
    <3>1. r = List(q.prefix, r.token) /\ r.token \in Keys \cup {0}
      BY <1>1, AskedForms
    <3>2. r.method = "LIST" /\ r.prefix = q.prefix /\ r.token \in Nat
      BY <3>1, KeyNumbers DEF List
    <3>3. Answer(r).status = 200 /\ Answer(r).body = page /\ o = objects
      BY <3>2 DEF Answer, Response, Performed
    <3>4. Listed(r) = {k \in Stored(objects) \cap Concerns(q) : k > r.token}
      BY <3>2 DEF Listed, Concerns
    <3>5. page.keys \subseteq Listed(r) /\ UpTo(Listed(r), page.token) \subseteq page.keys
      BY PageSkipsNone
    <3> HIDE DEF page
    <3>6. page.keys \subseteq span'[c].ever
      BY <1>1, <1>4, <3>3, <3>4, <3>5
    <3>7. span'[c].always \subseteq span[c].always /\ span[c].always \subseteq Stored(objects) \cap Concerns(q)
      BY <1>1, <1>4, <2>2 DEF SpanSound
    <3>8. UpTo(span[c].always, r.token) \subseteq got[c] /\ got[c] \subseteq span'[c].ever
      BY <1>1, <1>4 DEF IInv, ClientSound, ScanSound
    <3>9. ASSUME NEW k \in UpTo(span'[c].always, page.token) PROVE k \in got[c] \cup page.keys
      <4>1. k \in span[c].always /\ k \in Nat
        BY <3>7, KeyNumbers DEF UpTo, Stored
      <4>2. CASE k <= r.token
        BY <3>8, <4>1, <4>2 DEF UpTo
      <4>3. CASE k > r.token
        <5>1. k \in Listed(r)
          BY <3>4, <3>7, <4>1, <4>3
        <5> QED
          BY <3>5, <5>1 DEF UpTo
      <4> QED
        BY <3>2, <4>1, <4>2, <4>3
    <3> QED
      BY <2>1, <3>3, <3>6, <3>8, <3>9, <1>1 DEF ScanSound, UpTo
  <2> QED
    BY <2>3, <2>4, <2>5, <2>6 DEF ClientSound
<1> QED
  BY <1>5, <1>6, <1>7, <1>8 DEF IInv

LEMMA PerformStrayKeeps ==
    ASSUME IInv, NEW s \in stray, PerformStray(s)
    PROVE  IInv'
<1> DEFINE o == Performed(s.request)
<1>1. s.request \in HttpRequests /\ s.request.method \in {"PUT", "DELETE"}
  BY DEF IInv, TypeOK, StrayChanges
<1>2. o \in [Keys -> Values \cup {None}]
  BY <1>1 DEF IInv, TypeOK, HttpRequests, Performed
<1>3. Becomes(o) /\ stray' = stray \ {s} /\ UNCHANGED <<request, reply, call, ret, got, faults>>
  BY DEF PerformStray
<1> HIDE DEF o
<1>4. /\ objects' = o
      /\ span' \in [Clients -> [always : SUBSET Keys, ever : SUBSET Keys]]
      /\ \A d \in Clients :
            /\ span'[d].always \subseteq span[d].always
            /\ span[d].ever \subseteq span'[d].ever
            /\ SpanSound(d) => SpanSound(d)'
  BY <1>2, <1>3, BecomesKeeps DEF IInv
<1>5. TypeOK'
  BY <1>2, <1>3, <1>4 DEF IInv, TypeOK
<1>6. StrayChanges'
  BY <1>3 DEF IInv, StrayChanges
<1>7. ASSUME NEW d \in Clients PROVE ClientSound(d)'
  BY <1>3, <1>4, Undisturbed DEF IInv, ClientSound
<1> QED
  BY <1>5, <1>6, <1>7 DEF IInv

LEMMA RefuseKeeps ==
    ASSUME IInv, NEW c \in Clients, Refuse(c)
    PROVE  IInv'
<1> DEFINE q == call[c]
           p == Response(request[c], 503, None)
<1>1. q # None /\ q \in Requests /\ request[c] # None /\ request[c] \in Asked(q) /\ ret[c] = None
  BY InCall DEF Refuse, IInv, ClientSound, OneThing
<1>2. p \in Answered(q) /\ p \in HttpResponses /\ p # None /\ p.status = 503 /\ p.to = request[c].method
  <2>1. p.status = 503 /\ p.to = request[c].method
    BY DEF Response
  <2>2. p \in Answered(q)
    BY <1>1, AnswerForms DEF IInv, TypeOK
  <2> QED
    BY <1>1, <2>1, <2>2, AnsweredForms
<1>3. /\ reply' = [reply EXCEPT ![c] = p] /\ request' = [request EXCEPT ![c] = None]
      /\ UNCHANGED <<objects, stray, call, ret, got, span>>
      /\ faults < MaxFaults /\ faults' = faults + 1
  BY DEF Refuse, Fault
<1> HIDE DEF p
<1>4. TypeOK'
  BY <1>2, <1>3, PageAssumption DEF IInv, TypeOK
<1>5. StrayChanges'
  BY <1>3 DEF IInv, StrayChanges
<1>6. ASSUME NEW d \in Clients, d # c PROVE ClientSound(d)'
  <2>1. request'[d] = request[d] /\ reply'[d] = reply[d]
    BY <1>3, <1>6 DEF IInv, TypeOK
  <2> QED
    BY <1>3, <2>1, Untouched DEF IInv
<1>7. ClientSound(c)'
  <2>1. /\ call'[c] = q /\ request'[c] = None /\ reply'[c] = p /\ ret'[c] = None
        /\ got'[c] = got[c] /\ span'[c] = span[c]
    BY <1>1, <1>3 DEF IInv, TypeOK
  <2>2. OneThing(c)' /\ NothingYielded(c)'
    BY <1>1, <1>2, <2>1 DEF OneThing, NothingYielded
  <2>3. SpanSound(c)'
    BY <1>3, <2>1 DEF IInv, ClientSound, SpanSound, Stored, Concerns
  <2>4. DeleteSound(c)'
    <3>1. DeleteSound(c)
      BY DEF IInv, ClientSound
    <3>2. q.op = "delete" /\ request[c].method = "DELETE" => q.key \in span[c].ever
      BY <1>1, <3>1 DEF DeleteSound
    <3> QED
      BY <1>2, <2>1, <3>2, OutcomesDiffer DEF DeleteSound
  <2>5. ScanSound(c)'
    BY <1>1, <1>2, <2>1 DEF IInv, ClientSound, ScanSound
  <2> QED
    BY <2>2, <2>3, <2>4, <2>5 DEF ClientSound
<1> QED
  BY <1>4, <1>5, <1>6, <1>7 DEF IInv

LEMMA GiveUpKeeps ==
    ASSUME IInv, NEW c \in Clients, GiveUp(c)
    PROVE  IInv'
<1> DEFINE q == call[c]
<1>1. q # None /\ q \in Requests
  BY InCall DEF GiveUp
<1>2. BlobError \in Decided(q) /\ BlobError \in Remote!Contract!Outcomes /\ BlobError # None
  BY <1>1, DecidedForms DEF Decided
<1>3. /\ request' = [request EXCEPT ![c] = None] /\ reply' = [reply EXCEPT ![c] = None]
      /\ ret' = [ret EXCEPT ![c] = BlobError]
      /\ UNCHANGED <<objects, call, got, span>>
      /\ faults < MaxFaults /\ faults' = faults + 1
  BY DEF GiveUp, Fault
<1>4. \/ stray' = stray
      \/ /\ request[c] \in HttpRequests /\ request[c].method \in {"PUT", "DELETE"}
         /\ stray' = stray \cup {[number |-> faults, request |-> request[c]]}
  BY DEF GiveUp, IInv, TypeOK
<1>5. TypeOK'
  <2>1. faults \in 0 .. MaxFaults - 1 /\ faults' \in 0 .. MaxFaults
    BY <1>3, PageAssumption DEF IInv, TypeOK
  <2>2. stray' \subseteq [number : 0 .. MaxFaults - 1, request : HttpRequests]
    BY <1>4, <2>1 DEF IInv, TypeOK
  <2> QED
    BY <1>2, <1>3, <2>1, <2>2 DEF IInv, TypeOK
<1>6. StrayChanges'
  <2>1. ASSUME NEW s \in stray' PROVE s.request.method \in {"PUT", "DELETE"}
    <3>1. s \in stray \/ (s.request = request[c] /\ request[c].method \in {"PUT", "DELETE"})
      BY <1>4
    <3> QED
      BY <3>1 DEF IInv, StrayChanges
  <2> QED
    BY <2>1 DEF StrayChanges
<1>7. ASSUME NEW d \in Clients, d # c PROVE ClientSound(d)'
  <2>1. request'[d] = request[d] /\ reply'[d] = reply[d] /\ ret'[d] = ret[d]
    BY <1>3, <1>7 DEF IInv, TypeOK
  <2> QED
    BY <1>3, <2>1, Untouched DEF IInv
<1>8. ClientSound(c)'
  <2>1. /\ call'[c] = q /\ request'[c] = None /\ reply'[c] = None /\ ret'[c] = BlobError
        /\ got'[c] = got[c] /\ span'[c] = span[c]
    BY <1>3 DEF IInv, TypeOK
  <2>2. OneThing(c)' /\ NothingYielded(c)'
    BY <1>1, <1>2, <2>1 DEF OneThing, NothingYielded
  <2>3. SpanSound(c)'
    BY <1>3, <2>1 DEF IInv, ClientSound, SpanSound, Stored, Concerns
  <2>4. DeleteSound(c)' /\ ScanSound(c)'
    BY <1>1, <2>1, OutcomesDiffer DEF IInv, ClientSound, DeleteSound, ScanSound
  <2> QED
    BY <2>2, <2>3, <2>4 DEF ClientSound
<1> QED
  BY <1>5, <1>6, <1>7, <1>8 DEF IInv

LEMMA FollowKeeps ==
    ASSUME IInv, NEW c \in Clients, Follow(c)
    PROVE  IInv'
<1> DEFINE q == call[c]
           p == reply[c]
           r == Following(q, p)
<1>1. q # None /\ q \in Requests /\ p # None /\ p \in Answered(q) /\ ret[c] = None /\ r # None
  BY InCall DEF Follow, IInv, ClientSound, OneThing
<1>2. r \in Asked(q) /\ r \in HttpRequests
  BY <1>1, FollowingForms, AskedForms
<1>3. /\ request' = [request EXCEPT ![c] = r] /\ reply' = [reply EXCEPT ![c] = None]
      /\ got' = IF q.op = "scan" THEN [got EXCEPT ![c] = @ \cup p.body.keys] ELSE got
      /\ UNCHANGED <<objects, stray, call, ret, span, faults>>
  BY DEF Follow
<1>4. q.op = "scan" => /\ p.status = 200 /\ p.body \in Pages /\ p.body.token # None
                       /\ r = List(q.prefix, p.body.token)
  BY <1>1, FollowingForms, AnsweredForms
<1>5. q.op = "delete" => p.to = "HEAD" /\ p.status = 200
  BY <1>1, FollowingForms
<1> HIDE DEF r
<1>6. TypeOK'
  <2>1. got' \in [Clients -> SUBSET Keys]
    BY <1>3, <1>4 DEF IInv, TypeOK, Pages
  <2> QED
    BY <1>2, <1>3, <2>1 DEF IInv, TypeOK
<1>7. StrayChanges'
  BY <1>3 DEF IInv, StrayChanges
<1>8. ASSUME NEW d \in Clients, d # c PROVE ClientSound(d)'
  <2>1. request'[d] = request[d] /\ reply'[d] = reply[d] /\ got'[d] = got[d]
    BY <1>3, <1>8 DEF IInv, TypeOK
  <2> QED
    BY <1>3, <2>1, Untouched DEF IInv
<1>9. ClientSound(c)'
  <2>1. /\ call'[c] = q /\ request'[c] = r /\ reply'[c] = None /\ ret'[c] = None
        /\ q.op = "scan" => got'[c] = got[c] \cup p.body.keys
        /\ span'[c] = span[c]
    BY <1>1, <1>3 DEF IInv, TypeOK
  <2>2. OneThing(c)' /\ NothingYielded(c)'
    BY <1>1, <1>2, <2>1 DEF OneThing, NothingYielded
  <2>3. SpanSound(c)'
    BY <1>3, <2>1 DEF IInv, ClientSound, SpanSound, Stored, Concerns
  <2>4. DeleteSound(c)'
    BY <1>1, <1>5, <2>1, OutcomesDiffer DEF IInv, ClientSound, DeleteSound
  <2>5. ScanSound(c)'
    <3> SUFFICES ASSUME q.op = "scan" PROVE ScanSound(c)'
      BY <2>1 DEF ScanSound
    <3>1. r.token = p.body.token
      BY <1>4 DEF List
    <3> QED
      BY <1>1, <1>4, <2>1, <3>1 DEF IInv, ClientSound, ScanSound
  <2> QED
    BY <2>2, <2>3, <2>4, <2>5 DEF ClientSound
<1> QED
  BY <1>6, <1>7, <1>8, <1>9 DEF IInv

LEMMA FinishKeeps ==
    ASSUME IInv, NEW c \in Clients, Finish(c)
    PROVE  IInv'
<1> DEFINE q == call[c]
           p == reply[c]
           o == Outcome(q, p, got[c])
<1>1. /\ q # None /\ q \in Requests /\ p # None /\ p \in Answered(q)
      /\ Following(q, p) = None /\ request[c] = None
  BY InCall DEF Finish, IInv, ClientSound, OneThing
<1>2. o \in Decided(q) /\ o \in Remote!Contract!Outcomes /\ o # None
  BY <1>1, OutcomeForms, DecidedForms DEF IInv, TypeOK
<1>3. /\ ret' = [ret EXCEPT ![c] = o] /\ reply' = [reply EXCEPT ![c] = None]
      /\ UNCHANGED <<objects, request, stray, call, got, span, faults>>
  BY DEF Finish
<1>4. q.op = "delete" => /\ o = KeyError => p.to = "HEAD" /\ p.status = 404
                         /\ o = Done => p.to = "DELETE"
  BY <1>1, AnsweredForms, OutcomesDiffer DEF Outcome
<1>5. q.op = "scan" =>
          \/ o = BlobError
          \/ o = [keys |-> got[c] \cup p.body.keys] /\ p.status = 200 /\ p.body.token = None
  BY <1>1, FollowingForms DEF Outcome
<1> HIDE DEF o
<1>6. TypeOK'
  BY <1>2, <1>3 DEF IInv, TypeOK
<1>7. StrayChanges'
  BY <1>3 DEF IInv, StrayChanges
<1>8. ASSUME NEW d \in Clients, d # c PROVE ClientSound(d)'
  <2>1. ret'[d] = ret[d] /\ reply'[d] = reply[d]
    BY <1>3, <1>8 DEF IInv, TypeOK
  <2> QED
    BY <1>3, <2>1, Untouched DEF IInv
<1>9. ClientSound(c)'
  <2>1. /\ call'[c] = q /\ request'[c] = None /\ reply'[c] = None /\ ret'[c] = o
        /\ got'[c] = got[c] /\ span'[c] = span[c]
    BY <1>1, <1>3 DEF IInv, TypeOK
  <2>2. OneThing(c)' /\ NothingYielded(c)'
    BY <1>1, <1>2, <2>1 DEF OneThing, NothingYielded
  <2>3. SpanSound(c)'
    BY <1>3, <2>1 DEF IInv, ClientSound, SpanSound, Stored, Concerns
  <2>4. DeleteSound(c)'
    BY <1>1, <1>4, <2>1 DEF IInv, ClientSound, DeleteSound
  <2>5. ScanSound(c)'
    <3> SUFFICES ASSUME q.op = "scan", o # BlobError PROVE ScanSound(c)'
      BY <1>1, <2>1 DEF ScanSound, IInv, ClientSound
    <3>1. o.keys = got[c] \cup p.body.keys
      BY <1>5
    <3>2. span[c].always \subseteq o.keys /\ o.keys \subseteq span[c].ever
      BY <1>1, <1>5, <3>1 DEF IInv, ClientSound, ScanSound, UpTo
    <3> QED
      BY <1>1, <2>1, <3>2 DEF IInv, ClientSound, ScanSound
  <2> QED
    BY <2>2, <2>3, <2>4, <2>5 DEF ClientSound
<1> QED
  BY <1>6, <1>7, <1>8, <1>9 DEF IInv

LEMMA ReturnKeeps ==
    ASSUME IInv, NEW c \in Clients, Return(c)
    PROVE  IInv'
<1>1. request[c] = None /\ reply[c] = None
  BY DEF Return, IInv, ClientSound, OneThing
<1>2. /\ call' = [call EXCEPT ![c] = None] /\ ret' = [ret EXCEPT ![c] = None]
      /\ got' = [got EXCEPT ![c] = {}] /\ span' = [span EXCEPT ![c] = ExactlyNone]
      /\ UNCHANGED <<objects, request, reply, stray, faults>>
  BY DEF Return
<1>3. TypeOK'
  BY <1>2 DEF IInv, TypeOK, ExactlyNone
<1>4. StrayChanges'
  BY <1>2 DEF IInv, StrayChanges
<1>5. ASSUME NEW d \in Clients, d # c PROVE ClientSound(d)'
  <2>1. call'[d] = call[d] /\ ret'[d] = ret[d] /\ got'[d] = got[d] /\ span'[d] = span[d]
    BY <1>2, <1>5 DEF IInv, TypeOK
  <2> QED
    BY <1>2, <2>1, Untouched DEF IInv
<1>6. ClientSound(c)'
  <2>1. call'[c] = None /\ ret'[c] = None /\ got'[c] = {} /\ request'[c] = None /\ reply'[c] = None
    BY <1>1, <1>2 DEF IInv, TypeOK
  <2> QED
    BY <2>1 DEF ClientSound, OneThing, SpanSound, DeleteSound, ScanSound, NothingYielded
<1> QED
  BY <1>3, <1>4, <1>5, <1>6 DEF IInv

LEMMA NextIInv == IInv /\ [Next]_vars => IInv'
<1>1. ASSUME IInv, UNCHANGED vars PROVE IInv'
  <2>1. TypeOK' /\ StrayChanges'
    BY <1>1 DEF IInv, TypeOK, StrayChanges, vars
  <2>2. \A c \in Clients : ClientSound(c)'
    BY <1>1, Untouched DEF IInv, vars
  <2> QED
    BY <2>1, <2>2 DEF IInv
<1> QED
  BY <1>1, InvokeKeeps, ReturnKeeps, PerformKeeps, RefuseKeeps, GiveUpKeeps, FollowKeeps,
     FinishKeeps, PerformStrayKeeps DEF Next

-----------------------------------------------------------------------------
(* The backend implements the contract of a remote store. *)

took == [c \in Clients |-> Took(c)]
loose == {AsCall(s.request) : s \in stray}

\* What a call has taken is a matter of its own response.
LEMMA TookKept ==
    ASSUME NEW d \in Clients, reply'[d] = reply[d],
           reply[d] = None \/ (call'[d] = call[d] /\ got'[d] = got[d])
    PROVE  Took(d)' = Took(d)
BY DEF Took

\* A step of client c alone changes what c has taken, if anything.
LEMMA TookUpdate ==
    ASSUME NEW c \in Clients, NEW o,
           \A d \in Clients \ {c} : Took(d)' = Took(d), Took(c)' = o
    PROVE  took' = [took EXCEPT ![c] = o]
BY DEF took

LEMMA InvokeRefines ==
    ASSUME IInv, NEW c \in Clients, Invoke(c)
    PROVE  Remote!Invoke(c)
<1>1. Remote!Contract!Invoke(c)
  BY DEF Invoke, Remote!Contract!Invoke
<1>2. \A d \in Clients : Took(d)' = Took(d)
  <2> SUFFICES ASSUME NEW d \in Clients PROVE Took(d)' = Took(d)
    OBVIOUS
  <2>1. reply' = reply /\ got' = got
    BY DEF Invoke
  <2>2. reply[d] = None \/ call'[d] = call[d]
    BY DEF Invoke, IInv, ClientSound, OneThing, TypeOK
  <2> QED
    BY <2>1, <2>2, TookKept
<1>3. took' = took /\ loose' = loose
  BY <1>2 DEF took, loose, Invoke
<1> QED
  BY <1>1, <1>3 DEF Remote!Invoke, took, loose

LEMMA ReturnRefines ==
    ASSUME IInv, NEW c \in Clients, Return(c)
    PROVE  Remote!Return(c)
<1>1. Remote!Contract!Return(c)
  BY DEF Return, Remote!Contract!Return
<1>2. \A d \in Clients : Took(d)' = Took(d)
  <2> SUFFICES ASSUME NEW d \in Clients PROVE Took(d)' = Took(d)
    OBVIOUS
  <2>1. reply' = reply
    BY DEF Return
  <2>2. reply[d] = None \/ (call'[d] = call[d] /\ got'[d] = got[d])
    BY DEF Return, IInv, ClientSound, OneThing, TypeOK
  <2> QED
    BY <2>1, <2>2, TookKept
<1>3. took' = took /\ loose' = loose
  BY <1>2 DEF took, loose, Return
<1> QED
  BY <1>1, <1>3 DEF Remote!Return, took, loose

\* A request that is carried out decides the call, or leads to another.
LEMMA PerformRefines ==
    ASSUME IInv, NEW c \in Clients, Perform(c)
    PROVE  \/ Remote!Put(c) \/ Remote!Get(c) \/ Remote!Exists(c)
           \/ Remote!DeleteMissing(c) \/ Remote!DeleteAny(c) \/ Remote!Scan(c)
           \/ UNCHANGED Remote!vars
<1> DEFINE q == call[c]
           r == request[c]
           p == Answer(r)
           o == Outcome(q, p, got[c])
<1>1. /\ q # None /\ q \in Requests /\ r \in Asked(q) /\ reply[c] = None /\ ret[c] = None
  BY InCall DEF Perform, IInv, ClientSound, OneThing
<1>2. p \in Answered(q) /\ p # None
  BY <1>1, AnswerForms, AnsweredForms DEF IInv, TypeOK
<1>3. /\ objects' = Performed(r) /\ reply' = [reply EXCEPT ![c] = p]
      /\ UNCHANGED <<stray, call, ret, got>>
  BY DEF Perform, Becomes
<1> HIDE DEF p
<1>4. Took(c) = None /\ reply'[c] = p
  BY <1>1, <1>3 DEF Took, IInv, TypeOK
<1>5. Took(c)' = IF Following(q, p) # None \/ o = BlobError THEN None ELSE o
  BY <1>2, <1>3, <1>4 DEF Took
<1>6. \A d \in Clients \ {c} : Took(d)' = Took(d)
  <2> SUFFICES ASSUME NEW d \in Clients \ {c} PROVE Took(d)' = Took(d)
    OBVIOUS
  <2>1. reply'[d] = reply[d]
    BY <1>3 DEF IInv, TypeOK
  <2> QED
    BY <1>3, <2>1, TookKept
<1>7. loose' = loose
  BY <1>3 DEF loose
<1>8. \A w : Took(c)' = w => took' = [took EXCEPT ![c] = w]
  BY <1>6, TookUpdate
<1>9. took[c] = None /\ (Took(c)' = None => took' = took)
  <2>1. took[c] = None
    BY <1>4 DEF took
  <2>2. Took(c)' = None => took' = [took EXCEPT ![c] = None]
    BY <1>8
  <2> QED
    BY <2>1, <2>2 DEF took
<1>10. ASSUME Took(c)' = None, objects' = objects PROVE UNCHANGED Remote!vars
  BY <1>3, <1>7, <1>9, <1>10 DEF Remote!vars, took, loose
<1>11. ASSUME NEW op, q.op = op, NEW w, Took(c)' = w PROVE Remote!Takes(c, op, w)
  BY <1>1, <1>3, <1>7, <1>8, <1>9, <1>11 DEF Remote!Takes, took, loose
<1>12. CASE q.op = "put"
  <2>1. r = PutObject(q.key, q.data)
    BY <1>1, <1>12, AskedForms
  <2>2. p = Response(r, 200, None) /\ r.method = "PUT" /\ objects' = [objects EXCEPT ![q.key] = q.data]
    BY <1>3, <2>1 DEF p, Answer, Performed, Response, PutObject
  <2>3. Took(c)' = Done
    BY <1>1, <1>2, <1>5, <1>12, <2>2, FollowingForms, OutcomesDiffer DEF Outcome, Response
  <2>4. Remote!Takes(c, "put", Done)
    BY <1>11, <1>12, <2>3
  <2>5. Remote!Put(c)
    BY <1>12, <2>2, <2>4 DEF Remote!Put, Remote!After, Done, Remote!Contract!Done
  <2> QED
    BY <2>5
<1>13. CASE q.op = "get"
  <2>1. r = Get(q.key)
    BY <1>1, <1>13, AskedForms
  <2>2. /\ p = IF objects[q.key] = None THEN Response(r, 404, None)
               ELSE Response(r, 200, objects[q.key])
        /\ objects' = objects /\ r.method = "GET"
    BY <1>3, <2>1 DEF p, Answer, Performed, Response, Get
  <2>3. Took(c)' = IF objects[q.key] = None THEN KeyError ELSE [value |-> objects[q.key]]
    BY <1>1, <1>2, <1>5, <1>13, <2>2, FollowingForms, OutcomesDiffer
    DEF Outcome, GetOutcome, Response
  <2>4. Remote!Takes(c, "get", Took(c)')
    BY <1>11, <1>13
  <2>5. Remote!Get(c)
    BY <2>2, <2>3, <2>4 DEF Remote!Get, KeyError, Remote!Contract!KeyError
  <2> QED
    BY <2>5
<1>14. CASE q.op = "exists"
  <2>1. r = Head(q.key)
    BY <1>1, <1>14, AskedForms
  <2>2. /\ p = IF objects[q.key] = None THEN Response(r, 404, None)
               ELSE Response(r, 200, objects[q.key])
        /\ objects' = objects /\ r.method = "HEAD"
    BY <1>3, <2>1 DEF p, Answer, Performed, Response, Head
  <2>3. Took(c)' = [found |-> objects[q.key] # None]
    BY <1>1, <1>2, <1>5, <1>14, <2>2, FollowingForms, OutcomesDiffer
    DEF Outcome, ExistsOutcome, Response
  <2>4. Remote!Takes(c, "exists", Took(c)')
    BY <1>11, <1>14
  <2>5. Remote!Exists(c)
    BY <2>2, <2>3, <2>4 DEF Remote!Exists
  <2> QED
    BY <2>5
<1>15. CASE q.op = "delete" /\ r = Head(q.key)
  <2>1. /\ p = IF objects[q.key] = None THEN Response(r, 404, None)
               ELSE Response(r, 200, objects[q.key])
        /\ objects' = objects /\ r.method = "HEAD"
    BY <1>3, <1>15 DEF p, Answer, Performed, Response, Head
  <2>2. CASE objects[q.key] = None
    <3>1. Took(c)' = KeyError
      <4>1. p.to = "HEAD" /\ p.status = 404
        BY <2>1, <2>2 DEF Response
      <4>2. Following(q, p) = None /\ o = KeyError
        BY <1>1, <1>2, <1>15, <4>1, FollowingForms DEF Outcome
      <4> QED
        BY <1>5, <4>2, OutcomesDiffer
    <3>2. Remote!Takes(c, "delete", KeyError)
      BY <1>11, <1>15, <3>1
    <3> QED
      BY <2>1, <2>2, <3>2 DEF Remote!DeleteMissing, KeyError, Remote!Contract!KeyError
  <2>3. CASE objects[q.key] # None
    <3>1. Took(c)' = None
      <4>1. p.to = "HEAD" /\ p.status = 200
        BY <2>1, <2>3 DEF Response
      <4> QED
        BY <1>1, <1>2, <1>5, <1>15, <4>1, FollowingForms
    <3> QED
      BY <1>10, <2>1, <3>1
  <2> QED
    BY <2>2, <2>3
<1>16. CASE q.op = "delete" /\ r = DeleteObject(q.key)
  <2>1. p = Response(r, 204, None) /\ r.method = "DELETE" /\ objects' = [objects EXCEPT ![q.key] = None]
    BY <1>3, <1>16 DEF p, Answer, Performed, Response, DeleteObject
  <2>2. Took(c)' = Done
    <3>1. p.to = "DELETE" /\ p.status = 204
      BY <2>1 DEF Response
    <3>2. Following(q, p) = None /\ o = Done
      BY <1>1, <1>2, <1>16, <3>1, FollowingForms DEF Outcome
    <3> QED
      BY <1>5, <3>2, OutcomesDiffer
  <2>3. Remote!Takes(c, "delete", Done)
    BY <1>11, <1>16, <2>2
  <2> QED
    BY <1>16, <2>1, <2>3 DEF Remote!DeleteAny, Remote!After, Done, Remote!Contract!Done
<1>17. CASE q.op = "scan"
  <2>1. r.method = "LIST"
    BY <1>1, <1>17, AskedForms DEF List
  <2>2. p = Response(r, 200, Page(r)) /\ objects' = objects
    <3>1. Performed(r) = objects
      BY <2>1 DEF Performed
    <3>2. Answer(r) = Response(r, 200, Page(r))
      BY <2>1 DEF Answer
    <3> QED
      BY <1>3, <2>1, <3>1, <3>2 DEF p
  <2>3. CASE Following(q, p) # None
    BY <1>5, <1>10, <2>2, <2>3
  <2>4. CASE Following(q, p) = None
    <3> DEFINE S == got[c] \cup Page(r).keys
    <3>1. S \in SUBSET Keys
      BY PageSkipsNone DEF Pages, IInv, TypeOK
    <3>2. o = [keys |-> S]
      BY <1>17, <2>2 DEF Outcome, Response
    <3> HIDE DEF S
    <3>3. Took(c)' = [keys |-> S]
      BY <1>5, <2>4, <3>2, OutcomesDiffer
    <3>4. Remote!Takes(c, "scan", [keys |-> S])
      BY <1>11, <1>17, <3>3
    <3> QED
      BY <2>2, <3>1, <3>4 DEF Remote!Scan
  <2> QED
    BY <2>3, <2>4
<1> QED
  BY <1>1, <1>12, <1>13, <1>14, <1>15, <1>16, <1>17, AskedForms, CallForms

LEMMA PerformStrayRefines ==
    ASSUME IInv, NEW s \in stray, PerformStray(s)
    PROVE  \E r \in loose : Remote!Late(r)
<1> DEFINE r == AsCall(s.request)
<1>1. s.request.method \in {"PUT", "DELETE"}
  BY DEF IInv, StrayChanges
<1>2. objects' = [objects EXCEPT ![r.key] = IF r.op = "put" THEN r.data ELSE None]
  BY <1>1 DEF PerformStray, Becomes, Performed, AsCall
<1>3. stray' = stray \ {s} /\ UNCHANGED <<reply, call, ret, got>>
  BY DEF PerformStray
<1>4. took' = took
  BY <1>3, TookKept DEF took
<1>5. loose' = loose \/ loose' = loose \ {r}
  BY <1>3 DEF loose
<1>6. r \in loose
  BY DEF loose
<1> QED
  BY <1>2, <1>3, <1>4, <1>5, <1>6 DEF Remote!Late, Remote!After, took, loose

\* A refusal settles nothing yet.
LEMMA RefuseRefines ==
    ASSUME IInv, NEW c \in Clients, Refuse(c)
    PROVE  UNCHANGED Remote!vars
<1> DEFINE q == call[c]
           p == Response(request[c], 503, None)
<1>1. q # None /\ q \in Requests /\ request[c] \in Asked(q) /\ reply[c] = None
  BY InCall DEF Refuse, IInv, ClientSound, OneThing
<1>2. p.status = 503
  BY DEF Response
<1>3. p \in Answered(q) /\ p # None
  BY <1>1, AnswerForms, AnsweredForms DEF IInv, TypeOK
<1>4. reply' = [reply EXCEPT ![c] = p] /\ UNCHANGED <<objects, stray, call, ret, got>>
  BY DEF Refuse
<1> HIDE DEF p
<1>5. Outcome(q, p, got[c]) = BlobError
  BY <1>1, <1>2, CallForms DEF Outcome, GetOutcome, ExistsOutcome
<1>6. Took(c) = None /\ Took(c)' = None
  BY <1>1, <1>4, <1>5 DEF Took, IInv, TypeOK
<1>7. \A d \in Clients \ {c} : Took(d)' = Took(d)
  BY <1>4, TookKept DEF IInv, TypeOK
<1>8. took' = took /\ loose' = loose
  BY <1>4, <1>6, <1>7 DEF took, loose
<1> QED
  BY <1>4, <1>8 DEF Remote!vars, took, loose

\* A call given up has failed; its request may still take effect.
LEMMA GiveUpRefines ==
    ASSUME IInv, NEW c \in Clients, GiveUp(c)
    PROVE  Remote!Fails(c)
<1> DEFINE q == call[c]
<1>1. q # None /\ q \in Requests /\ ret[c] = None
  BY InCall DEF GiveUp, IInv, ClientSound, OneThing
<1>2. /\ reply' = [reply EXCEPT ![c] = None] /\ ret' = [ret EXCEPT ![c] = BlobError]
      /\ UNCHANGED <<objects, call, got>>
  BY DEF GiveUp
<1>3. \A d \in Clients \ {c} : Took(d)' = Took(d)
  BY <1>2, TookKept DEF IInv, TypeOK
<1>4. Took(c)' = None
  BY <1>2 DEF Took, IInv, TypeOK
<1>5. took' = [took EXCEPT ![c] = None]
  BY <1>3, <1>4, TookUpdate
<1>6. CASE stray' = stray
  <2>1. loose' = loose
    BY <1>6 DEF loose
  <2> QED
    BY <1>1, <1>2, <1>5, <2>1
    DEF Remote!Fails, took, loose, BlobError, Remote!Contract!BlobError
<1>7. CASE /\ request[c] # None /\ request[c].method \in {"PUT", "DELETE"}
           /\ stray' = stray \cup {[number |-> faults, request |-> request[c]]}
  <2>1. request[c] \in Asked(q) /\ reply[c] = None
    BY <1>7 DEF IInv, ClientSound, OneThing
  <2>2. took[c] = None
    BY <2>1 DEF took, Took
  <2>3. q.op \in Remote!Mutators /\ AsCall(request[c]) = q
    <3>1. q.op \notin {"get", "exists", "scan"}
      BY <1>1, <1>7, <2>1, AskedForms DEF Get, Head, List
    <3>2. CASE q.op = "put"
      <4>1. request[c] = PutObject(q.key, q.data)
        BY <1>1, <2>1, <3>2, AskedForms
      <4>2. AsCall(request[c]) = [op |-> "put", key |-> q.key, data |-> q.data]
        BY <4>1 DEF AsCall, PutObject
      <4> QED
        BY <1>1, <3>2, <4>2, CallForms DEF Remote!Mutators
    <3>3. CASE q.op = "delete"
      <4>1. request[c] = DeleteObject(q.key)
        BY <1>1, <1>7, <2>1, <3>3, AskedForms DEF Head
      <4>2. AsCall(request[c]) = [op |-> "delete", key |-> q.key]
        BY <4>1 DEF AsCall, DeleteObject
      <4> QED
        BY <1>1, <3>3, <4>2, CallForms DEF Remote!Mutators
    <3> QED
      BY <1>1, <3>1, <3>2, <3>3, CallForms
  <2> DEFINE new == [number |-> faults, request |-> request[c]]
  <2>4. loose' = loose \cup {AsCall(request[c])}
    <3>1. new.request = request[c] /\ stray' = stray \cup {new}
      BY <1>7
    <3> HIDE DEF new
    <3> QED
      BY <3>1 DEF loose
  <2> QED
    BY <1>1, <1>2, <1>5, <2>2, <2>3, <2>4
    DEF Remote!Fails, took, loose, BlobError, Remote!Contract!BlobError
<1> QED
  BY <1>6, <1>7 DEF GiveUp

LEMMA FollowRefines ==
    ASSUME IInv, NEW c \in Clients, Follow(c)
    PROVE  UNCHANGED Remote!vars
<1>1. /\ reply' = [reply EXCEPT ![c] = None] /\ Following(call[c], reply[c]) # None
      /\ got' = IF call[c].op = "scan" THEN [got EXCEPT ![c] = @ \cup reply[c].body.keys] ELSE got
      /\ UNCHANGED <<objects, stray, call, ret>>
  BY DEF Follow
<1>2. Took(c) = None /\ Took(c)' = None
  BY <1>1 DEF Took, IInv, TypeOK
<1>3. ASSUME NEW d \in Clients \ {c} PROVE Took(d)' = Took(d)
  <2>1. reply'[d] = reply[d] /\ got'[d] = got[d]
    BY <1>1 DEF IInv, TypeOK
  <2> QED
    BY <1>1, <2>1, TookKept
<1>4. took' = took /\ loose' = loose
  BY <1>1, <1>2, <1>3 DEF took, loose
<1> QED
  BY <1>1, <1>4 DEF Remote!vars, took, loose

LEMMA FinishRefines ==
    ASSUME IInv, NEW c \in Clients, Finish(c)
    PROVE  Remote!Replies(c) \/ Remote!Fails(c)
<1> DEFINE q == call[c]
           o == Outcome(q, reply[c], got[c])
<1>1. /\ q # None /\ q \in Requests /\ reply[c] # None /\ reply[c] \in Answered(q)
      /\ Following(q, reply[c]) = None /\ ret[c] = None
  BY InCall DEF Finish, IInv, ClientSound, OneThing
<1>2. o # None
  BY <1>1, OutcomeForms, DecidedForms DEF IInv, TypeOK
<1>3. /\ ret' = [ret EXCEPT ![c] = o] /\ reply' = [reply EXCEPT ![c] = None]
      /\ UNCHANGED <<objects, stray, call, got>>
  BY DEF Finish
<1>4. Took(c) = IF o = BlobError THEN None ELSE o
  BY <1>1 DEF Took
<1> HIDE DEF o
<1>5. took[c] = Took(c)
  BY DEF took
<1>6. Took(c)' = None
  BY <1>3 DEF Took, IInv, TypeOK
<1>7. \A d \in Clients \ {c} : Took(d)' = Took(d)
  BY <1>3, TookKept DEF IInv, TypeOK
<1>8. took' = [took EXCEPT ![c] = None] /\ loose' = loose
  BY <1>3, <1>6, <1>7, TookUpdate DEF loose
<1>9. CASE o = BlobError
  BY <1>1, <1>3, <1>8, <1>9
  DEF Remote!Fails, took, loose, BlobError, Remote!Contract!BlobError
<1>10. CASE o # BlobError
  BY <1>2, <1>3, <1>4, <1>5, <1>8, <1>10 DEF Remote!Replies, took, loose
<1> QED
  BY <1>9, <1>10

-----------------------------------------------------------------------------
(* The theorems. *)

\* The invariant holds in every state of every behaviour of the backend.
THEOREM Invariance == Spec => []IInv
BY InitIInv, NextIInv, PTL DEF Spec

\* Every variable keeps its type: every request, response and outcome is one
\* that the code and the API know.
THEOREM TypeCorrect == Spec => []TypeOK
<1>1. IInv => TypeOK
  BY DEF IInv
<1> QED
  BY Invariance, <1>1, PTL

\* delete() raises KeyError only for a key that was missing, and returns only
\* for one that was there, at some time during the call (s3.py:217), however
\* many clients write and delete between its two requests.
THEOREM DeleteIsJust == Spec => []DeleteJustified
<1>1. IInv => DeleteJustified
  <2> SUFFICES ASSUME IInv, NEW c \in Clients, ret[c] # None, call[c].op = "delete"
               PROVE  /\ ret[c] = KeyError => call[c].key \notin span[c].always
                      /\ ret[c] = Done => call[c].key \in span[c].ever
    BY DEF DeleteJustified
  <2>1. call[c] # None /\ DeleteSound(c)
    BY InCall DEF IInv, ClientSound
  <2> QED
    BY <2>1 DEF DeleteSound
<1> QED
  BY Invariance, <1>1, PTL

\* A scan by pages of any size (s3.py:279) misses no key that stays and
\* invents none, whatever is written between its pages.
THEOREM ScanIsFaithful == Spec => []ScanFaithful
<1>1. IInv => ScanFaithful
  <2> SUFFICES ASSUME IInv, NEW c \in Clients, ret[c] \notin {None, BlobError},
                      call[c].op = "scan"
               PROVE  span[c].always \subseteq ret[c].keys /\ ret[c].keys \subseteq span[c].ever
    BY DEF ScanFaithful
  <2>1. call[c] # None /\ ScanSound(c)
    BY InCall DEF IInv, ClientSound
  <2> QED
    BY <2>1 DEF ScanSound
<1> QED
  BY Invariance, <1>1, PTL

\* The backend implements the contract of a remote store: each step is a
\* step of RemoteStore or leaves what callers see as it is.
THEOREM Refinement == Spec => ImplementsRemote
<1>1. Init => Remote!Init
  <2> SUFFICES ASSUME Init PROVE Remote!Init
    OBVIOUS
  <2>1. Remote!Contract!Init
    BY DEF Init, Remote!Contract!Init
  <2>2. took = [c \in Clients |-> None] /\ loose = {}
    BY DEF Init, took, Took, loose
  <2> QED
    BY <2>1, <2>2 DEF Remote!Init, took, loose
<1>2. IInv /\ [Next]_vars => [Remote!Next]_(Remote!vars)
  <2>1. ASSUME UNCHANGED vars PROVE UNCHANGED Remote!vars
    <3>1. \A c \in Clients : Took(c)' = Took(c)
      BY <2>1, TookKept DEF vars
    <3>2. took' = took /\ loose' = loose
      BY <2>1, <3>1 DEF vars, took, loose
    <3> QED
      BY <2>1, <3>2 DEF vars, Remote!vars, took, loose
  <2>2. ASSUME IInv, NEW c \in Clients,
               \/ Invoke(c) \/ Return(c)
               \/ Perform(c) \/ Refuse(c) \/ GiveUp(c) \/ Follow(c) \/ Finish(c)
        PROVE  [Remote!Next]_(Remote!vars)
    BY <2>2, InvokeRefines, ReturnRefines, PerformRefines, RefuseRefines, GiveUpRefines,
       FollowRefines, FinishRefines DEF Remote!Next
  <2>3. ASSUME IInv, NEW s \in stray, PerformStray(s) PROVE Remote!Next
    BY <2>3, PerformStrayRefines DEF Remote!Next, loose
  <2> QED
    BY <2>1, <2>2, <2>3 DEF Next
<1> QED
  BY Invariance, <1>1, <1>2, PTL DEF Spec, ImplementsRemote, Remote!Spec
=============================================================================
