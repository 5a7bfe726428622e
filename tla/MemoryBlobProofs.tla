--------------------------- MODULE MemoryBlobProofs ---------------------------
(***************************************************************************)
(* MemoryBlob for every set of threads, keys and payloads and every pair   *)
(* of limits: the counter accounts for the stored bytes, the limits hold,  *)
(* a refusal is justified, and the backend implements the contract.        *)
(***************************************************************************)
EXTENDS MemoryBlob, FiniteSetTheorems, TLAPS

Dictionaries == [Keys -> Values \cup {None}]

\* The byte positions that value v takes under key k.
Block(k, v) == {k} \X (1 .. Length(v))

-----------------------------------------------------------------------------
(* Lemmas about the operators. *)

\* The length of a value, missing or not, is a natural number.
LEMMA LengthType ==
    ASSUME NEW v \in Values \cup {None}
    PROVE  Length(v) \in Nat
BY BytesAssumption DEF Length

\* The byte positions of one key are as many as its value is long.
LEMMA BlockSize ==
    ASSUME NEW k, NEW v \in Values \cup {None}
    PROVE  IsFiniteSet(Block(k, v)) /\ Cardinality(Block(k, v)) = Length(v)
<1>1. Length(v) \in Nat
  BY LengthType
<1>2. IsFiniteSet(1 .. Length(v)) /\ Cardinality(1 .. Length(v)) = Length(v)
  BY <1>1, FS_Interval
<1>3. IsFiniteSet({k}) /\ Cardinality({k}) = 1
  BY FS_Singleton
<1> QED
  BY <1>1, <1>2, <1>3, FS_Product DEF Block

\* Writing v under k replaces the block of the old value by that of the new.
LEMMA SlotsUpdate ==
    ASSUME NEW d \in Dictionaries, NEW k \in Keys, NEW v \in Values \cup {None}
    PROVE  /\ Slots([d EXCEPT ![k] = v]) = (Slots(d) \ Block(k, d[k])) \cup Block(k, v)
           /\ Block(k, d[k]) \subseteq Slots(d)
           /\ (Slots(d) \ Block(k, d[k])) \cap Block(k, v) = {}
<1> DEFINE e == [d EXCEPT ![k] = v]
<1>1. ASSUME NEW f \in Dictionaries
      PROVE  Slots(f) = UNION {Block(x, f[x]) : x \in Keys}
  <2>1. ASSUME NEW x \in Keys, f[x] # None
        PROVE  Block(x, f[x]) = {x} \X (1 .. Bytes[f[x]])
    BY <2>1 DEF Block, Length
  <2>2. ASSUME NEW x \in Keys, f[x] = None
        PROVE  Block(x, f[x]) = {}
    BY <2>2 DEF Block, Length
  <2> QED
    BY <2>1, <2>2 DEF Slots, Store!Stored
<1>2. e \in Dictionaries /\ e[k] = v /\ \A x \in Keys : x # k => e[x] = d[x]
  BY DEF Dictionaries
<1>3. \A x, w : \A s \in Block(x, w) : s[1] = x
  BY DEF Block
<1> HIDE DEF e
<1>4. Slots(e) = UNION {Block(x, e[x]) : x \in Keys}
  BY <1>1, <1>2
<1>5. Slots(d) = UNION {Block(x, d[x]) : x \in Keys}
  BY <1>1
<1>6. Block(k, d[k]) \subseteq Slots(d)
  BY <1>5
<1>7. (Slots(d) \ Block(k, d[k])) \cap Block(k, v) = {}
  BY <1>3, <1>5
<1>8. Slots(e) = (Slots(d) \ Block(k, d[k])) \cup Block(k, v)
  BY <1>2, <1>3, <1>4, <1>5
<1> QED
  BY <1>6, <1>7, <1>8 DEF e

\* What a put or a delete of one key does to the total length of the values.
LEMMA TotalBytesUpdate ==
    ASSUME NEW d \in Dictionaries, NEW k \in Keys, NEW v \in Values \cup {None},
           IsFiniteSet(Slots(d))
    PROVE  /\ IsFiniteSet(Slots([d EXCEPT ![k] = v]))
           /\ TotalBytes([d EXCEPT ![k] = v]) = TotalBytes(d) - Length(d[k]) + Length(v)
           /\ TotalBytes(d) \in Nat
           /\ TotalBytes([d EXCEPT ![k] = v]) \in Nat
<1> DEFINE B == Block(k, d[k])
           R == Slots(d) \ B
<1>1. d[k] \in Values \cup {None}
  BY DEF Dictionaries
<1>2. IsFiniteSet(B) /\ Cardinality(B) = Length(d[k])
  BY <1>1, BlockSize
<1>3. IsFiniteSet(R) /\ Cardinality(R) = TotalBytes(d) - Length(d[k])
  <2>1. Slots(d) \cap B = B
    BY SlotsUpdate
  <2> QED
    BY <1>2, <2>1, FS_Difference DEF TotalBytes
<1>4. IsFiniteSet(Block(k, v)) /\ Cardinality(Block(k, v)) = Length(v)
  BY BlockSize
<1>5. R \cap Block(k, v) = {}
  BY SlotsUpdate
<1>6. Cardinality(R \cap Block(k, v)) = 0
  BY <1>5, FS_EmptySet
<1>7. /\ IsFiniteSet(R \cup Block(k, v))
      /\ Cardinality(R \cup Block(k, v)) = Cardinality(R) + Cardinality(Block(k, v)) - 0
  BY <1>3, <1>4, <1>6, FS_Union
<1>8. Slots([d EXCEPT ![k] = v]) = R \cup Block(k, v)
  BY SlotsUpdate
<1>9. /\ Cardinality(R) \in Nat
      /\ Cardinality(Block(k, v)) \in Nat
      /\ TotalBytes(d) \in Nat
      /\ Cardinality(R \cup Block(k, v)) \in Nat
  BY <1>3, <1>4, <1>7, FS_CardinalityType DEF TotalBytes
<1>10. Length(d[k]) \in Nat /\ Length(v) \in Nat
  BY <1>1, LengthType
<1> HIDE DEF R
<1>11. TotalBytes([d EXCEPT ![k] = v]) = Cardinality(R \cup Block(k, v))
  BY <1>8 DEF TotalBytes
<1>12. IsFiniteSet(Slots([d EXCEPT ![k] = v]))
  BY <1>7, <1>8
<1>13. /\ TotalBytes([d EXCEPT ![k] = v]) = TotalBytes(d) - Length(d[k]) + Length(v)
       /\ TotalBytes([d EXCEPT ![k] = v]) \in Nat
  BY <1>3, <1>4, <1>7, <1>9, <1>10, <1>11
<1> QED
  BY <1>9, <1>12, <1>13

\* What it does to the number of keys.
LEMMA StoredUpdate ==
    ASSUME NEW d \in Dictionaries, NEW k \in Keys, NEW v \in Values \cup {None},
           IsFiniteSet(Store!Stored(d))
    PROVE  LET n == Cardinality(Store!Stored(d))
               m == Cardinality(Store!Stored([d EXCEPT ![k] = v]))
           IN /\ IsFiniteSet(Store!Stored([d EXCEPT ![k] = v]))
              /\ n \in Nat /\ m \in Nat
              /\ v # None /\ d[k] = None => m = n + 1
              /\ v # None /\ d[k] # None => m = n
              /\ v = None => m <= n
<1> DEFINE S == Store!Stored(d)
           T == Store!Stored([d EXCEPT ![k] = v])
<1>1. T = IF v = None THEN S \ {k} ELSE S \cup {k}
  BY DEF Dictionaries, Store!Stored
<1>2. k \in S <=> d[k] # None
  BY DEF Store!Stored
<1>3. IsFiniteSet(S) /\ Cardinality(S) \in Nat
  BY FS_CardinalityType
<1> HIDE DEF S, T
<1>4. CASE v = None
  <2>1. T = S \ {k}
    BY <1>1, <1>4
  <2>2. /\ IsFiniteSet(T) /\ Cardinality(T) \in Nat
        /\ Cardinality(T) = IF k \in S THEN Cardinality(S) - 1 ELSE Cardinality(S)
    BY <1>3, <2>1, FS_RemoveElement, FS_CardinalityType
  <2> QED
    BY <1>3, <1>4, <2>2 DEF S, T
<1>5. CASE v # None
  <2>1. T = S \cup {k}
    BY <1>1, <1>5
  <2>2. /\ IsFiniteSet(T) /\ Cardinality(T) \in Nat
        /\ Cardinality(T) = IF k \in S THEN Cardinality(S) ELSE Cardinality(S) + 1
    BY <1>3, <2>1, FS_AddElement, FS_CardinalityType
  <2> QED
    BY <1>2, <1>3, <1>5, <2>2 DEF S, T
<1> QED
  BY <1>4, <1>5 DEF S, T

-----------------------------------------------------------------------------
(* The inductive invariant. *)

\* The lock is held by the thread inside an operation, and by no other.
Mutex == \A t \in Threads : pc[t] \in Held <=> lock = t

\* What a thread has recorded of its call at each point of it.
Calls ==
    \A t \in Threads :
        /\ call[t] = None <=> pc[t] = "idle"
        /\ ret[t] = None <=> pc[t] \notin {"popped", "unlock", "done"}
        /\ pc[t] \in {"accepted", "counted"} =>
              /\ call[t].op = "put"
              /\ old[t] = data[call[t].key]
              /\ ~ WouldOverflow(call[t].key, call[t].data)

FiniteData == IsFiniteSet(Slots(data)) /\ IsFiniteSet(Store!Stored(data))

\* The counter is ahead of the dictionary between the two steps of a put(),
\* and behind it between the two steps of a delete().
Accounting ==
    /\ \A t \in Threads :
          /\ pc[t] = "counted" =>
                size = TotalBytes(data) - Length(old[t]) + Length(call[t].data)
          /\ pc[t] = "popped" => size = TotalBytes(data) + Length(old[t])
    /\ (\A t \in Threads : pc[t] \notin {"counted", "popped"}) =>
          size = TotalBytes(data)

IInv == TypeOK /\ Mutex /\ Calls /\ FiniteData /\ Accounting /\ LimitsRespected


-----------------------------------------------------------------------------
(* Type correctness. *)

\* Every request that names a key or carries data names one of the constants'.
LEMMA RequestFields ==
    ASSUME NEW r \in Store!Requests
    PROVE  /\ r # None
           /\ r.op \in {"put", "get", "delete", "exists", "scan"}
           /\ r.op # "scan" => r.key \in Keys
           /\ r.op = "put" => r.data \in Values
           /\ r.op = "scan" => r.prefix \in Prefixes
<1>1. r # None
  BY NoneAssumption
<1> QED
  BY <1>1 DEF Store!Requests

\* The results the operations compute are outcomes of the contract.
LEMMA OutcomeTypes ==
    /\ {Store!Done, Store!KeyError, Store!BlobError} \subseteq Store!Outcomes
    /\ \A v \in Values : [value |-> v] \in Store!Outcomes
    /\ \A b \in BOOLEAN : [found |-> b] \in Store!Outcomes
    /\ \A K \in SUBSET Keys : [keys |-> K] \in Store!Outcomes
    /\ None \notin Store!Outcomes
<1>1. None \notin Store!Outcomes
  BY NoneAssumption
<1> QED
  BY <1>1 DEF Store!Outcomes

\* The empty store of a new instance is well typed.
LEMMA InitTypeOK == Init => TypeOK
BY DEF Init, TypeOK, Held

\* A call that is not idle has a request with fields of the right types.
LEMMA InCall ==
    ASSUME TypeOK, Calls, NEW t \in Threads, pc[t] # "idle"
    PROVE  /\ call[t] \in Store!Requests
           /\ pc[t] \in {"accepted", "counted"} => call[t].op = "put"
           /\ call[t].op # "scan" => call[t].key \in Keys
           /\ call[t].op = "put" => call[t].data \in Values
<1>1. call[t] \in Store!Requests
  BY DEF TypeOK, Calls
<1> QED
  BY <1>1, RequestFields DEF Calls

\* No step of an operation leaves the types.
LEMMA NextTypeOK == TypeOK /\ Calls /\ [Next]_vars => TypeOK'
<1> SUFFICES ASSUME TypeOK, Calls, [Next]_vars PROVE TypeOK'
  OBVIOUS
<1> USE DEF Held, Goto, Outcome, Body
<1>1. CASE UNCHANGED vars
  BY <1>1 DEF vars, TypeOK
<1>2. ASSUME NEW t \in Threads, Invoke(t) PROVE TypeOK'
  BY <1>2 DEF Invoke, TypeOK
<1>3. ASSUME NEW t \in Threads, Acquire(t) PROVE TypeOK'
  BY <1>3 DEF Acquire, TypeOK
<1>4. ASSUME NEW t \in Threads, PutStep(t) PROVE TypeOK'
  <2> pc[t] # "idle"
    BY <1>4 DEF PutStep, PutRefused, PutAccepted, PutAccount, PutStore
  <2>1. CASE PutRefused(t)
    BY <2>1, OutcomeTypes DEF PutRefused, TypeOK
  <2>2. CASE PutAccepted(t)
    <3>1. call[t].key \in Keys
      BY <2>2, InCall DEF PutAccepted
    <3> QED
      BY <2>2, <3>1 DEF PutAccepted, TypeOK
  <2>3. CASE PutAccount(t)
    <3>1. Length(old[t]) \in Nat
      BY LengthType DEF TypeOK
    <3>2. Bytes[call[t].data] \in Nat
      BY <2>3, InCall, BytesAssumption DEF PutAccount
    <3> QED
      BY <2>3, <3>1, <3>2 DEF PutAccount, TypeOK
  <2>4. CASE PutStore(t)
    <3>1. call[t].key \in Keys /\ call[t].data \in Values
      BY <2>4, InCall DEF PutStore
    <3> QED
      BY <2>4, <3>1, OutcomeTypes DEF PutStore, TypeOK
  <2> QED
    BY <1>4, <2>1, <2>2, <2>3, <2>4 DEF PutStep
<1>5. ASSUME NEW t \in Threads, Get(t) PROVE TypeOK'
  <2>1. call[t].key \in Keys
    BY <1>5, InCall DEF Get
  <2> QED
    BY <1>5, <2>1, OutcomeTypes DEF Get, TypeOK
<1>6. ASSUME NEW t \in Threads, DeleteStep(t) PROVE TypeOK'
  <2>1. CASE DeleteMissing(t)
    BY <2>1, OutcomeTypes DEF DeleteMissing, TypeOK
  <2>2. CASE DeletePop(t)
    <3>1. call[t].key \in Keys
      BY <2>2, InCall DEF DeletePop
    <3> QED
      BY <2>2, <3>1, OutcomeTypes DEF DeletePop, TypeOK
  <2>3. CASE DeleteAccount(t)
    <3>1. Length(old[t]) \in Nat
      BY LengthType DEF TypeOK
    <3> QED
      BY <2>3, <3>1 DEF DeleteAccount, TypeOK
  <2> QED
    BY <1>6, <2>1, <2>2, <2>3 DEF DeleteStep
<1>7. ASSUME NEW t \in Threads, Exists(t) PROVE TypeOK'
  <2>1. [found |-> data[call[t].key] # None] \in Store!Outcomes
    BY OutcomeTypes
  <2> QED
    BY <1>7, <2>1 DEF Exists, TypeOK
<1>8. ASSUME NEW t \in Threads, Scan(t) PROVE TypeOK'
  <2>1. [keys |-> Store!Stored(data) \cap Under[call[t].prefix]] \in Store!Outcomes
    BY OutcomeTypes DEF Store!Stored
  <2> QED
    BY <1>8, <2>1 DEF Scan, TypeOK
<1>9. ASSUME NEW t \in Threads, Release(t) PROVE TypeOK'
  BY <1>9 DEF Release, TypeOK
<1>10. ASSUME NEW t \in Threads, Return(t) PROVE TypeOK'
  BY <1>10 DEF Return, TypeOK
<1> QED
  BY <1>1, <1>2, <1>3, <1>4, <1>5, <1>6, <1>7, <1>8, <1>9, <1>10 DEF Next, Locked
-----------------------------------------------------------------------------
(* The other conjuncts of the invariant. *)

\* A new instance satisfies the inductive invariant.
LEMMA InitIInv == Init => IInv
<1> SUFFICES ASSUME Init PROVE IInv
  OBVIOUS
<1>1. Store!Stored(data) = {}
  BY DEF Init, Store!Stored
<1>2. Slots(data) = {}
  BY <1>1 DEF Slots
<1>3. FiniteData /\ TotalBytes(data) = 0 /\ Cardinality(Store!Stored(data)) = 0
  BY <1>1, <1>2, FS_EmptySet DEF FiniteData, TotalBytes
<1>4. LimitsRespected
  BY <1>3, LimitsAssumption DEF LimitsRespected, TooMany, TooLarge
<1>5. Accounting
  BY <1>3 DEF Accounting, Init
<1>6. Mutex
  BY NoneAssumption DEF Init, Mutex, Held
<1>7. Calls
  BY DEF Init, Calls
<1> QED
  BY <1>3, <1>4, <1>5, <1>6, <1>7, InitTypeOK DEF IInv

\* Outside the lock or inside it, a step takes one thread from one label to
\* the next, and takes or gives back the lock on the way in or out.
LEMMA NextMutex == TypeOK /\ Mutex /\ [Next]_vars => Mutex'
<1> SUFFICES ASSUME TypeOK, Mutex, [Next]_vars PROVE Mutex'
  OBVIOUS
<1> USE NoneAssumption DEF TypeOK, Mutex, Held, Goto, Body
<1>1. CASE UNCHANGED vars
  BY <1>1 DEF vars
<1>2. ASSUME NEW t \in Threads, Invoke(t) PROVE Mutex'
  BY <1>2 DEF Invoke
<1>3. ASSUME NEW t \in Threads, Acquire(t) PROVE Mutex'
  BY <1>3 DEF Acquire
<1>4. ASSUME NEW t \in Threads, PutStep(t) PROVE Mutex'
  BY <1>4 DEF PutStep, PutRefused, PutAccepted, PutAccount, PutStore
<1>5. ASSUME NEW t \in Threads, Get(t) \/ Exists(t) \/ Scan(t) PROVE Mutex'
  BY <1>5 DEF Get, Exists, Scan
<1>6. ASSUME NEW t \in Threads, DeleteStep(t) PROVE Mutex'
  BY <1>6 DEF DeleteStep, DeleteMissing, DeletePop, DeleteAccount
<1>7. ASSUME NEW t \in Threads, Release(t) PROVE Mutex'
  BY <1>7 DEF Release
<1>8. ASSUME NEW t \in Threads, Return(t) PROVE Mutex'
  BY <1>8 DEF Return
<1> QED
  BY <1>1, <1>2, <1>3, <1>4, <1>5, <1>6, <1>7, <1>8 DEF Next, Locked

\* A put that passes the check fits: for the empty key the check asks for
\* more room than the put needs, for every other key for exactly as much.
LEMMA AcceptedFits ==
    ASSUME TypeOK, FiniteData, size = TotalBytes(data),
           NEW k \in Keys, NEW v \in Values
    PROVE  /\ ~ OverLimits(k, v) /\ LimitsRespected => ~ WouldOverflow(k, v)
           /\ OverLimits(k, v) /\ k # EmptyKey => WouldOverflow(k, v)
<1> DEFINE n == Cardinality(Store!Stored(data))
           m == Cardinality(Store!Stored([data EXCEPT ![k] = v]))
           b == TotalBytes([data EXCEPT ![k] = v])
<1>1. data \in Dictionaries /\ data[k] \in Values \cup {None} /\ v # None
  BY NoneAssumption DEF TypeOK, Dictionaries
<1>2. /\ n \in Nat /\ m \in Nat
      /\ data[k] = None => m = n + 1
      /\ data[k] # None => m = n
  BY <1>1, StoredUpdate DEF FiniteData
<1>3. /\ b = TotalBytes(data) - Length(data[k]) + Length(v)
      /\ TotalBytes(data) \in Nat
  BY <1>1, TotalBytesUpdate DEF FiniteData
<1>4. Length(v) = Bytes[v] /\ Length(v) \in Nat /\ Length(data[k]) \in Nat
  BY <1>1, LengthType DEF Length
<1>5. WouldOverflow(k, v) <=> TooMany(m) \/ TooLarge(b)
  BY DEF WouldOverflow
<1> HIDE DEF n, m, b
<1>6. OverLimits(k, v) <=>
         \/ data[k] = None /\ TooMany(n + 1)
         \/ TooLarge(size - (IF k # EmptyKey THEN Length(data[k]) ELSE 0) + Bytes[v])
  BY DEF OverLimits, n
<1>7. LimitsRespected => ~ TooMany(n)
  BY DEF LimitsRespected, n
<1>8. CASE k # EmptyKey
  BY <1>2, <1>3, <1>4, <1>5, <1>6, <1>7, <1>8, LimitsAssumption DEF TooMany, TooLarge
<1>9. CASE k = EmptyKey
  BY <1>2, <1>3, <1>4, <1>5, <1>6, <1>7, <1>9, LimitsAssumption DEF TooMany, TooLarge
<1> QED
  BY <1>8, <1>9

\* While thread t is inside the lock, no other thread is.
LEMMA Alone ==
    ASSUME Mutex, NEW t \in Threads, pc[t] \in Held
    PROVE  \A u \in Threads \ {t} : pc[u] \notin Held
BY DEF Mutex

\* Before it writes, the holder of the lock sees an exact counter.
LEMMA ExactCounter ==
    ASSUME Mutex, Accounting, NEW t \in Threads, pc[t] \in {"locked", "accepted"}
    PROVE  size = TotalBytes(data)
<1>1. \A u \in Threads \ {t} : pc[u] \notin Held
  BY Alone DEF Held
<1>2. \A u \in Threads : pc[u] \notin {"counted", "popped"}
  BY <1>1 DEF Held
<1> QED
  BY <1>2 DEF Accounting

\* The dictionary changes at two places only.
LEMMA DataChanges ==
    ASSUME [Next]_vars
    PROVE  UNCHANGED data \/ \E t \in Threads : PutStore(t) \/ DeletePop(t)
BY DEF Next, vars, Invoke, Acquire, Locked, PutStep, PutRefused, PutAccepted,
       PutAccount, Get, DeleteStep, DeleteMissing, DeleteAccount, Exists, Scan,
       Release, Return

\* Only finitely many keys are ever stored: a put adds one.
LEMMA NextFiniteData == IInv /\ [Next]_vars => FiniteData'
<1> SUFFICES ASSUME IInv, [Next]_vars PROVE FiniteData'
  OBVIOUS
<1> USE DEF IInv
<1>1. data \in Dictionaries
  BY DEF TypeOK, Dictionaries
<1>2. CASE UNCHANGED data
  BY <1>2 DEF FiniteData, Slots, Store!Stored
<1>3. ASSUME NEW t \in Threads, PutStore(t) PROVE FiniteData'
  <2>1. call[t].key \in Keys /\ call[t].data \in Values
    BY <1>3, InCall DEF PutStore, Goto
  <2> QED
    BY <1>1, <1>3, <2>1, TotalBytesUpdate, StoredUpdate DEF PutStore, FiniteData
<1>4. ASSUME NEW t \in Threads, DeletePop(t) PROVE FiniteData'
  <2>1. call[t].key \in Keys
    BY <1>4, InCall DEF DeletePop, Goto, Body
  <2> QED
    BY <1>1, <1>4, <2>1, TotalBytesUpdate, StoredUpdate DEF DeletePop, FiniteData
<1> QED
  BY <1>2, <1>3, <1>4, DataChanges

\* A put that passed _check_limits stores within the limits.
LEMMA NextLimits == IInv /\ [Next]_vars => LimitsRespected'
<1> SUFFICES ASSUME IInv, [Next]_vars PROVE LimitsRespected'
  OBVIOUS
<1> USE DEF IInv
<1>1. data \in Dictionaries
  BY DEF TypeOK, Dictionaries
<1>2. CASE UNCHANGED data
  BY <1>2 DEF LimitsRespected, TotalBytes, Slots, Store!Stored
<1>3. ASSUME NEW t \in Threads, PutStore(t) PROVE LimitsRespected'
  <2>1. ~ WouldOverflow(call[t].key, call[t].data)
    BY <1>3 DEF PutStore, Goto, Calls
  <2> QED
    BY <1>3, <2>1 DEF PutStore, WouldOverflow, LimitsRespected
<1>4. ASSUME NEW t \in Threads, DeletePop(t) PROVE LimitsRespected'
  <2> DEFINE k == call[t].key
             n == Cardinality(Store!Stored(data))
             m == Cardinality(Store!Stored([data EXCEPT ![k] = None]))
             b == TotalBytes([data EXCEPT ![k] = None])
  <2>1. k \in Keys /\ data[k] \in Values \cup {None}
    BY <1>4, InCall DEF DeletePop, Goto, Body, TypeOK
  <2>2. n \in Nat /\ m \in Nat /\ m <= n
    BY <1>1, <2>1, StoredUpdate DEF FiniteData
  <2>3. /\ b = TotalBytes(data) - Length(data[k]) + Length(None)
        /\ TotalBytes(data) \in Nat
    BY <1>1, <2>1, TotalBytesUpdate DEF FiniteData
  <2>4. Length(None) = 0 /\ Length(data[k]) \in Nat
    BY <2>1, LengthType DEF Length
  <2>5. ~ TooMany(n) /\ ~ TooLarge(TotalBytes(data))
    BY DEF LimitsRespected
  <2> HIDE DEF m, b, n
  <2>6. ~ TooMany(m) /\ ~ TooLarge(b)
    BY <2>2, <2>3, <2>4, <2>5, LimitsAssumption DEF TooMany, TooLarge
  <2> QED
    BY <1>4, <2>6 DEF DeletePop, LimitsRespected, m, b
<1> QED
  BY <1>2, <1>3, <1>4, DataChanges

\* Each thread keeps the request, outcome and saved value its place in the code calls for.
LEMMA NextCalls == IInv /\ [Next]_vars => Calls'
<1> SUFFICES ASSUME IInv, [Next]_vars PROVE Calls'
  OBVIOUS
<1> USE DEF IInv, TypeOK, Goto, Outcome, Body
<1>1. CASE UNCHANGED vars
  BY <1>1 DEF vars, Calls, WouldOverflow
<1>2. ASSUME NEW t \in Threads, Invoke(t) PROVE Calls'
  BY <1>2, NoneAssumption DEF Invoke, Calls, WouldOverflow
<1>3. ASSUME NEW t \in Threads, Acquire(t) PROVE Calls'
  BY <1>3 DEF Acquire, Calls, WouldOverflow
<1>4. ASSUME NEW t \in Threads, PutRefused(t) PROVE Calls'
  BY <1>4, OutcomeTypes DEF PutRefused, Calls, WouldOverflow
<1>5. ASSUME NEW t \in Threads, PutAccepted(t) PROVE Calls'
  <2>1. call[t].key \in Keys /\ call[t].data \in Values
    BY <1>5, InCall DEF PutAccepted
  <2>2. size = TotalBytes(data)
    BY <1>5, ExactCounter DEF PutAccepted
  <2>3. ~ WouldOverflow(call[t].key, call[t].data)
    BY <1>5, <2>1, <2>2, AcceptedFits DEF PutAccepted
  <2> QED
    BY <1>5, <2>3 DEF PutAccepted, Calls, WouldOverflow
<1>6. ASSUME NEW t \in Threads, PutAccount(t) PROVE Calls'
  BY <1>6 DEF PutAccount, Calls, WouldOverflow
<1>7. ASSUME NEW t \in Threads, PutStore(t) PROVE Calls'
  <2>1. \A u \in Threads \ {t} : pc[u] \notin {"accepted", "counted"}
    BY <1>7, Alone DEF PutStore, Held
  <2> QED
    BY <1>7, <2>1, OutcomeTypes DEF PutStore, Calls
<1>8. ASSUME NEW t \in Threads, Get(t) PROVE Calls'
  <2>1. call[t].key \in Keys
    BY <1>8, InCall DEF Get
  <2>2. ret'[t] # None
    BY <1>8, <2>1, OutcomeTypes DEF Get
  <2> QED
    BY <1>8, <2>2 DEF Get, Calls, WouldOverflow
<1>9. ASSUME NEW t \in Threads, DeleteMissing(t) PROVE Calls'
  BY <1>9, OutcomeTypes DEF DeleteMissing, Calls, WouldOverflow
<1>10. ASSUME NEW t \in Threads, DeletePop(t) PROVE Calls'
  <2>1. \A u \in Threads \ {t} : pc[u] \notin {"accepted", "counted"}
    BY <1>10, Alone DEF DeletePop, Held
  <2> QED
    BY <1>10, <2>1, OutcomeTypes DEF DeletePop, Calls
<1>11. ASSUME NEW t \in Threads, DeleteAccount(t) PROVE Calls'
  BY <1>11 DEF DeleteAccount, Calls, WouldOverflow
<1>12. ASSUME NEW t \in Threads, Exists(t) PROVE Calls'
  <2>1. ret'[t] # None
    BY <1>12, OutcomeTypes DEF Exists
  <2> QED
    BY <1>12, <2>1 DEF Exists, Calls, WouldOverflow
<1>13. ASSUME NEW t \in Threads, Scan(t) PROVE Calls'
  <2>1. ret'[t] # None
    BY <1>13, OutcomeTypes DEF Scan, Store!Stored
  <2> QED
    BY <1>13, <2>1 DEF Scan, Calls, WouldOverflow
<1>14. ASSUME NEW t \in Threads, Release(t) PROVE Calls'
  BY <1>14 DEF Release, Calls, WouldOverflow
<1>15. ASSUME NEW t \in Threads, Return(t) PROVE Calls'
  BY <1>15 DEF Return, Calls, WouldOverflow
<1> QED
  BY <1>1, <1>2, <1>3, <1>4, <1>5, <1>6, <1>7, <1>8, <1>9, <1>10, <1>11, <1>12,
     <1>13, <1>14, <1>15 DEF Next, Locked, PutStep, DeleteStep

\* The counter differs from the total by just what the holder of the lock has yet to do.
LEMMA NextAccounting == IInv /\ [Next]_vars => Accounting'
<1> SUFFICES ASSUME IInv, [Next]_vars PROVE Accounting'
  OBVIOUS
<1> USE DEF IInv, TypeOK, Goto, Body
<1> DEFINE Between(u) == pc[u] \in {"counted", "popped"}
<1>1. data \in Dictionaries
  BY DEF Dictionaries
\* A step that moves no thread between the two steps of a put or a delete.
<1>2. ASSUME UNCHANGED <<data, size>>,
             \A u \in Threads : /\ Between(u)' <=> Between(u)
                                /\ Between(u) => UNCHANGED <<pc[u], old[u], call[u]>>
      PROVE  Accounting'
  BY <1>2 DEF Accounting, TotalBytes, Slots, Store!Stored
<1>3. CASE UNCHANGED vars
  BY <1>2, <1>3 DEF vars
<1>4. ASSUME NEW t \in Threads, Invoke(t) \/ Acquire(t) \/ PutRefused(t) \/ PutAccepted(t)
      PROVE  Accounting'
  BY <1>2, <1>4 DEF Invoke, Acquire, PutRefused, PutAccepted
<1>5. ASSUME NEW t \in Threads, Get(t) \/ DeleteMissing(t) \/ Exists(t) \/ Scan(t)
      PROVE  Accounting'
  BY <1>2, <1>5 DEF Get, DeleteMissing, Exists, Scan
<1>6. ASSUME NEW t \in Threads, Release(t) \/ Return(t) PROVE Accounting'
  BY <1>2, <1>6 DEF Release, Return
<1>7. ASSUME NEW t \in Threads, PutAccount(t) PROVE Accounting'
  <2>1. size = TotalBytes(data)
    BY <1>7, ExactCounter DEF PutAccount
  <2>2. \A u \in Threads \ {t} : ~ Between(u)'
    BY <1>7, Alone DEF PutAccount, Held
  <2>3. Bytes[call[t].data] = Length(call[t].data)
    BY <1>7, InCall, NoneAssumption DEF PutAccount, Length
  <2>4. Length(old[t]) \in Nat /\ Length(call[t].data) \in Nat
    BY <1>7, InCall, LengthType DEF PutAccount
  <2>5. size' = TotalBytes(data) - Length(old[t]) + Length(call[t].data)
    BY <1>7, <2>1, <2>3, <2>4 DEF PutAccount
  <2>6. TotalBytes(data)' = TotalBytes(data)
    BY <1>7 DEF PutAccount, TotalBytes, Slots, Store!Stored
  <2>7. pc'[t] = "counted" /\ UNCHANGED <<old, call>>
    BY <1>7 DEF PutAccount
  <2> QED
    BY <2>2, <2>5, <2>6, <2>7 DEF Accounting, Length
<1>8. ASSUME NEW t \in Threads, PutStore(t) PROVE Accounting'
  <2>1. call[t].key \in Keys /\ call[t].data \in Values /\ old[t] = data[call[t].key]
    BY <1>8, InCall DEF PutStore, Calls
  <2>2. \A u \in Threads : ~ Between(u)'
    BY <1>8, Alone DEF PutStore, Held
  <2>3. size = TotalBytes(data) - Length(old[t]) + Length(call[t].data)
    BY <1>8 DEF PutStore, Accounting
  <2>4. TotalBytes(data') = TotalBytes(data) - Length(old[t]) + Length(call[t].data)
    BY <1>1, <1>8, <2>1, TotalBytesUpdate DEF PutStore, FiniteData
  <2>5. size' = TotalBytes(data)'
    BY <1>8, <2>3, <2>4 DEF PutStore, TotalBytes, Slots, Store!Stored
  <2> QED
    BY <2>2, <2>5 DEF Accounting
<1>9. ASSUME NEW t \in Threads, DeletePop(t) PROVE Accounting'
  <2>1. call[t].key \in Keys /\ data[call[t].key] \in Values \cup {None}
    BY <1>9, InCall DEF DeletePop
  <2>2. size = TotalBytes(data)
    BY <1>9, ExactCounter DEF DeletePop
  <2>3. \A u \in Threads \ {t} : ~ Between(u)'
    BY <1>9, Alone DEF DeletePop, Held
  <2>4. old'[t] = data[call[t].key] /\ pc'[t] = "popped" /\ size' = size
    BY <1>9 DEF DeletePop
  <2>5. /\ TotalBytes(data') = TotalBytes(data) - Length(old'[t]) + Length(None)
        /\ TotalBytes(data) \in Nat
    BY <1>1, <1>9, <2>1, <2>4, TotalBytesUpdate DEF DeletePop, FiniteData
  <2>6. Length(None) = 0 /\ Length(old'[t]) \in Nat
    BY <2>1, <2>4, LengthType DEF Length
  <2>7. size' = TotalBytes(data') + Length(old'[t])
    BY <2>2, <2>4, <2>5, <2>6
  <2>8. size' = TotalBytes(data)' + Length(old[t])'
    BY <2>7 DEF TotalBytes, Slots, Store!Stored, Length
  <2> QED
    BY <2>3, <2>4, <2>8 DEF Accounting
<1>10. ASSUME NEW t \in Threads, DeleteAccount(t) PROVE Accounting'
  <2>1. size = TotalBytes(data) + Length(old[t])
    BY <1>10 DEF DeleteAccount, Accounting
  <2>2. \A u \in Threads : ~ Between(u)'
    BY <1>10, Alone DEF DeleteAccount, Held
  <2>3. TotalBytes(data) \in Nat /\ Length(old[t]) \in Nat
    BY LengthType, FS_CardinalityType DEF TotalBytes, FiniteData
  <2>4. size' = TotalBytes(data)
    BY <1>10, <2>1, <2>3 DEF DeleteAccount
  <2>5. TotalBytes(data)' = TotalBytes(data)
    BY <1>10 DEF DeleteAccount, TotalBytes, Slots, Store!Stored
  <2> QED
    BY <2>2, <2>4, <2>5 DEF Accounting
<1> QED
  BY <1>3, <1>4, <1>5, <1>6, <1>7, <1>8, <1>9, <1>10 DEF Next, Locked, PutStep, DeleteStep

-----------------------------------------------------------------------------
(* The theorems. *)

\* The invariant holds in every state of every behaviour of the backend.
THEOREM Invariance == Spec => []IInv
<1>1. IInv /\ [Next]_vars => IInv'
  BY NextTypeOK, NextMutex, NextCalls, NextFiniteData, NextAccounting, NextLimits
  DEF IInv
<1> QED
  BY InitIInv, <1>1, PTL DEF Spec

\* Every variable keeps its type: no call is left without a request, no
\* outcome is anything the API does not allow.
THEOREM TypeCorrect == Spec => []TypeOK
<1>1. IInv => TypeOK
  BY DEF IInv
<1> QED
  BY Invariance, <1>1, PTL

\* `_size` is the number of stored bytes whenever the lock is free
\* (memory.py:38), for any number of threads.
THEOREM SizeIsExact == Spec => []SizeAccounts
<1>1. IInv => SizeAccounts
  <2> SUFFICES ASSUME IInv, lock = None PROVE size = TotalBytes(data)
    BY DEF SizeAccounts
  <2>1. \A t \in Threads : pc[t] \notin {"counted", "popped"}
    BY NoneAssumption DEF IInv, Mutex, Held
  <2> QED
    BY <2>1 DEF IInv, Accounting
<1> QED
  BY Invariance, <1>1, PTL

\* No interleaving of puts overshoots max_objects or max_size.
THEOREM LimitsHold == Spec => []LimitsRespected
<1>1. IInv => LimitsRespected
  BY DEF IInv
<1> QED
  BY Invariance, <1>1, PTL

\* Unless a key is the empty string, put() refuses only what does not fit.
THEOREM RefusalIsJustified ==
    ASSUME EmptyKey \notin Keys
    PROVE  Spec => RefusedOnlyWhenFull
<1> DEFINE Justified ==
        \A t \in Threads :
            ret'[t] = Store!BlobError /\ ret[t] = None
                => WouldOverflow(call[t].key, call[t].data)
<1>1. IInv /\ [Next]_vars => [Justified]_vars
  <2> SUFFICES ASSUME IInv, Next, NEW u \in Threads,
                      ret'[u] = Store!BlobError, ret[u] = None
               PROVE  WouldOverflow(call[u].key, call[u].data)
    OBVIOUS
  <2> USE DEF IInv, TypeOK
  <2>1. Store!BlobError # None
    BY OutcomeTypes
  <2>2. /\ Store!BlobError # Store!Done
        /\ Store!BlobError # Store!KeyError
        /\ \A x : Store!BlobError # [value |-> x]
        /\ \A x : Store!BlobError # [found |-> x]
        /\ \A x : Store!BlobError # [keys |-> x]
    BY DEF Store!BlobError, Store!Done, Store!KeyError
  <2>3. PutRefused(u)
    BY <2>1, <2>2 DEF Next, Invoke, Acquire, Locked, PutStep, PutRefused, PutAccepted,
       PutAccount, PutStore, Get, DeleteStep, DeleteMissing, DeletePop, DeleteAccount,
       Exists, Scan, Release, Return, Outcome
  <2>4. call[u].key \in Keys /\ call[u].data \in Values
    BY <2>3, InCall DEF PutRefused, Body, Goto
  <2>5. size = TotalBytes(data)
    BY <2>3, ExactCounter DEF PutRefused, Body, Goto
  <2>6. OverLimits(call[u].key, call[u].data) /\ call[u].key # EmptyKey
    BY <2>3, <2>4 DEF PutRefused
  <2> QED
    BY <2>4, <2>5, <2>6, AcceptedFits
<1> QED
  BY Invariance, <1>1, PTL DEF Spec, RefusedOnlyWhenFull

\* The backend implements the contract of the base class: each of its steps
\* is a step of the contract or leaves what callers see as it is.
THEOREM Refinement == Spec => ImplementsStore
<1>1. Init => Store!Init
  BY DEF Init, Store!Init
<1>2. IInv /\ [Next]_vars => [Store!Next]_(Store!vars)
  <2> SUFFICES ASSUME IInv, [Next]_vars PROVE [Store!Next]_(Store!vars)
    OBVIOUS
  <2> USE DEF IInv, TypeOK, Goto, Outcome, Body, Store!Takes, Store!vars
  <2>1. CASE UNCHANGED vars
    BY <2>1 DEF vars
  <2>2. ASSUME NEW t \in Threads, Invoke(t) PROVE Store!Invoke(t)
    BY <2>2 DEF Invoke, Store!Invoke, Calls
  <2>3. ASSUME NEW t \in Threads, Acquire(t) \/ PutAccepted(t) \/ PutAccount(t)
                                    \/ DeleteAccount(t) \/ Release(t)
        PROVE  UNCHANGED Store!vars
    BY <2>3 DEF Acquire, PutAccepted, PutAccount, DeleteAccount, Release
  <2>4. ASSUME NEW t \in Threads, PutRefused(t) PROVE Store!Fails(t)
    BY <2>4 DEF PutRefused, Store!Fails, Calls
  <2>5. ASSUME NEW t \in Threads, PutStore(t) PROVE Store!Put(t)
    BY <2>5 DEF PutStore, Store!Put, Calls
  <2>6. ASSUME NEW t \in Threads, Get(t) PROVE Store!Get(t)
    BY <2>6 DEF Get, Store!Get, Calls
  <2>7. ASSUME NEW t \in Threads, DeleteMissing(t) \/ DeletePop(t) PROVE Store!Delete(t)
    <3>1. call[t].key \in Keys
      BY <2>7, InCall DEF DeleteMissing, DeletePop
    <3>2. CASE DeleteMissing(t)
      <4>1. [data EXCEPT ![call[t].key] = None] = data
        BY <3>1, <3>2 DEF DeleteMissing
      <4> QED
        BY <3>2, <4>1 DEF DeleteMissing, Store!Delete, Calls
    <3>3. CASE DeletePop(t)
      BY <3>3 DEF DeletePop, Store!Delete, Calls
    <3> QED
      BY <2>7, <3>2, <3>3
  <2>8. ASSUME NEW t \in Threads, Exists(t) PROVE Store!Exists(t)
    BY <2>8 DEF Exists, Store!Exists, Calls
  <2>9. ASSUME NEW t \in Threads, Scan(t) PROVE Store!Scan(t)
    BY <2>9 DEF Scan, Store!Scan, Calls
  <2>10. ASSUME NEW t \in Threads, Return(t) PROVE Store!Return(t)
    BY <2>10 DEF Return, Store!Return, Calls
  <2> QED
    BY <2>1, <2>2, <2>3, <2>4, <2>5, <2>6, <2>7, <2>8, <2>9, <2>10
    DEF Next, Locked, PutStep, DeleteStep, Store!Next
<1> QED
  BY Invariance, <1>1, <1>2, PTL DEF Spec, ImplementsStore, Store!Spec
=============================================================================
