---------------------------- MODULE SQLiteBlobProofs ----------------------------
(***************************************************************************)
(* SQLiteBlob for every number of threads, instances and rows: no          *)
(* connection is leaked; with an instance for each thread the backend      *)
(* implements the contract of the base class; a scan is faithful whatever  *)
(* the other threads of its instance write and close.                      *)
(***************************************************************************)
EXTENDS SQLiteBlob, NaturalsInduction, WellFoundedInduction, TLAPS

\* Each thread has an instance of its own; there is one instance.
Own == \A t, u \in Threads : Uses[t] = Uses[u] => t = u
One == \A b, d \in Blobs : b = d

-----------------------------------------------------------------------------
(* The inductive invariant. *)

Locked == {"recheck", "pragmas", "schema", "closing", "forget"}

\* Who is inside the property or close() of an instance holds its lock.
Mutex == \A t \in Threads : pc[t] \in Locked => connLock[Uses[t]] = t

\* What a thread has at each line.
Placed(t) ==
    /\ pc[t] = "idle" <=> call[t] = None
    /\ pc[t] = "done" <=> ret[t] # None
    /\ pc[t] \in {"close", "closing", "forget"} => call[t].op = "close"
    /\ pc[t] \in {"hot", "hit", "lock", "recheck", "pragmas", "schema", "execute"} => call[t].op # "close"
    /\ pc[t] = "rowcount" => call[t].op = "delete"
    /\ pc[t] = "scanning" => call[t].op = "scan"
    /\ pc[t] \in {"rowcount", "scanning"} => handle[t] # None
    /\ handle[t] # None => pc[t] \in {"execute", "rowcount", "scanning", "done"}
    /\ cursor[t] # None => pc[t] = "scanning"
    /\ got[t] # {} => pc[t] \in {"scanning", "done"}

\* An open connection is the connection of one instance, and the connection
\* of an instance is open until close() has closed it.
Owned ==
    /\ \A b, d \in Blobs : conn[b] = conn[d] /\ conn[b] # None => b = d
    /\ \A c \in live : \E b \in Blobs : conn[b] = c
    /\ \A t \in Threads : pc[t] = "forget" => conn[Uses[t]] \notin live
    /\ \A b \in Blobs : conn[b] # None /\ conn[b] \notin live =>
          \E t \in Threads : Uses[t] = b /\ pc[t] = "forget"
    /\ \A t \in Threads : pc[t] \in {"pragmas", "schema"} => conn[Uses[t]] # None

\* A connection that is closed reads nothing.
ClosedUnread == \A c \in Conns : c \notin live => snap[c] = None

IInv ==
    /\ TypeOK
    /\ Mutex
    /\ \A t \in Threads : Placed(t)
    /\ Owned
    /\ ClosedUnread

Acts(t) == Invoke(t) \/ InvokeNothing(t) \/ Running(t) \/ Return(t)

-----------------------------------------------------------------------------
(* Lemmas. *)

\* A set of natural numbers that is not empty has a smallest.
LEMMA Smallest ==
    ASSUME NEW S, S \subseteq Nat, S # {}
    PROVE  \E x \in S : \A y \in S : x <= y
<1> DEFINE Less == {p \in Nat \X Nat : p[1] < p[2]}
<1>1. IsWellFoundedOn(Less, Nat)
  BY NatLessThanWellFounded DEF OpToRel
<1> HIDE DEF Less
<1>2. PICK x \in S : \A y \in S : ~ (<<y, x>> \in Less)
  BY <1>1, WFMin
<1>3. \A y \in Nat : y < x => <<y, x>> \in Less
  BY DEF Less
<1>4. \A y \in S : ~ (y < x)
  BY <1>2, <1>3
<1> QED
  BY <1>4

\* The key a scan yields next is one ahead of it, and it passes over none.
LEMMA NextKeyForms ==
    ASSUME NEW r, NEW S \in SUBSET Keys, NEW n \in Nat
    PROVE  LET ahead == {k \in Stored(r) \cap S : k > n}
               next == NextKey(r, S, n)
           IN  \/ ahead = {} /\ next = None
               \/ /\ next \in ahead /\ next \in Keys /\ next # None
                  /\ ahead = {next} \cup {k \in Stored(r) \cap S : k > next}
<1> DEFINE ahead == {k \in Stored(r) \cap S : k > n}
           next == NextKey(r, S, n)
<1>1. CASE ahead = {}
  BY <1>1 DEF NextKey
<1>2. CASE ahead # {}
  <2>1. ahead \subseteq Nat /\ ahead \subseteq Keys
    BY KeysAssumption
  <2>2. \E x \in ahead : \A y \in ahead : x <= y
    BY <1>2, <2>1, Smallest
  <2>3. next \in ahead /\ \A y \in ahead : next <= y
    BY <1>2, <2>2 DEF NextKey
  <2>4. next # None
    BY <2>1, <2>3, NoneAssumption
  <2>5. ahead = {next} \cup {k \in Stored(r) \cap S : k > next}
    <3> HIDE DEF next
    <3>1. \A k \in Stored(r) \cap S : k \in Nat
      BY KeysAssumption
    <3>2. \A k \in ahead : k \in Nat /\ k \in Stored(r) \cap S
      BY <2>1
    <3>3. \A k \in ahead : k = next \/ k > next
      BY <2>3, <3>2
    <3>4. \A k \in Stored(r) \cap S : k > next => k > n
      BY <2>3, <3>1, <3>2
    <3> QED
      BY <2>3, <3>2, <3>3, <3>4
  <2> QED
    BY <2>1, <2>3, <2>4, <2>5
<1> QED
  BY <1>1, <1>2

\* The outcomes of the code are those of the type, and None is none of them.
LEMMA OutcomeForms ==
    /\ {Store!Done, Store!KeyError, Store!BlobError, RawError} \subseteq Outcomes
    /\ \A v \in Values : [value |-> v] \in Outcomes
    /\ \A b \in BOOLEAN : [found |-> b] \in Outcomes
    /\ \A S \in SUBSET Keys : [keys |-> S] \in Outcomes
    /\ \A c : RowCountOf(c) \in Outcomes
    /\ None \notin Outcomes
<1>1. {Store!Done, Store!KeyError, Store!BlobError, RawError} \subseteq Outcomes
  BY DEF Outcomes, Store!Outcomes
<1>2. \A v \in Values : [value |-> v] \in Outcomes
  BY DEF Outcomes, Store!Outcomes
<1>3. \A b \in BOOLEAN : [found |-> b] \in Outcomes
  BY DEF Outcomes, Store!Outcomes
<1>4. \A S \in SUBSET Keys : [keys |-> S] \in Outcomes
  BY DEF Outcomes, Store!Outcomes
<1>5. \A c : RowCountOf(c) \in {Store!Done, Store!KeyError}
  BY DEF RowCountOf, Store!Done, Store!KeyError
<1> QED
  BY <1>1, <1>2, <1>3, <1>4, <1>5, NoneAssumption

\* The fields of a request.
LEMMA RequestForms ==
    ASSUME NEW q \in Requests
    PROVE  /\ q # None
           /\ q.op \in {"put", "get", "delete", "exists", "scan"} \cup Lifecycle
           /\ q.op \in {"put", "get", "delete", "exists"} => q.key \in Keys
           /\ q.op = "put" => q.data \in Values
           /\ q.op = "scan" => q.prefix \in Prefixes
           /\ q.op \notin Lifecycle => q \in Store!Requests
<1>1. q # None
  BY NoneAssumption
<1> QED
  BY <1>1 DEF Requests, Store!Requests, Lifecycle

\* A statement has its request and its connection.
LEMMA StatementForms ==
    ASSUME IInv, NEW t \in Threads, NEW op, NEW to, Statement(t, op, to),
           op \in {"put", "get", "delete", "exists", "scan"}
    PROVE  /\ pc[t] = "execute" /\ call[t].op = op /\ call[t] \in Store!Requests
           /\ handle[t] \in Conns /\ handle[t] \in live /\ hasTable
           /\ op # "scan" => call[t].key \in Keys
           /\ op = "put" => call[t].data \in Values
           /\ op = "scan" => Under[call[t].prefix] \in SUBSET Keys
<1>1. pc[t] = "execute" /\ call[t].op = op /\ handle[t] # None /\ handle[t] \in live /\ hasTable
  BY DEF Statement, Goto, Usable
<1>2. call[t] # None
  BY <1>1 DEF IInv, Placed
<1>3. call[t] \in Requests /\ handle[t] \in Conns
  BY <1>1, <1>2 DEF IInv, TypeOK
<1>4. op \notin Lifecycle
  BY DEF Lifecycle
<1> QED
  BY <1>1, <1>3, <1>4, RequestForms, UnderAssumption

-----------------------------------------------------------------------------
(* Every step keeps the types. *)

LEMMA CommitTyped ==
    ASSUME TypeOK, NEW c \in Conns, NEW r \in Rows, Commit(c, r)
    PROVE  /\ rows' \in Rows
           /\ snap' \in [Conns -> Rows \cup {None}]
           /\ span' \in [Threads -> [always : SUBSET Keys, ever : SUBSET Keys]]
<1>1. Stored(r) \subseteq Keys
  BY DEF Stored
<1>2. rows' \in Rows /\ snap' \in [Conns -> Rows \cup {None}]
  BY DEF Commit, TypeOK
<1>3. \A t \in Threads : span[t] \in [always : SUBSET Keys, ever : SUBSET Keys]
  BY DEF TypeOK
<1>4. \A t \in Threads : [always |-> span[t].always \cap Stored(r), ever |-> span[t].ever \cup Stored(r)]
                            \in [always : SUBSET Keys, ever : SUBSET Keys]
  BY <1>1, <1>3
<1>5. span' \in [Threads -> [always : SUBSET Keys, ever : SUBSET Keys]]
  BY <1>3, <1>4 DEF Commit
<1> QED
  BY <1>2, <1>5

LEMMA ViewTyped ==
    ASSUME TypeOK, NEW c \in Conns
    PROVE  View(c) \in Rows
BY DEF TypeOK, View

LEMMA ReadOnTyped ==
    ASSUME TypeOK, NEW t \in Threads, NEW c \in Conns, c \in live, NEW next \in Keys \cup {None},
           ReadOn(t, c, next, View(c))
    PROVE  /\ cursor' \in [Threads -> Keys \cup {None}]
           /\ snap' \in [Conns -> Rows \cup {None}]
           /\ behind' \subseteq live
<1>1. View(c) \in Rows
  BY ViewTyped
<1> QED
  BY <1>1 DEF ReadOn, TypeOK

\* Where the connection is looked for and made.
LEMMA ConnectionTyped ==
    ASSUME TypeOK, NEW t \in Threads, Connection(t)
    PROVE  TypeOK'
<1> USE DEF TypeOK, db, inst, scan, Goto, Unlock, Outcome, Labels
<1>0. Uses[t] \in Blobs
  BY InstancesAssumption
<1>1. CASE HotCheck(t)
  BY <1>1 DEF HotCheck
<1>2. CASE HotReturn(t)
  BY <1>0, <1>2 DEF HotReturn
<1>3. CASE Lock(t)
  BY <1>3 DEF Lock
<1>4. CASE Recheck(t)
  BY <1>0, <1>4 DEF Recheck
<1>5. CASE Connect(t)
  <2>1. PICK c \in Conns :
            /\ conn' = [conn EXCEPT ![Uses[t]] = c]
            /\ live' = live \cup {c}
            /\ changes' = [changes EXCEPT ![c] = 0]
    BY <1>5 DEF Connect
  <2> QED
    BY <1>5, <2>1 DEF Connect
<1>6. CASE Pragmas(t)
  BY <1>6 DEF Pragmas
<1>7. CASE CreateTable(t)
  BY <1>0, <1>7 DEF CreateTable
<1>8. CASE ConnectFails(t)
  <2>1. faults' \in 0 .. MaxFaults
    BY <1>8, InstancesAssumption DEF ConnectFails
  <2>2. ret' \in [Threads -> Outcomes \cup {None}]
    BY <1>8, OutcomeForms DEF ConnectFails
  <2> QED
    BY <1>8, <2>1, <2>2 DEF ConnectFails
<1> QED
  BY <1>1, <1>2, <1>3, <1>4, <1>5, <1>6, <1>7, <1>8 DEF Connection

LEMMA ExecuteTyped ==
    ASSUME IInv, NEW t \in Threads, Execute(t)
    PROVE  TypeOK'
<1>0. TypeOK
  BY DEF IInv
<1>1. ASSUME UNCHANGED <<db, inst, call, handle, scan, faults>>,
             NEW o \in Outcomes \cup {None}, Outcome(t, o), NEW l \in Labels, NEW m, Goto(t, m, l)
      PROVE  TypeOK'
  BY <1>0, <1>1 DEF TypeOK, db, inst, scan, Goto, Outcome
<1>2. "done" \in Labels /\ "rowcount" \in Labels /\ "scanning" \in Labels
  BY DEF Labels
<1>3. CASE Opened(t)
  BY <1>1, <1>2, <1>3, OutcomeForms DEF Opened
<1>4. CASE ExecuteFails(t)
  BY <1>1, <1>2, <1>4, OutcomeForms DEF ExecuteFails
<1>5. CASE Put(t)
  <2>1. handle[t] \in Conns /\ handle[t] \in live /\ call[t].key \in Keys /\ call[t].data \in Values
    BY <1>5, StatementForms DEF Put
  <2>2. [rows EXCEPT ![call[t].key] = call[t].data] \in Rows
    BY <1>0, <2>1 DEF TypeOK, Rows
  <2>3. /\ rows' \in Rows /\ snap' \in [Conns -> Rows \cup {None}]
        /\ span' \in [Threads -> [always : SUBSET Keys, ever : SUBSET Keys]]
    BY <1>0, <1>5, <2>1, <2>2, CommitTyped DEF Put
  <2>4. behind' \subseteq live /\ changes' \in [Conns -> {0, 1}]
    BY <1>0, <1>5 DEF Put, TypeOK, Behind
  <2>5. ret' \in [Threads -> Outcomes \cup {None}] /\ pc' \in [Threads -> Labels]
    BY <1>0, <1>2, <1>5, OutcomeForms DEF Put, TypeOK, Outcome, Statement, Goto
  <2> QED
    BY <1>0, <1>5, <2>3, <2>4, <2>5 DEF Put, TypeOK, inst
<1>6. CASE Get(t)
  <2> DEFINE v == View(handle[t])[call[t].key]
             o == IF v = None THEN Store!KeyError ELSE [value |-> v]
  <2>1. handle[t] \in Conns /\ call[t].key \in Keys
    BY <1>6, StatementForms DEF Get
  <2>2. v \in Values \cup {None}
    BY <1>0, <2>1, ViewTyped DEF Rows
  <2>3. o \in Outcomes
    BY <2>2, OutcomeForms
  <2>4. Outcome(t, o)
    BY <1>6 DEF Get
  <2> HIDE DEF o
  <2> QED
    BY <1>1, <1>2, <1>6, <2>3, <2>4 DEF Get, Statement
<1>7. CASE Exists(t)
  BY <1>1, <1>2, <1>7, OutcomeForms DEF Exists, Statement
<1>8. CASE Delete(t)
  <2>1. handle[t] \in Conns /\ handle[t] \in live /\ call[t].key \in Keys
    BY <1>8, StatementForms DEF Delete
  <2>2. [rows EXCEPT ![call[t].key] = None] \in Rows
    BY <1>0, <2>1 DEF TypeOK, Rows
  <2>3. /\ rows' \in Rows /\ snap' \in [Conns -> Rows \cup {None}]
        /\ span' \in [Threads -> [always : SUBSET Keys, ever : SUBSET Keys]]
    BY <1>0, <1>8, <2>1, <2>2, CommitTyped DEF Delete
  <2>4. behind' \subseteq live /\ changes' \in [Conns -> {0, 1}]
    BY <1>0, <1>8 DEF Delete, TypeOK, Behind
  <2>5. pc' \in [Threads -> Labels]
    BY <1>0, <1>2, <1>8 DEF Delete, TypeOK, Statement, Goto
  <2> QED
    BY <1>0, <1>8, <2>3, <2>4, <2>5 DEF Delete, TypeOK, inst
<1>9. CASE RowCount(t)
  BY <1>1, <1>2, <1>9, OutcomeForms DEF RowCount
<1>10. CASE ScanOpen(t)
  <2> DEFINE c == handle[t]
             S == Under[call[t].prefix]
             next == NextKey(View(c), S, 0)
  <2>1. c \in Conns /\ c \in live /\ S \in SUBSET Keys
    BY <1>10, StatementForms DEF ScanOpen
  <2>2. next \in Keys \cup {None}
    BY <2>1, NextKeyForms
  <2>3. ReadOn(t, c, next, View(c))
    BY <1>10 DEF ScanOpen
  <2>4. /\ cursor' \in [Threads -> Keys \cup {None}]
        /\ snap' \in [Conns -> Rows \cup {None}] /\ behind' \subseteq live
    BY <1>0, <2>1, <2>2, <2>3, ReadOnTyped
  <2>5. span' \in [Threads -> [always : SUBSET Keys, ever : SUBSET Keys]]
    <3>1. Stored(rows) \cap S \subseteq Keys
      BY <2>1
    <3>2. span' = [span EXCEPT ![t] = [always |-> Stored(rows) \cap S, ever |-> Stored(rows) \cap S]]
      BY <1>10 DEF ScanOpen
    <3> QED
      BY <1>0, <3>1, <3>2 DEF TypeOK
  <2>6. pc' \in [Threads -> Labels]
    BY <1>0, <1>2, <1>10 DEF ScanOpen, TypeOK, Statement, Goto
  <2> QED
    BY <1>0, <1>10, <2>4, <2>5, <2>6 DEF ScanOpen, TypeOK, inst
<1>11. CASE ScanNext(t)
  <2> DEFINE c == handle[t]
             S == Under[call[t].prefix]
             next == NextKey(View(c), S, cursor[t])
  <2>1. c \in Conns /\ c \in live /\ cursor[t] \in Keys /\ cursor[t] \in Nat
    BY <1>0, <1>11, KeysAssumption DEF ScanNext, TypeOK
  <2>2. S \in SUBSET Keys
    <3>1. call[t] \in Requests /\ call[t].op = "scan"
      BY <1>11 DEF ScanNext, Goto, IInv, Placed, TypeOK
    <3> QED
      BY <3>1, RequestForms, UnderAssumption
  <2>3. next \in Keys \cup {None}
    BY <2>1, <2>2, NextKeyForms
  <2>4. ReadOn(t, c, next, View(c))
    BY <1>11 DEF ScanNext
  <2>5. /\ cursor' \in [Threads -> Keys \cup {None}]
        /\ snap' \in [Conns -> Rows \cup {None}] /\ behind' \subseteq live
    BY <1>0, <2>1, <2>3, <2>4, ReadOnTyped
  <2>6. got' \in [Threads -> SUBSET Keys] /\ pc' \in [Threads -> Labels]
    BY <1>0, <1>2, <1>11, <2>1 DEF ScanNext, TypeOK, Goto
  <2> QED
    BY <1>0, <1>11, <2>5, <2>6 DEF ScanNext, TypeOK, inst
<1>12. CASE ScanEnd(t)
  <2>1. [keys |-> got[t]] \in Outcomes
    BY <1>0, OutcomeForms DEF TypeOK
  <2> QED
    BY <1>1, <1>2, <1>12, <2>1 DEF ScanEnd
<1>13. CASE ScanFails(t)
  BY <1>0, <1>2, <1>13, OutcomeForms DEF ScanFails, TypeOK, db, inst, Goto, Outcome
<1>14. CASE WriteFails(t)
  <2>1. faults' \in 0 .. MaxFaults
    BY <1>0, <1>14, InstancesAssumption DEF WriteFails, TypeOK
  <2> QED
    BY <1>0, <1>2, <1>14, <2>1, OutcomeForms DEF WriteFails, TypeOK, db, inst, scan, Goto, Outcome
<1> QED
  BY <1>3, <1>4, <1>5, <1>6, <1>7, <1>8, <1>9, <1>10, <1>11, <1>12, <1>13, <1>14 DEF Execute

LEMMA CallTyped ==
    ASSUME TypeOK, NEW t \in Threads, Invoke(t) \/ InvokeNothing(t) \/ Close(t) \/ Return(t)
    PROVE  TypeOK'
<1> USE DEF TypeOK, db, inst, scan, Goto, Unlock, Outcome, Labels
<1>1. CASE Invoke(t)
  BY <1>1 DEF Invoke
<1>2. CASE InvokeNothing(t)
  BY <1>2, OutcomeForms DEF InvokeNothing, Requests
<1>3. CASE CloseNothing(t)
  BY <1>3, OutcomeForms DEF CloseNothing
<1>4. CASE CloseConn(t)
  BY <1>4 DEF CloseConn
<1>5. CASE Forget(t)
  BY <1>5, OutcomeForms DEF Forget
<1>6. CASE Return(t)
  BY <1>6 DEF Return, ExactlyNone
<1> QED
  BY <1>1, <1>2, <1>3, <1>4, <1>5, <1>6 DEF Close

LEMMA TypeInductive ==
    ASSUME IInv, NEW t \in Threads, Acts(t)
    PROVE  TypeOK'
BY ConnectionTyped, ExecuteTyped, CallTyped DEF Acts, Running, IInv

-----------------------------------------------------------------------------
(* What the steps of a thread have in common. *)

\* A step is its thread's: other threads stay where they are.
LEMMA Others ==
    ASSUME TypeOK, NEW t \in Threads, Acts(t), NEW u \in Threads, u # t
    PROVE  /\ pc'[u] = pc[u] /\ call'[u] = call[u] /\ ret'[u] = ret[u]
           /\ handle'[u] = handle[u] /\ cursor'[u] = cursor[u] /\ got'[u] = got[u]
<1> USE DEF TypeOK, Goto, Outcome, inst, scan
<1>1. CASE Invoke(t) \/ InvokeNothing(t) \/ Return(t) \/ Close(t)
  BY <1>1 DEF Invoke, InvokeNothing, Return, Close, CloseNothing, CloseConn, Forget
<1>2. CASE Connection(t)
  BY <1>2 DEF Connection, HotCheck, HotReturn, Lock, Recheck, Connect, Pragmas, CreateTable,
     ConnectFails
<1>3. CASE Execute(t)
  BY <1>3 DEF Execute, Opened, ExecuteFails, WriteFails, Put, Get, Exists, Delete, RowCount, ScanOpen,
     ScanNext, ScanEnd, ScanFails, Statement, ReadOn
<1> QED
  BY <1>1, <1>2, <1>3 DEF Acts, Running

\* Connections come and go in three places.
LEMMA ConnectionsChange ==
    ASSUME NEW t \in Threads, Acts(t)
    PROVE  Connect(t) \/ CloseConn(t) \/ Forget(t) \/ (conn' = conn /\ live' = live)
BY DEF Acts, Invoke, InvokeNothing, Return, Running, Close, CloseNothing, Connection, HotCheck,
   HotReturn, Lock, Recheck, Pragmas, CreateTable, ConnectFails, Execute, Opened, ExecuteFails, WriteFails,
   Put, Get, Exists, Delete, RowCount, ScanOpen, ScanNext, ScanEnd, ScanFails, db, inst

\* What connections read changes in five.
LEMMA ViewsChange ==
    ASSUME NEW t \in Threads, Acts(t)
    PROVE  \/ Put(t) \/ Delete(t) \/ ScanOpen(t) \/ ScanNext(t) \/ CloseConn(t)
           \/ UNCHANGED <<rows, snap, behind>>
BY DEF Acts, Invoke, InvokeNothing, Return, Running, Close, CloseNothing, Forget, Connection,
   HotCheck, HotReturn, Lock, Recheck, Connect, Pragmas, CreateTable, ConnectFails, Execute,
   Opened, ExecuteFails, WriteFails, Get, Exists, RowCount, ScanEnd, ScanFails, db, inst

-----------------------------------------------------------------------------
(* Every step keeps the invariant. *)

LEMMA MutexInductive ==
    ASSUME IInv, NEW t \in Threads, Acts(t)
    PROVE  Mutex'
<1> USE DEF IInv, TypeOK
<1>0. Uses[t] \in Blobs
  BY InstancesAssumption
<1> SUFFICES ASSUME NEW u \in Threads, pc'[u] \in Locked PROVE connLock'[Uses[u]] = u
  BY DEF Mutex
<1>1. CASE u = t
  <2>1. CASE pc[t] \in Locked /\ connLock' = connLock
    BY <1>1, <2>1 DEF Mutex
  <2>2. CASE Lock(t)
    BY <1>0, <1>1, <2>2 DEF Lock
  <2>3. CASE Invoke(t) \/ InvokeNothing(t) \/ Return(t) \/ Close(t)
    BY <1>1, <2>1, <2>3 DEF Invoke, InvokeNothing, Return, Close, CloseNothing, CloseConn, Forget,
       Goto, Locked, inst
  <2>4. CASE Connection(t)
    BY <1>1, <2>1, <2>2, <2>4 DEF Connection, HotCheck, HotReturn, Recheck, Connect, Pragmas,
       CreateTable, ConnectFails, Goto, Locked, inst
  <2>5. CASE Execute(t)
    BY <1>1, <2>5 DEF Execute, Opened, ExecuteFails, WriteFails, Put, Get, Exists, Delete, RowCount, ScanOpen,
       ScanNext, ScanEnd, ScanFails, Statement, Goto, Locked
  <2> QED
    BY <2>3, <2>4, <2>5 DEF Acts, Running
<1>2. CASE u # t
  <2>1. pc[u] \in Locked /\ connLock[Uses[u]] = u
    BY <1>2, Others DEF Mutex
  <2>2. u # None
    BY NoneAssumption
  <2>3. CASE connLock' = connLock
    BY <2>1, <2>3
  <2>4. CASE Lock(t)
    BY <2>1, <2>2, <2>4 DEF Lock
  <2>5. CASE pc[t] \in Locked /\ Unlock(t)
    <3>1. Uses[t] # Uses[u]
      BY <1>2, <2>1, <2>5 DEF Mutex
    <3> QED
      BY <2>1, <2>5, <3>1 DEF Unlock
  <2> QED
    BY <2>3, <2>4, <2>5 DEF Acts, Invoke, InvokeNothing, Return, Running, Close, CloseNothing,
       CloseConn, Forget, Connection, HotCheck, HotReturn, Recheck, Connect, Pragmas, CreateTable,
       ConnectFails, Execute, Opened, ExecuteFails, WriteFails, Put, Get, Exists, Delete, RowCount, ScanOpen,
       ScanNext, ScanEnd, ScanFails, inst, Goto, Locked
<1> QED
  BY <1>1, <1>2

\* get() ends with a value or a KeyError.
LEMMA GetEnds ==
    ASSUME IInv, NEW t \in Threads, Get(t)
    PROVE  ret'[t] \in Outcomes
<1> DEFINE v == View(handle[t])[call[t].key]
           o == IF v = None THEN Store!KeyError ELSE [value |-> v]
<1>1. handle[t] \in Conns /\ call[t].key \in Keys
  BY StatementForms DEF Get
<1>2. v \in Values \cup {None}
  BY <1>1, ViewTyped DEF IInv, Rows
<1>3. o \in Outcomes
  BY <1>2, OutcomeForms
<1>4. Outcome(t, o)
  BY DEF Get
<1> HIDE DEF o
<1> QED
  BY <1>3, <1>4 DEF Outcome, IInv, TypeOK

\* A call that ends, and a scan that goes on.
LEMMA PlacedAtEnd ==
    ASSUME NEW t \in Threads, Placed(t), pc[t] \notin {"idle", "scanning"}, pc'[t] = "done",
           ret'[t] # None, call'[t] = call[t], cursor'[t] = cursor[t]
    PROVE  Placed(t)'
BY DEF Placed

LEMMA PlacedInScan ==
    ASSUME NEW t \in Threads, Placed(t), pc[t] \in {"execute", "scanning"}, pc'[t] = "scanning",
           call[t].op = "scan", handle[t] # None,
           call'[t] = call[t], ret'[t] = ret[t], handle'[t] = handle[t]
    PROVE  Placed(t)'
BY DEF Placed

LEMMA PlacedInductive ==
    ASSUME IInv, NEW t \in Threads, Acts(t)
    PROVE  \A u \in Threads : Placed(u)'
<1> USE DEF IInv, TypeOK, Goto, Outcome, inst, scan
<1>0. Placed(t) /\ None \notin Outcomes
  BY OutcomeForms
<1>1. CASE Invoke(t)
  <2>1. PICK r \in Requests :
            /\ call' = [call EXCEPT ![t] = r]
            /\ Goto(t, "idle", IF r.op # "close" THEN "hot" ELSE "close")
    BY <1>1 DEF Invoke
  <2>2. r # None
    BY RequestForms
  <2>3. Placed(t)'
    BY <1>0, <1>1, <2>1, <2>2 DEF Invoke, Placed
  <2> QED
    BY <2>3, Others DEF Placed
<1>2. CASE InvokeNothing(t)
  <2>1. PICK op \in Lifecycle : call' = [call EXCEPT ![t] = [op |-> op]]
    BY <1>2 DEF InvokeNothing
  <2>2. [op |-> op] \in Requests
    BY DEF Requests
  <2>3. Store!Done # None /\ [op |-> op] # None
    BY <2>2, RequestForms, OutcomeForms
  <2>4. Placed(t)'
    BY <1>0, <1>2, <2>1, <2>3 DEF InvokeNothing, Placed
  <2> QED
    BY <2>4, Others DEF Placed
<1>3. CASE Return(t)
  <2>1. Placed(t)'
    BY <1>0, <1>3 DEF Return, Placed
  <2> QED
    BY <2>1, Others DEF Placed
<1>4. CASE Close(t)
  <2>1. Store!Done # None
    BY OutcomeForms
  <2>2. Placed(t)'
    BY <1>0, <1>4, <2>1 DEF Close, CloseNothing, CloseConn, Forget, Placed
  <2> QED
    BY <2>2, Others DEF Placed
<1>5. CASE Connection(t)
  <2>1. RawError # None
    BY OutcomeForms
  <2>2. CASE HotCheck(t) \/ HotReturn(t) \/ Lock(t) \/ Recheck(t) \/ ConnectFails(t)
    BY <1>0, <2>1, <2>2 DEF HotCheck, HotReturn, Lock, Recheck, ConnectFails, Placed
  <2>3. CASE Connect(t) \/ Pragmas(t) \/ CreateTable(t)
    BY <1>0, <2>3 DEF Connect, Pragmas, CreateTable, Placed
  <2> QED
    BY <1>5, <2>2, <2>3, Others DEF Connection, Placed
<1>6. CASE Execute(t)
  <2> SUFFICES Placed(t)'
    BY Others DEF Placed
  <2>1. ASSUME NEW o \in Outcomes, Outcome(t, o), pc'[t] = "done", pc[t] # "idle",
               call' = call, handle' = handle, got' = got, cursor'[t] = None
        PROVE  Placed(t)'
    BY <1>0, <2>1 DEF Placed
  <2>2. RawError \in Outcomes /\ Store!Done \in Outcomes /\ \A c : RowCountOf(c) \in Outcomes
    BY OutcomeForms
  <2>3. CASE Opened(t) \/ ExecuteFails(t) \/ WriteFails(t)
    BY <1>0, <2>1, <2>2, <2>3 DEF Opened, ExecuteFails, WriteFails, Placed
  <2>4. CASE Put(t) \/ Get(t) \/ Exists(t)
    <3>1. ret'[t] # None
      <4>1. CASE Put(t)
        BY <2>2, <4>1, OutcomeForms DEF Put
      <4>2. CASE Get(t)
        BY <2>2, <4>2, OutcomeForms, GetEnds
      <4>3. CASE Exists(t)
        BY <4>3, OutcomeForms DEF Exists
      <4> QED
        BY <2>4, <4>1, <4>2, <4>3
    <3>2. /\ pc[t] = "execute" /\ pc' = [pc EXCEPT ![t] = "done"] /\ cursor' = cursor
          /\ call' = call /\ handle' = handle /\ got' = got
      BY <2>4 DEF Put, Get, Exists, Statement
    <3>3. pc'[t] = "done" /\ pc[t] # "scanning"
      BY <3>2
    <3> QED
      BY <1>0, <3>1, <3>2, <3>3, PlacedAtEnd
  <2>5. CASE RowCount(t)
    BY <1>0, <2>1, <2>2, <2>5 DEF RowCount, Placed
  <2>6. CASE ScanEnd(t)
    <3>1. [keys |-> got[t]] \in Outcomes
      BY OutcomeForms
    <3> QED
      BY <1>0, <2>1, <2>6, <3>1 DEF ScanEnd, Placed
  <2>7. CASE ScanFails(t)
    BY <1>0, <2>1, <2>2, <2>7 DEF ScanFails, Placed
  <2>8. CASE Delete(t)
    BY <1>0, <2>8 DEF Delete, Statement, Usable, Placed
  <2>9. CASE ScanOpen(t)
    <3>1. /\ pc[t] = "execute" /\ pc'[t] = "scanning" /\ call[t].op = "scan" /\ handle[t] # None
          /\ call' = call /\ ret' = ret /\ handle' = handle /\ got' = got
      BY <2>9 DEF ScanOpen, Statement, Usable
    <3> QED
      BY <1>0, <3>1, PlacedInScan DEF Placed
  <2>10. CASE ScanNext(t)
    <3>1. /\ pc[t] = "scanning" /\ pc'[t] = "scanning"
          /\ call' = call /\ ret' = ret /\ handle' = handle
      BY <2>10 DEF ScanNext
    <3> QED
      BY <1>0, <3>1, PlacedInScan DEF Placed
  <2> QED
    BY <1>6, <2>3, <2>4, <2>5, <2>6, <2>7, <2>8, <2>9, <2>10 DEF Execute
<1> QED
  BY <1>1, <1>2, <1>3, <1>4, <1>5, <1>6 DEF Acts, Running

LEMMA ClosedUnreadInductive ==
    ASSUME IInv, NEW t \in Threads, Acts(t)
    PROVE  ClosedUnread'
<1> USE DEF IInv, TypeOK, ClosedUnread
<1>1. CASE CloseConn(t)
  BY <1>1 DEF CloseConn
<1>2. CASE Put(t) \/ Delete(t)
  <2>1. handle[t] \in live /\ live' = live
    BY <1>2, StatementForms DEF Put, Delete
  <2>2. \A c \in Conns : c # handle[t] => snap'[c] = snap[c]
    BY <1>2 DEF Put, Delete, Commit
  <2> QED
    BY <2>1, <2>2
<1>3. CASE ScanOpen(t) \/ ScanNext(t)
  <2>1. handle[t] \in live /\ live' = live
    BY <1>3, StatementForms DEF ScanOpen, ScanNext
  <2>2. \A c \in Conns : c # handle[t] => snap'[c] = snap[c]
    BY <1>3 DEF ScanOpen, ScanNext, ReadOn
  <2> QED
    BY <2>1, <2>2
<1>4. CASE UNCHANGED <<rows, snap, behind>> /\ ~ CloseConn(t)
  <2>1. live \subseteq live'
    BY <1>4, ConnectionsChange DEF Connect, Forget, db
  <2> QED
    BY <1>4, <2>1
<1> QED
  BY <1>1, <1>2, <1>3, <1>4, ViewsChange

LEMMA OwnedInductive ==
    ASSUME IInv, NEW t \in Threads, Acts(t)
    PROVE  Owned'
<1> USE DEF IInv, TypeOK
<1>0. Uses \in [Threads -> Blobs]
  BY InstancesAssumption
<1>1. CASE Connect(t)
  <2>1. PICK c \in Conns :
            Free(c) /\ conn' = [conn EXCEPT ![Uses[t]] = c] /\ live' = live \cup {c}
    BY <1>1 DEF Connect
  <2>2. /\ pc[t] = "recheck" /\ conn[Uses[t]] = None /\ pc' = [pc EXCEPT ![t] = "pragmas"]
        /\ c # None /\ c \notin live /\ \A b \in Blobs : conn[b] # c
    BY <1>1, <2>1, NoneAssumption DEF Connect, Goto, Free
  <2>3. \A b \in Blobs : conn'[b] = IF b = Uses[t] THEN c ELSE conn[b]
    BY <1>0, <2>1
  <2>4. \A u \in Threads : pc'[u] = IF u = t THEN "pragmas" ELSE pc[u]
    BY <2>2
  <2>5. \A u \in Threads : pc[u] \in Locked /\ u # t => Uses[u] # Uses[t]
    BY <2>2 DEF Mutex, Locked
  <2>6. \A b, d \in Blobs : conn'[b] = conn'[d] /\ conn'[b] # None => b = d
    BY <2>2, <2>3 DEF Owned
  <2>7. \A e \in live' : \E b \in Blobs : conn'[b] = e
    BY <1>0, <2>1, <2>2, <2>3, NoneAssumption DEF Owned
  <2>8. \A u \in Threads : pc'[u] = "forget" => conn'[Uses[u]] \notin live'
    BY <1>0, <2>1, <2>2, <2>3, <2>4, <2>5 DEF Owned, Locked
  <2>9. \A b \in Blobs : conn'[b] # None /\ conn'[b] \notin live' =>
            \E u \in Threads : Uses[u] = b /\ pc'[u] = "forget"
    BY <2>1, <2>2, <2>3, <2>4 DEF Owned
  <2>10. \A u \in Threads : pc'[u] \in {"pragmas", "schema"} => conn'[Uses[u]] # None
    BY <1>0, <2>2, <2>3, <2>4 DEF Owned
  <2> QED
    BY <2>6, <2>7, <2>8, <2>9, <2>10 DEF Owned
<1>2. CASE CloseConn(t)
  <2>1. /\ pc[t] = "closing" /\ pc' = [pc EXCEPT ![t] = "forget"] /\ conn[Uses[t]] # None
        /\ conn' = conn /\ live' = live \ {conn[Uses[t]]}
    BY <1>2 DEF CloseConn, Goto, inst
  <2>2. \A u \in Threads : pc'[u] = IF u = t THEN "forget" ELSE pc[u]
    BY <2>1
  <2> QED
    BY <1>0, <2>1, <2>2 DEF Owned
<1>3. CASE Forget(t)
  <2>1. /\ pc[t] = "forget" /\ pc' = [pc EXCEPT ![t] = "done"]
        /\ conn' = [conn EXCEPT ![Uses[t]] = None] /\ live' = live
    BY <1>3 DEF Forget, Goto, db
  <2>2. \A u \in Threads : pc'[u] = IF u = t THEN "done" ELSE pc[u]
    BY <2>1
  <2>3. \A b \in Blobs : conn'[b] = IF b = Uses[t] THEN None ELSE conn[b]
    BY <1>0, <2>1
  <2>4. conn[Uses[t]] \notin live /\ None \notin live
    BY <2>1, NoneAssumption DEF Owned
  <2>5. \A u \in Threads : pc[u] \in Locked /\ u # t => Uses[u] # Uses[t]
    BY <2>1 DEF Mutex, Locked
  <2>6. \A b, d \in Blobs : conn'[b] = conn'[d] /\ conn'[b] # None => b = d
    BY <2>3 DEF Owned
  <2>7. \A e \in live' : \E b \in Blobs : conn'[b] = e
    BY <2>1, <2>3, <2>4 DEF Owned
  <2>8. \A u \in Threads : pc'[u] = "forget" => conn'[Uses[u]] \notin live'
    BY <1>0, <2>1, <2>2, <2>3, <2>4 DEF Owned
  <2>9. \A b \in Blobs : conn'[b] # None /\ conn'[b] \notin live' =>
            \E u \in Threads : Uses[u] = b /\ pc'[u] = "forget"
    BY <2>1, <2>2, <2>3 DEF Owned
  <2>10. \A u \in Threads : pc'[u] \in {"pragmas", "schema"} => conn'[Uses[u]] # None
    BY <1>0, <2>2, <2>3, <2>5 DEF Owned, Locked
  <2> QED
    BY <2>6, <2>7, <2>8, <2>9, <2>10 DEF Owned
<1>4. CASE conn' = conn /\ live' = live /\ ~ Connect(t) /\ ~ CloseConn(t) /\ ~ Forget(t)
  <2>1. \A u \in Threads : pc'[u] = "forget" <=> pc[u] = "forget"
    <3>1. pc'[t] = "forget" <=> pc[t] = "forget"
      BY <1>4 DEF Acts, Invoke, InvokeNothing, Return, Running, Close, CloseNothing, Connection,
         HotCheck, HotReturn, Lock, Recheck, Pragmas, CreateTable, ConnectFails, Execute, Opened,
         ExecuteFails, WriteFails, Put, Get, Exists, Delete, RowCount, ScanOpen, ScanNext, ScanEnd, ScanFails,
         Statement, Goto
    <3> QED
      BY <3>1, Others
  <2>2. \A u \in Threads : pc'[u] \in {"pragmas", "schema"} => pc[u] \in {"pragmas", "schema"}
    <3>1. pc'[t] \in {"pragmas", "schema"} => pc[t] \in {"pragmas", "schema"}
      BY <1>4 DEF Acts, Invoke, InvokeNothing, Return, Running, Close, CloseNothing, Connection,
         HotCheck, HotReturn, Lock, Recheck, Pragmas, CreateTable, ConnectFails, Execute, Opened,
         ExecuteFails, WriteFails, Put, Get, Exists, Delete, RowCount, ScanOpen, ScanNext, ScanEnd, ScanFails,
         Statement, Goto
    <3> QED
      BY <3>1, Others
  <2> QED
    BY <1>4, <2>1, <2>2 DEF Owned
<1> QED
  BY <1>1, <1>2, <1>3, <1>4, ConnectionsChange


LEMMA NextInductive == IInv /\ [Next]_vars => IInv'
<1> SUFFICES ASSUME IInv, [Next]_vars PROVE IInv'
  OBVIOUS
<1>1. CASE UNCHANGED vars
  <2>1. UNCHANGED <<rows, hasTable, live, snap, behind, changes, conn, connLock, pc, call, ret,
                    handle, cursor, got, span, faults>>
    BY <1>1 DEF vars, db, inst, scan
  <2> QED
    BY <2>1 DEF IInv, TypeOK, Mutex, Placed, Owned, ClosedUnread
<1>2. CASE Next
  <2>1. PICK t \in Threads : Acts(t)
    BY <1>2 DEF Next, Acts
  <2> QED
    BY <2>1, TypeInductive, MutexInductive, PlacedInductive, OwnedInductive, ClosedUnreadInductive
    DEF IInv
<1> QED
  BY <1>1, <1>2

LEMMA InitInvariant == Init => IInv
<1> SUFFICES ASSUME Init PROVE IInv
  OBVIOUS
<1>1. TypeOK
  BY InstancesAssumption DEF Init, TypeOK, Labels, ExactlyNone, Rows
<1>2. Mutex /\ ClosedUnread /\ \A t \in Threads : Placed(t)
  BY DEF Init, Mutex, Locked, ClosedUnread, Placed
<1>3. Owned
  BY NoneAssumption DEF Init, Owned
<1> QED
  BY <1>1, <1>2, <1>3 DEF IInv

\* The invariant that carries the others: who is inside the property or
\* close() holds the lock, and a connection has one owner.
THEOREM Invariance == Spec => []IInv
<1> QED
  BY InitInvariant, NextInductive, PTL DEF Spec

\* Rows, connections and calls keep their types; every outcome is one of the
\* API or an error of sqlite3.
THEOREM TypeCorrect == Spec => []TypeOK
<1>1. IInv => TypeOK
  BY DEF IInv
<1> QED
  BY <1>1, Invariance, PTL

\* No connection is leaked, however many threads race to open, fail to open
\* and close an instance.
THEOREM NoneLeaked == Spec => []NoConnectionLeaked
<1>1. IInv => NoConnectionLeaked
  <2> SUFFICES ASSUME IInv, NEW c \in live
               PROVE  \E b \in Blobs : conn[b] = c /\ \A d \in Blobs \ {b} : conn[d] # c
    BY DEF NoConnectionLeaked
  <2>1. c # None
    BY NoneAssumption DEF IInv, TypeOK
  <2> QED
    BY <2>1 DEF IInv, Owned
<1> QED
  BY <1>1, Invariance, PTL

-----------------------------------------------------------------------------
(* With an instance for each thread the backend implements the contract. *)

AtConnection == {"execute", "rowcount", "scanning"}

\* A thread works on the connection of its instance.
OnOwnConn(t) ==
    /\ pc[t] \in AtConnection \cup {"hit"} => conn[Uses[t]] # None
    /\ pc[t] \in AtConnection => handle[t] = conn[Uses[t]]

\* A connection has a snapshot as long as a scan reads from it.
Reading ==
    /\ \A c \in Conns : snap[c] # None => \E t \in Threads : handle[t] = c /\ cursor[t] # None
    /\ \A t \in Threads : cursor[t] # None => snap[handle[t]] # None

OwnInv == (\A t \in Threads : OnOwnConn(t)) /\ Reading

\* No other thread is at the connection of a thread, which is open.
LEMMA HandlesApart ==
    ASSUME Own, IInv, OwnInv, NEW t \in Threads, pc[t] \in AtConnection
    PROVE  /\ handle[t] \in live /\ handle[t] \in Conns
           /\ \A u \in Threads \ {t} : pc[u] \in AtConnection => handle[u] # handle[t]
<1>0. Uses \in [Threads -> Blobs]
  BY InstancesAssumption
<1>1. handle[t] = conn[Uses[t]] /\ conn[Uses[t]] # None
  BY DEF OwnInv, OnOwnConn
<1>2. ~ \E u \in Threads : Uses[u] = Uses[t] /\ pc[u] = "forget"
  BY DEF Own, AtConnection
<1>3. handle[t] \in live
  BY <1>0, <1>1, <1>2 DEF IInv, Owned
<1>4. \A u \in Threads \ {t} : pc[u] \in AtConnection => handle[u] # handle[t]
  BY <1>0, <1>1 DEF IInv, Owned, Own, OwnInv, OnOwnConn
<1> QED
  BY <1>3, <1>4 DEF IInv, TypeOK

\* What a thread that scans, or is about to, reads.
LEMMA OwnView ==
    ASSUME Own, IInv, OwnInv, NEW t \in Threads
    PROVE  /\ pc[t] = "execute" => snap[handle[t]] = None /\ View(handle[t]) = rows
           /\ cursor[t] # None => View(handle[t]) = snap[handle[t]]
<1>1. ASSUME pc[t] = "execute" PROVE snap[handle[t]] = None
  <2>1. pc[t] \in AtConnection
    BY <1>1 DEF AtConnection
  <2>2. \A u \in Threads : cursor[u] # None => u # t /\ pc[u] \in AtConnection
    BY <1>1 DEF IInv, Placed, AtConnection
  <2> QED
    BY <2>1, <2>2, HandlesApart DEF OwnInv, Reading
<1> QED
  BY <1>1 DEF View, OwnInv, Reading

LEMMA OnOwnConnInductive ==
    ASSUME Own, IInv, OwnInv, NEW t \in Threads, Acts(t)
    PROVE  \A u \in Threads : OnOwnConn(u)'
<1> USE DEF IInv, TypeOK
<1>0. Uses \in [Threads -> Blobs]
  BY InstancesAssumption
<1>1. ASSUME NEW u \in Threads, u # t PROVE OnOwnConn(u)'
  <2>1. Uses[t] # Uses[u] /\ Uses[u] \in Blobs
    BY <1>0, <1>1 DEF Own
  <2>2. conn'[Uses[u]] = conn[Uses[u]]
    BY <2>1, ConnectionsChange DEF Connect, CloseConn, Forget, inst
  <2>3. pc'[u] = pc[u] /\ handle'[u] = handle[u]
    BY <1>1, Others
  <2> QED
    BY <2>2, <2>3 DEF OwnInv, OnOwnConn
<1>2. OnOwnConn(t)'
  <2> USE DEF Goto, inst
  <2>0. OnOwnConn(t)
    BY DEF OwnInv
  <2>1. CASE Invoke(t) \/ InvokeNothing(t) \/ Return(t) \/ Close(t)
    <3>1. pc'[t] \notin AtConnection \cup {"hit"}
      BY <2>1 DEF Invoke, InvokeNothing, Return, Close, CloseNothing, CloseConn, Forget, AtConnection
    <3> QED
      BY <3>1 DEF OnOwnConn
  <2>2. CASE HotCheck(t)
    BY <2>2 DEF HotCheck, OnOwnConn, AtConnection
  <2>3. CASE HotReturn(t)
    <3>1. pc[t] = "hit" /\ handle'[t] = conn[Uses[t]] /\ conn' = conn
      BY <2>3 DEF HotReturn
    <3> QED
      BY <2>0, <3>1 DEF OnOwnConn
  <2>4. CASE Recheck(t)
    BY <2>4 DEF Recheck, OnOwnConn
  <2>5. CASE CreateTable(t)
    <3>1. pc[t] = "schema" /\ handle'[t] = conn[Uses[t]] /\ conn' = conn
      BY <2>5 DEF CreateTable
    <3>2. conn[Uses[t]] # None
      BY <3>1 DEF Owned
    <3> QED
      BY <3>1, <3>2 DEF OnOwnConn
  <2>6. CASE Lock(t) \/ Connect(t) \/ Pragmas(t) \/ ConnectFails(t)
    <3>1. pc'[t] \notin AtConnection \cup {"hit"}
      BY <2>6 DEF Lock, Connect, Pragmas, ConnectFails, AtConnection
    <3> QED
      BY <3>1 DEF OnOwnConn
  <2>7. CASE Execute(t)
    <3>1. pc[t] \in AtConnection /\ pc'[t] # "hit" /\ handle' = handle /\ conn' = conn
      BY <2>7 DEF Execute, Opened, ExecuteFails, WriteFails, Put, Get, Exists, Delete, RowCount, ScanOpen,
         ScanNext, ScanEnd, ScanFails, Statement, AtConnection
    <3> QED
      BY <2>0, <3>1 DEF OnOwnConn
  <2> QED
    BY <2>1, <2>2, <2>3, <2>4, <2>5, <2>6, <2>7 DEF Acts, Running, Connection
<1> QED
  BY <1>1, <1>2

LEMMA ReadingInductive ==
    ASSUME Own, IInv, OwnInv, NEW t \in Threads, Acts(t)
    PROVE  Reading'
<1>1. \A u \in Threads \ {t} : handle'[u] = handle[u] /\ cursor'[u] = cursor[u] /\ pc'[u] = pc[u]
  BY Others DEF IInv
<1>2. \A u \in Threads : cursor[u] # None => pc[u] = "scanning" /\ pc[u] \in AtConnection
  BY DEF IInv, Placed, AtConnection
<1>3. \A u \in Threads \ {t} : cursor[u] # None /\ pc[t] \in AtConnection => handle[u] # handle[t]
  BY <1>2, HandlesApart
<1>4. \A u \in Threads : cursor[u] # None => handle[u] \in live /\ handle[u] \in Conns
  BY <1>2, HandlesApart
<1>5. CASE Put(t) \/ Delete(t)
  <2>1. PICK c \in Conns, r \in Rows : Commit(c, r)
    <3>1. CASE Put(t)
      <4>1. [rows EXCEPT ![call[t].key] = call[t].data] \in Rows
        BY <3>1, StatementForms DEF Put, IInv, TypeOK, Rows
      <4> QED
        BY <3>1, <4>1, StatementForms DEF Put
    <3>2. CASE Delete(t)
      <4>1. [rows EXCEPT ![call[t].key] = None] \in Rows
        BY <3>2, StatementForms DEF Delete, IInv, TypeOK, Rows
      <4> QED
        BY <3>2, <4>1, StatementForms DEF Delete
    <3> QED
      BY <1>5, <3>1, <3>2
  <2>2. r # None
    BY NoneAssumption
  <2>3. \A d \in Conns : snap'[d] # None <=> snap[d] # None
    BY <2>1, <2>2 DEF Commit, IInv, TypeOK
  <2>4. handle' = handle /\ cursor' = cursor
    BY <1>5 DEF Put, Delete
  <2> QED
    BY <1>4, <2>3, <2>4 DEF OwnInv, Reading
<1>6. CASE ScanOpen(t) \/ ScanNext(t)
  <2>1. /\ handle' = handle /\ pc[t] \in AtConnection
        /\ \E n : ReadOn(t, handle[t], n, View(handle[t]))
    BY <1>6 DEF ScanOpen, ScanNext, Statement, Goto, AtConnection
  <2>2. handle[t] \in Conns /\ View(handle[t]) # None
    BY <2>1, HandlesApart, ViewTyped, NoneAssumption DEF IInv
  <2>3. ~ OtherScans(t, handle[t])
    BY <1>3, <2>1 DEF OtherScans
  <2>4. /\ snap'[handle[t]] # None <=> cursor'[t] # None
        /\ \A d \in Conns : d # handle[t] => snap'[d] = snap[d]
    BY <2>1, <2>2, <2>3 DEF ReadOn, IInv, TypeOK
  <2> QED
    BY <1>1, <1>3, <1>4, <2>1, <2>2, <2>4 DEF OwnInv, Reading
<1>7. CASE CloseConn(t)
  <2> DEFINE c == conn[Uses[t]]
  <2>1. /\ c \in Conns /\ handle' = handle /\ cursor' = cursor /\ pc[t] = "closing"
        /\ snap' = [snap EXCEPT ![c] = None]
    BY <1>7, InstancesAssumption DEF CloseConn, Goto, scan, IInv, TypeOK
  <2>2. \A u \in Threads : cursor[u] # None => handle[u] # c
    <3> SUFFICES ASSUME NEW u \in Threads, cursor[u] # None, handle[u] = c PROVE FALSE
      OBVIOUS
    <3>1. handle[u] = conn[Uses[u]] /\ conn[Uses[u]] # None /\ u # t
      BY <1>2, <2>1 DEF OwnInv, OnOwnConn
    <3> QED
      BY <3>1, InstancesAssumption DEF Own, IInv, Owned
  <2> QED
    BY <1>4, <2>1, <2>2 DEF OwnInv, Reading, IInv, TypeOK
<1>8. CASE snap' = snap
  <2>1. CASE ScanFails(t)
    <3>1. handle[t] \notin live /\ pc[t] = "scanning"
      BY <2>1 DEF ScanFails, Goto
    <3> QED
      BY <3>1, HandlesApart DEF AtConnection
  <2>2. CASE cursor'[t] = None /\ cursor[t] = None
    BY <1>1, <1>8, <2>2 DEF OwnInv, Reading
  <2>3. CASE cursor'[t] = cursor[t] /\ handle'[t] = handle[t]
    BY <1>1, <1>8, <2>3 DEF OwnInv, Reading
  <2>4. \/ ScanOpen(t) \/ ScanNext(t) \/ ScanFails(t)
        \/ cursor' = cursor /\ (handle' = handle \/ pc[t] # "scanning")
    BY DEF Acts, Invoke, InvokeNothing, Return, Running, Close, CloseNothing, CloseConn, Forget,
       Connection, HotCheck, HotReturn, Lock, Recheck, Connect, Pragmas, CreateTable, ConnectFails,
       Execute, Opened, ExecuteFails, WriteFails, Put, Get, Exists, Delete, RowCount, ScanEnd, scan, Goto
  <2> QED
    BY <1>2, <1>6, <2>1, <2>2, <2>3, <2>4
<1> QED
  BY <1>5, <1>6, <1>7, <1>8, ViewsChange

LEMMA OwnInvariance ==
    ASSUME Own
    PROVE  Spec => []OwnInv
<1>1. Init => OwnInv
  BY DEF Init, OwnInv, OnOwnConn, AtConnection, Reading
<1>2. IInv /\ OwnInv /\ [Next]_vars => OwnInv'
  <2> SUFFICES ASSUME IInv, OwnInv, [Next]_vars PROVE OwnInv'
    OBVIOUS
  <2>1. CASE UNCHANGED vars
    <3>1. UNCHANGED <<conn, snap, pc, handle, cursor>>
      BY <2>1 DEF vars, db, inst, scan
    <3> QED
      BY <3>1 DEF OwnInv, OnOwnConn, Reading
  <2>2. CASE Next
    <3>1. PICK t \in Threads : Acts(t)
      BY <2>2 DEF Next, Acts
    <3> QED
      BY <3>1, OnOwnConnInductive, ReadingInductive DEF OwnInv
  <2> QED
    BY <2>1, <2>2
<1> QED
  BY <1>1, <1>2, Invariance, PTL DEF Spec

-----------------------------------------------------------------------------
(* What callers see of a step. *)

\* Nothing of the steps of other threads.
LEMMA SeenOthers ==
    ASSUME Own, IInv, OwnInv, NEW t \in Threads, Acts(t), NEW u \in Threads, u # t
    PROVE  SeenCall'[u] = SeenCall[u] /\ SeenRet'[u] = SeenRet[u]
<1>1. /\ pc'[u] = pc[u] /\ call'[u] = call[u] /\ ret'[u] = ret[u]
      /\ handle'[u] = handle[u] /\ cursor'[u] = cursor[u] /\ got'[u] = got[u]
  BY Others DEF IInv
<1>2. pc[t] \in AtConnection /\ pc[u] \in AtConnection => handle[u] # handle[t]
  BY HandlesApart
<1>3. ASSUME pc[u] = "rowcount" PROVE changes'[handle[u]] = changes[handle[u]]
  <2>1. pc[u] \in AtConnection
    BY <1>3 DEF AtConnection
  <2>2. handle[u] \in Conns
    BY <2>1, HandlesApart
  <2>3. CASE Connect(t)
    <3>1. PICK c \in Conns : Free(c) /\ changes' = [changes EXCEPT ![c] = 0]
      BY <2>3 DEF Connect
    <3> QED
      BY <2>2, <3>1 DEF Free, IInv, TypeOK
  <2>4. CASE Put(t) \/ Delete(t)
    <3>1. \A c \in Conns : c # handle[t] => changes'[c] = changes[c]
      BY <2>4 DEF Put, Delete, IInv, TypeOK
    <3>2. pc[t] \in AtConnection
      BY <2>4 DEF Put, Delete, Statement, Goto, AtConnection
    <3> QED
      BY <1>2, <2>1, <2>2, <3>1, <3>2
  <2>5. CASE changes' = changes
    BY <2>5
  <2> QED
    BY <2>3, <2>4, <2>5 DEF Acts, Invoke, InvokeNothing, Return, Running, Close, CloseNothing,
       CloseConn, Forget, Connection, HotCheck, HotReturn, Lock, Recheck, Pragmas, CreateTable,
       ConnectFails, Execute, Opened, ExecuteFails, WriteFails, Get, Exists, RowCount, ScanOpen, ScanNext,
       ScanEnd, ScanFails, db
<1>4. ASSUME cursor[u] # None PROVE View(handle[u])' = View(handle[u])
  <2>1. pc[u] \in AtConnection /\ snap[handle[u]] # None
    BY <1>4 DEF IInv, Placed, AtConnection, OwnInv, Reading
  <2>2. handle[u] \in Conns
    BY <2>1, HandlesApart
  <2>3. handle'[u] = handle[u] /\ View(handle[u]) = snap[handle[u]]
    BY <1>1, <2>1 DEF View
  <2>4. snap'[handle[u]] = snap[handle[u]]
    <3>1. CASE Put(t) \/ Delete(t) \/ ScanOpen(t) \/ ScanNext(t)
      <4>1. \A c \in Conns : c # handle[t] => snap'[c] = snap[c]
        BY <3>1 DEF Put, Delete, ScanOpen, ScanNext, Commit, ReadOn, IInv, TypeOK
      <4>2. pc[t] \in AtConnection
        BY <3>1 DEF Put, Delete, ScanOpen, ScanNext, Statement, Goto, AtConnection
      <4> QED
        BY <1>2, <2>1, <2>2, <4>1, <4>2
    <3>2. CASE CloseConn(t)
      <4>1. snap' = [snap EXCEPT ![conn[Uses[t]]] = None]
        BY <3>2 DEF CloseConn
      <4>2. handle[u] = conn[Uses[u]] /\ conn[Uses[u]] # None
        BY <2>1 DEF OwnInv, OnOwnConn
      <4>3. conn[Uses[t]] # handle[u]
        BY <4>2, InstancesAssumption DEF Own, IInv, Owned
      <4> QED
        BY <2>2, <4>1, <4>3 DEF IInv, TypeOK
    <3> QED
      BY <3>1, <3>2, ViewsChange
  <2> QED
    BY <2>1, <2>3, <2>4 DEF View
<1>5. OnStore(u)' <=> OnStore(u)
  BY <1>1 DEF OnStore
<1>6. YetToCome(u)' = YetToCome(u)
  BY <1>1, <1>4 DEF YetToCome, Stored
<1>7. pc[u] = "rowcount" => RowCountOf(handle[u])' = RowCountOf(handle[u])
  BY <1>1, <1>3 DEF RowCountOf
<1>8. Seen(u)' = Seen(u)
  BY <1>1, <1>5, <1>6, <1>7 DEF Seen
<1> QED
  BY <1>1, <1>5, <1>8 DEF SeenCall, SeenRet

LEMMA StoreStutters ==
    ASSUME Own, IInv, OwnInv, NEW t \in Threads, Acts(t), rows' = rows,
           SeenCall'[t] = SeenCall[t], SeenRet'[t] = SeenRet[t]
    PROVE  UNCHANGED Store!vars
<1>1. \A u \in Threads : SeenCall'[u] = SeenCall[u] /\ SeenRet'[u] = SeenRet[u]
  BY SeenOthers
<1>2. SeenCall' = SeenCall /\ SeenRet' = SeenRet
  BY <1>1 DEF SeenCall, SeenRet
<1> QED
  BY <1>2 DEF Store!vars

LEMMA StoreTakes ==
    ASSUME Own, IInv, OwnInv, NEW t \in Threads, Acts(t), OnStore(t), call' = call,
           SeenRet[t] = None, NEW o, SeenRet'[t] = o
    PROVE  Store!Takes(t, call[t].op, o) /\ SeenCall[t] = call[t] /\ call[t] # None
<1>1. \A u \in Threads : u # t => SeenRet'[u] = SeenRet[u]
  BY SeenOthers
<1>2. SeenRet' = [SeenRet EXCEPT ![t] = o]
  BY <1>1 DEF SeenRet
<1>3. SeenCall' = SeenCall
  BY DEF SeenCall, OnStore
<1>4. SeenCall[t] = call[t] /\ call[t] # None
  BY DEF SeenCall, OnStore
<1> QED
  BY <1>2, <1>3, <1>4 DEF Store!Takes

\* What is seen of a thread before its statement, and once it has ended.
LEMMA SeenBefore ==
    ASSUME IInv, NEW t \in Threads, pc[t] \notin {"rowcount", "scanning", "done"}
    PROVE  SeenRet[t] = None
BY OutcomeForms DEF SeenRet, Seen, IInv, Placed

LEMMA SeenAtEnd ==
    ASSUME NEW t \in Threads, OnStore(t), call' = call, pc'[t] = "done"
    PROVE  SeenRet'[t] = IF ret'[t] = RawError THEN Store!BlobError ELSE ret'[t]
BY DEF SeenRet, Seen, OnStore, Store!BlobError

\* Calls the contract does not know.
LEMMA UnseenStutters ==
    ASSUME Own, IInv, OwnInv, NEW t \in Threads, Acts(t), rows' = rows,
           ~ OnStore(t), ~ OnStore(t)'
    PROVE  UNCHANGED Store!vars
<1>1. SeenCall'[t] = SeenCall[t] /\ SeenRet'[t] = SeenRet[t]
  BY DEF SeenCall, SeenRet, Seen
<1> QED
  BY <1>1, StoreStutters

\* The steps of a call before its statement.
LEMMA ConnectionStutters ==
    ASSUME Own, IInv, OwnInv, NEW t \in Threads, Acts(t), rows' = rows, call' = call, ret' = ret,
           {pc[t], pc'[t]} \cap {"rowcount", "scanning", "done"} = {}
    PROVE  UNCHANGED Store!vars
<1>1. SeenCall'[t] = SeenCall[t]
  BY DEF SeenCall, OnStore
<1>2. SeenRet'[t] = None
  BY OutcomeForms DEF SeenRet, Seen, IInv, Placed
<1> QED
  BY <1>1, <1>2, SeenBefore, StoreStutters

\* A call fails before its statement has done anything.
LEMMA FailsAreFails ==
    ASSUME Own, IInv, OwnInv, NEW t \in Threads, Acts(t), rows' = rows, call' = call,
           pc[t] \notin {"rowcount", "scanning", "done"}, pc'[t] = "done", ret'[t] = RawError
    PROVE  [Store!Next]_(Store!vars)
<1>1. CASE OnStore(t)
  <2>1. SeenRet[t] = None /\ SeenRet'[t] = Store!BlobError
    BY <1>1, SeenBefore, SeenAtEnd
  <2>2. Store!Takes(t, call[t].op, Store!BlobError) /\ SeenCall[t] = call[t] /\ call[t] # None
    BY <1>1, <2>1, StoreTakes
  <2>3. Store!Fails(t)
    BY <2>2 DEF Store!Fails
  <2> QED
    BY <2>3 DEF Store!Next
<1>2. CASE ~ OnStore(t)
  <2>1. ~ OnStore(t)'
    BY <1>2 DEF OnStore
  <2> QED
    BY <1>2, <2>1, UnseenStutters
<1> QED
  BY <1>1, <1>2

-----------------------------------------------------------------------------
(* The statements are the operations of the contract. *)

\* A statement ends a call with an outcome of the contract.
LEMMA EndsAsTaken ==
    ASSUME Own, IInv, OwnInv, NEW t \in Threads, Acts(t), OnStore(t), call' = call,
           pc[t] \notin {"rowcount", "scanning", "done"}, pc'[t] = "done",
           NEW o, ret'[t] = o, o # RawError
    PROVE  Store!Takes(t, call[t].op, o) /\ SeenCall[t] = call[t]
<1>1. SeenRet[t] = None /\ SeenRet'[t] = o
  BY SeenBefore, SeenAtEnd
<1> QED
  BY <1>1, StoreTakes

LEMMA StatementSeen ==
    ASSUME IInv, NEW t \in Threads, NEW op, NEW to, Statement(t, op, to),
           op \in {"put", "get", "delete", "exists", "scan"}
    PROVE  OnStore(t) /\ call[t].op = op /\ pc[t] = "execute" /\ pc'[t] = to
<1>1. pc[t] = "execute" /\ call[t].op = op /\ pc'[t] = to
  BY DEF Statement, Goto, IInv, TypeOK
<1> QED
  BY <1>1 DEF OnStore, Lifecycle, IInv, Placed

LEMMA PutSeen ==
    ASSUME Own, IInv, OwnInv, NEW t \in Threads, Put(t)
    PROVE  Store!Put(t)
<1>1. OnStore(t) /\ call[t].op = "put" /\ pc[t] = "execute" /\ pc'[t] = "done"
  BY StatementSeen DEF Put
<1>2. /\ call' = call /\ ret'[t] = Store!Done
      /\ rows' = [rows EXCEPT ![call[t].key] = call[t].data]
  BY DEF Put, Outcome, Commit, IInv, TypeOK
<1>3. Acts(t) /\ Store!Done # RawError
  BY DEF Acts, Running, Execute, Store!Done, RawError
<1>4. Store!Takes(t, "put", Store!Done) /\ SeenCall[t] = call[t]
  BY <1>1, <1>2, <1>3, EndsAsTaken
<1> QED
  BY <1>2, <1>4 DEF Store!Put

LEMMA GetSeen ==
    ASSUME Own, IInv, OwnInv, NEW t \in Threads, Get(t)
    PROVE  Store!Get(t)
<1> DEFINE v == rows[call[t].key]
           o == IF v = None THEN Store!KeyError ELSE [value |-> v]
<1>1. OnStore(t) /\ call[t].op = "get" /\ pc[t] = "execute" /\ pc'[t] = "done"
  BY StatementSeen DEF Get
<1>2. View(handle[t]) = rows
  BY <1>1, OwnView
<1>3. call' = call /\ rows' = rows /\ Outcome(t, o)
  BY <1>2 DEF Get, db
<1>4. Acts(t) /\ o # RawError
  BY DEF Acts, Running, Execute, Store!KeyError, RawError
<1> HIDE DEF o
<1>5. ret'[t] = o
  BY <1>3 DEF Outcome, IInv, TypeOK
<1>6. Store!Takes(t, "get", o) /\ SeenCall[t] = call[t]
  BY <1>1, <1>3, <1>4, <1>5, EndsAsTaken
<1> QED
  BY <1>3, <1>6 DEF Store!Get, o

LEMMA ExistsSeen ==
    ASSUME Own, IInv, OwnInv, NEW t \in Threads, Exists(t)
    PROVE  Store!Exists(t)
<1> DEFINE o == [found |-> rows[call[t].key] # None]
<1>1. OnStore(t) /\ call[t].op = "exists" /\ pc[t] = "execute" /\ pc'[t] = "done"
  BY StatementSeen DEF Exists
<1>2. View(handle[t]) = rows
  BY <1>1, OwnView
<1>3. call' = call /\ rows' = rows /\ Outcome(t, o)
  BY <1>2 DEF Exists, db
<1>4. Acts(t) /\ o # RawError
  BY DEF Acts, Running, Execute, RawError
<1> HIDE DEF o
<1>5. ret'[t] = o
  BY <1>3 DEF Outcome, IInv, TypeOK
<1>6. Store!Takes(t, "exists", o) /\ SeenCall[t] = call[t]
  BY <1>1, <1>3, <1>4, <1>5, EndsAsTaken
<1> QED
  BY <1>3, <1>6 DEF Store!Exists, o

LEMMA DeleteSeen ==
    ASSUME Own, IInv, OwnInv, NEW t \in Threads, Delete(t)
    PROVE  Store!Delete(t)
<1> DEFINE there == rows[call[t].key] # None
           o == IF ~ there THEN Store!KeyError ELSE Store!Done
<1>1. OnStore(t) /\ call[t].op = "delete" /\ pc[t] = "execute" /\ pc'[t] = "rowcount"
  BY StatementSeen DEF Delete
<1>2. handle[t] \in Conns
  BY StatementForms DEF Delete
<1>3. /\ call' = call /\ ret' = ret /\ handle' = handle
      /\ rows' = [rows EXCEPT ![call[t].key] = None]
      /\ changes' = [changes EXCEPT ![handle[t]] = IF there THEN 1 ELSE 0]
  BY DEF Delete, Commit
<1>4. Acts(t)
  BY DEF Acts, Running, Execute
<1>5. changes'[handle'[t]] = IF there THEN 1 ELSE 0
  BY <1>2, <1>3 DEF IInv, TypeOK
<1>6. RowCountOf(handle[t])' = o
  BY <1>5 DEF RowCountOf, Store!KeyError, Store!Done
<1>7. ret'[t] # RawError
  BY <1>1, <1>3, OutcomeForms DEF IInv, Placed
<1>8. OnStore(t)'
  BY <1>1, <1>3 DEF OnStore
<1>9. SeenRet'[t] = o /\ SeenRet[t] = None
  BY <1>1, <1>6, <1>7, <1>8, SeenBefore DEF SeenRet, Seen
<1> HIDE DEF o
<1>10. Store!Takes(t, "delete", o) /\ SeenCall[t] = call[t]
  BY <1>1, <1>3, <1>4, <1>9, StoreTakes
<1> QED
  BY <1>3, <1>10 DEF Store!Delete, o

LEMMA ScanOpenSeen ==
    ASSUME Own, IInv, OwnInv, NEW t \in Threads, ScanOpen(t)
    PROVE  Store!Scan(t)
<1> DEFINE c == handle[t]
           S == Under[call[t].prefix]
           next == NextKey(rows, S, 0)
           o == [keys |-> Stored(rows) \cap S]
<1>1. OnStore(t) /\ call[t].op = "scan" /\ pc[t] = "execute" /\ pc'[t] = "scanning"
  BY StatementSeen DEF ScanOpen
<1>2. c \in Conns /\ S \in SUBSET Keys /\ View(c) = rows
  BY <1>1, StatementForms, OwnView DEF ScanOpen
<1>3. /\ call' = call /\ ret' = ret /\ handle' = handle /\ got' = got /\ rows' = rows
      /\ cursor' = [cursor EXCEPT ![t] = next]
      /\ next # None => snap' = [snap EXCEPT ![c] = rows]
  BY <1>2 DEF ScanOpen, ReadOn
<1>4. Acts(t)
  BY DEF Acts, Running, Execute
<1>5. got[t] = {}
  BY <1>1 DEF IInv, Placed
<1> HIDE DEF next
<1>6. cursor'[t] = next
  BY <1>3 DEF IInv, TypeOK
<1>7. next # None => View(handle[t])' = rows
  BY <1>2, <1>3 DEF View, IInv, TypeOK
<1>8. {k \in Stored(rows) \cap S : k > 0} = Stored(rows) \cap S
  <2>1. \A k \in Keys : k > 0
    BY KeysAssumption
  <2> QED
    BY <2>1 DEF Stored
<1>9. \/ Stored(rows) \cap S = {} /\ next = None
      \/ next # None /\ Stored(rows) \cap S = {next} \cup {k \in Stored(rows) \cap S : k > next}
  BY <1>2, <1>8, NextKeyForms DEF next
<1>10. YetToCome(t)' = Stored(rows) \cap S
  <2>1. CASE next = None
    BY <1>6, <1>9, <2>1 DEF YetToCome
  <2>2. CASE next # None
    <3>1. View(handle[t])' = rows
      BY <1>7, <2>2
    <3>2. YetToCome(t)' = {k \in Stored(rows) \cap S : k > next} \cup {next}
      BY <1>3, <1>6, <2>2, <3>1 DEF YetToCome, Stored
    <3> QED
      BY <1>9, <2>2, <3>2
  <2> QED
    BY <2>1, <2>2
<1>11. ret'[t] # RawError
  BY <1>1, <1>3, OutcomeForms DEF IInv, Placed
<1>12. OnStore(t)'
  BY <1>1, <1>3 DEF OnStore
<1>13. SeenRet'[t] = o /\ SeenRet[t] = None
  BY <1>1, <1>3, <1>5, <1>10, <1>11, <1>12, SeenBefore DEF SeenRet, Seen
<1> HIDE DEF o
<1>14. Store!Takes(t, "scan", o) /\ SeenCall[t] = call[t]
  BY <1>1, <1>3, <1>4, <1>13, StoreTakes
<1> QED
  BY <1>3, <1>14 DEF Store!Scan, o, Store!Stored, Stored

-----------------------------------------------------------------------------
(* The refinement. *)

\* Once started, a scan on a connection of its own reads on unseen.
LEMMA ScanNextSeen ==
    ASSUME Own, IInv, OwnInv, NEW t \in Threads, ScanNext(t)
    PROVE  UNCHANGED Store!vars
<1> DEFINE c == handle[t]
           S == Under[call[t].prefix]
           r == View(c)
           n == cursor[t]
           next == NextKey(r, S, n)
<1>1. pc[t] = "scanning" /\ pc'[t] = "scanning" /\ n # None
  BY DEF ScanNext, Goto, IInv, TypeOK
<1>2. call[t].op = "scan" /\ call[t] \in Requests /\ pc[t] \in AtConnection
  BY <1>1 DEF IInv, Placed, TypeOK, AtConnection
<1>3. S \in SUBSET Keys /\ c \in Conns /\ n \in Nat
  BY <1>1, <1>2, RequestForms, HandlesApart, UnderAssumption, KeysAssumption DEF IInv, TypeOK
<1>4. /\ call' = call /\ ret' = ret /\ handle' = handle /\ rows' = rows
      /\ got' = [got EXCEPT ![t] = @ \cup {n}]
      /\ cursor' = [cursor EXCEPT ![t] = next]
      /\ next # None => snap' = [snap EXCEPT ![c] = r]
  BY DEF ScanNext, ReadOn
<1>5. r # None
  BY <1>3, ViewTyped, NoneAssumption DEF IInv
<1>6. \/ {k \in Stored(r) \cap S : k > n} = {} /\ next = None
      \/ next # None /\ {k \in Stored(r) \cap S : k > n} = {next} \cup {k \in Stored(r) \cap S : k > next}
  <2> HIDE DEF r, S, n
  <2> QED
    BY <1>3, NextKeyForms
<1> HIDE DEF next, r
<1>7. cursor'[t] = next /\ got'[t] = got[t] \cup {n}
  BY <1>4 DEF IInv, TypeOK
<1>8. YetToCome(t) = {k \in Stored(r) \cap S : k > n} \cup {n}
  BY <1>1 DEF YetToCome, r
<1>9. YetToCome(t)' = {k \in Stored(r) \cap S : k > n}
  <2>1. CASE next = None
    BY <1>6, <1>7, <2>1 DEF YetToCome
  <2>2. CASE next # None
    <3>1. View(handle[t])' = r
      BY <1>3, <1>4, <1>5, <2>2 DEF View, IInv, TypeOK
    <3>2. YetToCome(t)' = {k \in Stored(r) \cap S : k > next} \cup {next}
      BY <1>4, <1>7, <2>2, <3>1 DEF YetToCome, Stored
    <3> QED
      BY <1>6, <2>2, <3>2
  <2> QED
    BY <2>1, <2>2
<1>10. got'[t] \cup YetToCome(t)' = got[t] \cup YetToCome(t)
  BY <1>7, <1>8, <1>9
<1>11. SeenCall'[t] = SeenCall[t] /\ SeenRet'[t] = SeenRet[t]
  BY <1>1, <1>4, <1>10 DEF SeenCall, SeenRet, Seen, OnStore
<1>12. Acts(t)
  BY DEF Acts, Running, Execute
<1> QED
  BY <1>4, <1>11, <1>12, StoreStutters

\* What a scan or a delete returns has been seen before.
LEMMA EndsUnseen ==
    ASSUME Own, IInv, OwnInv, NEW t \in Threads, RowCount(t) \/ ScanEnd(t)
    PROVE  UNCHANGED Store!vars
<1>1. Acts(t) /\ rows' = rows /\ call' = call /\ pc'[t] = "done" /\ pc[t] \in {"rowcount", "scanning"}
  BY DEF Acts, Running, Execute, RowCount, ScanEnd, Goto, db, IInv, TypeOK
<1>2. OnStore(t) /\ ret[t] # RawError
  BY <1>1, OutcomeForms DEF OnStore, Lifecycle, IInv, Placed
<1>3. SeenRet'[t] = IF ret'[t] = RawError THEN Store!BlobError ELSE ret'[t]
  BY <1>1, <1>2, SeenAtEnd
<1>4. CASE RowCount(t)
  <2>1. ret'[t] = RowCountOf(handle[t]) /\ pc[t] = "rowcount"
    BY <1>4 DEF RowCount, Outcome, Goto, IInv, TypeOK
  <2>2. RowCountOf(handle[t]) # RawError
    BY DEF RowCountOf, RawError
  <2> QED
    BY <1>1, <1>2, <1>3, <2>1, <2>2, StoreStutters DEF SeenRet, Seen, SeenCall, OnStore
<1>5. CASE ScanEnd(t)
  <2>1. ret'[t] = [keys |-> got[t]] /\ pc[t] = "scanning" /\ cursor[t] = None
    BY <1>5 DEF ScanEnd, Outcome, Goto, IInv, TypeOK
  <2>2. [keys |-> got[t]] # RawError
    BY DEF RawError
  <2>3. YetToCome(t) = {} /\ got[t] \cup {} = got[t]
    BY <2>1 DEF YetToCome
  <2> QED
    BY <1>1, <1>2, <1>3, <2>1, <2>2, <2>3, StoreStutters DEF SeenRet, Seen, SeenCall, OnStore
<1> QED
  BY <1>4, <1>5

LEMMA InvokeSeen ==
    ASSUME Own, IInv, OwnInv, NEW t \in Threads, Invoke(t)
    PROVE  [Store!Next]_(Store!vars)
<1>1. PICK q \in Requests : call' = [call EXCEPT ![t] = q]
  BY DEF Invoke
<1>2. /\ Acts(t) /\ rows' = rows /\ ret' = ret /\ pc[t] = "idle" /\ call'[t] = q /\ q # None
      /\ pc'[t] \notin {"rowcount", "scanning", "done"} /\ call[t] = None /\ ret[t] = None
  BY <1>1, RequestForms DEF Acts, Invoke, Goto, db, IInv, TypeOK, Placed
<1>3. ~ OnStore(t) /\ SeenCall[t] = None /\ SeenRet[t] = None
  BY <1>2 DEF OnStore, SeenCall, SeenRet, Seen
<1>4. SeenRet'[t] = None
  BY <1>2, OutcomeForms DEF SeenRet, Seen
<1>5. \A u \in Threads : u # t => SeenCall'[u] = SeenCall[u] /\ SeenRet'[u] = SeenRet[u]
  BY <1>2, SeenOthers
<1>6. CASE q.op \in Lifecycle
  <2>1. ~ OnStore(t)'
    BY <1>2, <1>6 DEF OnStore
  <2> QED
    BY <1>2, <1>3, <2>1, UnseenStutters
<1>7. CASE q.op \notin Lifecycle
  <2>1. q \in Store!Requests
    BY <1>7, RequestForms
  <2>2. SeenCall'[t] = q
    BY <1>2, <1>7 DEF SeenCall, OnStore
  <2>3. SeenCall' = [SeenCall EXCEPT ![t] = q]
    BY <1>5, <2>2 DEF SeenCall
  <2>4. SeenRet' = SeenRet
    BY <1>3, <1>4, <1>5 DEF SeenRet
  <2>5. Store!Invoke(t)
    BY <1>2, <1>3, <2>1, <2>3, <2>4 DEF Store!Invoke
  <2> QED
    BY <2>5 DEF Store!Next
<1> QED
  BY <1>6, <1>7

LEMMA ReturnSeen ==
    ASSUME Own, IInv, OwnInv, NEW t \in Threads, Return(t)
    PROVE  [Store!Next]_(Store!vars)
<1>1. Acts(t) /\ rows' = rows /\ call'[t] = None /\ pc[t] = "done" /\ ret[t] # None
  BY DEF Acts, Return, Goto, db, IInv, TypeOK, Placed
<1>2. ~ OnStore(t)'
  BY <1>1 DEF OnStore
<1>3. CASE ~ OnStore(t)
  BY <1>1, <1>2, <1>3, UnseenStutters
<1>4. CASE OnStore(t)
  <2>1. SeenCall'[t] = None /\ SeenRet'[t] = None
    BY <1>2 DEF SeenCall, SeenRet, Seen
  <2>2. \A u \in Threads : u # t => SeenCall'[u] = SeenCall[u] /\ SeenRet'[u] = SeenRet[u]
    BY <1>1, SeenOthers
  <2>3. SeenCall' = [SeenCall EXCEPT ![t] = None]
    BY <2>1, <2>2 DEF SeenCall
  <2>4. SeenRet' = [SeenRet EXCEPT ![t] = None]
    BY <2>1, <2>2 DEF SeenRet
  <2>5. SeenRet[t] # None
    <3>1. SeenRet[t] = Store!BlobError \/ SeenRet[t] = ret[t]
      BY <1>1, <1>4 DEF SeenRet, Seen, Store!BlobError
    <3> QED
      BY <1>1, <3>1, OutcomeForms
  <2>6. Store!Return(t)
    BY <1>1, <2>3, <2>4, <2>5 DEF Store!Return
  <2> QED
    BY <2>6 DEF Store!Next
<1> QED
  BY <1>3, <1>4

\* With an instance for each thread callers cannot tell the backend from the
\* contract: each of its steps is a step of the contract or goes unseen.
THEOREM Refinement ==
    ASSUME Own
    PROVE  Spec => ImplementsStore
<1>1. Init => Store!Init
  <2> SUFFICES ASSUME Init PROVE Store!Init
    OBVIOUS
  <2>1. \A t \in Threads : ~ OnStore(t)
    BY DEF Init, OnStore
  <2> QED
    BY <2>1 DEF Init, Store!Init, SeenCall, SeenRet, Seen
<1>2. IInv /\ OwnInv /\ [Next]_vars => [Store!Next]_(Store!vars)
  <2> SUFFICES ASSUME IInv, OwnInv, [Next]_vars PROVE [Store!Next]_(Store!vars)
    OBVIOUS
  <2>1. CASE UNCHANGED vars
    BY <2>1 DEF vars, db, scan, Store!vars, SeenCall, SeenRet, Seen, OnStore, RowCountOf, YetToCome,
       View, Stored
  <2>2. CASE Next
    <3>1. PICK t \in Threads : Acts(t)
      BY <2>2 DEF Next, Acts
    <3> USE DEF Goto, db, IInv, TypeOK
    <3>2. CASE Invoke(t) \/ Return(t)
      BY <3>2, InvokeSeen, ReturnSeen
    <3>3. CASE InvokeNothing(t)
      <4>1. pc[t] = "idle" /\ rows' = rows /\ call'[t].op \in Lifecycle
        BY <3>3 DEF InvokeNothing
      <4>2. ~ OnStore(t) /\ ~ OnStore(t)'
        BY <4>1 DEF OnStore, Placed
      <4> QED
        BY <3>1, <4>1, <4>2, UnseenStutters
    <3>4. CASE Close(t)
      <4>1. pc[t] \in {"closing", "forget"} /\ rows' = rows /\ call' = call
        BY <3>4 DEF Close, CloseNothing, CloseConn, Forget
      <4>2. ~ OnStore(t) /\ ~ OnStore(t)'
        BY <4>1 DEF OnStore, Placed, Lifecycle
      <4> QED
        BY <3>1, <4>1, <4>2, UnseenStutters
    <3>5. CASE HotCheck(t) \/ HotReturn(t) \/ Lock(t) \/ Recheck(t) \/ Connect(t) \/ Pragmas(t)
                \/ CreateTable(t)
      <4>1. /\ rows' = rows /\ call' = call /\ ret' = ret
            /\ {pc[t], pc'[t]} \cap {"rowcount", "scanning", "done"} = {}
        BY <3>5 DEF HotCheck, HotReturn, Lock, Recheck, Connect, Pragmas, CreateTable
      <4> QED
        BY <3>1, <4>1, ConnectionStutters
    <3>6. CASE ConnectFails(t) \/ ExecuteFails(t) \/ WriteFails(t)
      <4>1. /\ rows' = rows /\ call' = call /\ pc[t] \notin {"rowcount", "scanning", "done"}
            /\ pc'[t] = "done" /\ ret'[t] = RawError
        BY <3>6 DEF ConnectFails, ExecuteFails, WriteFails, Outcome
      <4> QED
        BY <3>1, <4>1, FailsAreFails
    <3>7. CASE Opened(t)
      <4>1. rows' = rows /\ call' = call /\ call[t].op = "open"
        BY <3>7 DEF Opened
      <4>2. ~ OnStore(t) /\ ~ OnStore(t)'
        BY <4>1 DEF OnStore, Lifecycle
      <4> QED
        BY <3>1, <4>1, <4>2, UnseenStutters
    <3>8. CASE Put(t) \/ Get(t) \/ Exists(t) \/ Delete(t) \/ ScanOpen(t)
      BY <3>8, PutSeen, GetSeen, ExistsSeen, DeleteSeen, ScanOpenSeen DEF Store!Next
    <3>9. CASE ScanNext(t) \/ RowCount(t) \/ ScanEnd(t)
      BY <3>9, ScanNextSeen, EndsUnseen
    <3>10. ~ ScanFails(t)
      <4>1. pc[t] = "scanning" => handle[t] \in live
        BY HandlesApart DEF AtConnection
      <4> QED
        BY <4>1 DEF ScanFails
    <3> QED
      BY <3>1, <3>2, <3>3, <3>4, <3>5, <3>6, <3>7, <3>8, <3>9, <3>10 DEF Acts, Running, Connection, Execute
  <2> QED
    BY <2>1, <2>2
<1> QED
  BY Invariance, OwnInvariance, <1>1, <1>2, PTL DEF Spec, ImplementsStore, Store!Spec

-----------------------------------------------------------------------------
(* The threads of one instance write while others scan. *)

\* What scans read is what was committed last: all write on one connection.
Current == \A c \in Conns : snap[c] # None => snap[c] = rows

\* The keys a scan has yielded and, if nothing is written, will yield.
StillAhead(t) ==
    IF cursor[t] = None THEN {}
    ELSE {cursor[t]} \cup {k \in Stored(rows) \cap Under[call[t].prefix] : k > cursor[t]}

OnCourse(t) ==
    pc[t] = "scanning" /\ (cursor[t] = None \/ handle[t] \in live) =>
        /\ span[t].always \subseteq got[t] \cup StillAhead(t)
        /\ got[t] \cup StillAhead(t) \subseteq span[t].ever

OneInv == Current /\ (\A t \in Threads : OnCourse(t)) /\ ScanFaithful

LEMMA OneIsLive ==
    ASSUME One, IInv, NEW c \in live, NEW d \in live
    PROVE  c = d
BY DEF One, IInv, Owned

LEMMA CurrentInductive ==
    ASSUME One, IInv, Current, NEW t \in Threads, Acts(t)
    PROVE  Current'
<1> USE DEF IInv, TypeOK
<1>1. CASE Put(t) \/ Delete(t)
  <2>1. handle[t] \in live
    BY <1>1, StatementForms DEF Put, Delete
  <2>2. PICK r : Commit(handle[t], r)
    BY <1>1 DEF Put, Delete
  <2>3. \A c \in Conns : c # handle[t] => snap'[c] = None
    BY <2>1, <2>2, OneIsLive DEF Commit, ClosedUnread
  <2>4. snap'[handle[t]] # None => snap'[handle[t]] = rows'
    BY <2>1, <2>2 DEF Commit
  <2> QED
    BY <2>3, <2>4 DEF Current
<1>2. CASE ScanOpen(t) \/ ScanNext(t)
  <2>1. rows' = rows /\ handle[t] \in live
    BY <1>2, StatementForms DEF ScanOpen, ScanNext
  <2>2. View(handle[t]) = rows
    BY <2>1 DEF View, Current
  <2>3. \E n : ReadOn(t, handle[t], n, rows)
    BY <1>2, <2>2 DEF ScanOpen, ScanNext
  <2>4. \A c \in Conns : snap'[c] \in {snap[c], rows, None}
    BY <2>3 DEF ReadOn
  <2> QED
    BY <2>1, <2>4 DEF Current
<1>3. CASE CloseConn(t)
  <2>1. rows' = rows /\ snap' = [snap EXCEPT ![conn[Uses[t]]] = None]
    BY <1>3 DEF CloseConn
  <2> QED
    BY <2>1 DEF Current
<1>4. CASE UNCHANGED <<rows, snap, behind>>
  BY <1>4 DEF Current
<1> QED
  BY <1>1, <1>2, <1>3, <1>4, ViewsChange

\* A scan stays on course while others write behind and ahead of its cursor.
LEMMA CommitOnCourse ==
    ASSUME IInv, NEW t \in Threads, NEW u \in Threads, OnCourse(u), NEW c, NEW r, Commit(c, r),
           UNCHANGED <<call, handle, cursor, got, live>>, pc'[u] = pc[u]
    PROVE  OnCourse(u)'
<1> SUFFICES ASSUME pc[u] = "scanning", cursor[u] # None, handle[u] \in live
             PROVE  OnCourse(u)'
  <2>1. CASE cursor[u] = None
    BY <2>1 DEF OnCourse, StillAhead, Commit
  <2> QED
    BY <2>1 DEF OnCourse
<1> DEFINE S == Under[call[u].prefix]
           n == cursor[u]
<1>1. /\ span[u].always \subseteq got[u] \cup {n} \cup {k \in Stored(rows) \cap S : k > n}
      /\ got[u] \cup {n} \cup {k \in Stored(rows) \cap S : k > n} \subseteq span[u].ever
  BY DEF OnCourse, StillAhead
<1>2. /\ span'[u].always = span[u].always \cap Stored(r)
      /\ span'[u].ever = span[u].ever \cup Stored(r)
  BY DEF Commit
<1>3. StillAhead(u)' = {n} \cup {k \in Stored(r) \cap S : k > n}
  BY DEF StillAhead, Stored, Commit
<1> HIDE DEF S, n
<1>4. /\ span'[u].always \subseteq got'[u] \cup StillAhead(u)'
      /\ got'[u] \cup StillAhead(u)' \subseteq span'[u].ever
  BY <1>1, <1>2, <1>3
<1> QED
  BY <1>4 DEF OnCourse

\* A scan starts on course, for it reads what was committed last.
LEMMA ScanOpenOnCourse ==
    ASSUME IInv, Current, NEW t \in Threads, ScanOpen(t)
    PROVE  OnCourse(t)'
<1> DEFINE c == handle[t]
           S == Under[call[t].prefix]
           next == NextKey(rows, S, 0)
<1>1. /\ pc[t] = "execute" /\ c \in Conns /\ S \in SUBSET Keys
  BY StatementForms DEF ScanOpen
<1>2. View(c) = rows /\ got[t] = {}
  BY <1>1 DEF View, Current, IInv, Placed
<1>3. /\ call' = call /\ got' = got /\ rows' = rows
      /\ cursor' = [cursor EXCEPT ![t] = next]
      /\ span' = [span EXCEPT ![t] = [always |-> Stored(rows) \cap S, ever |-> Stored(rows) \cap S]]
  BY <1>2 DEF ScanOpen, ReadOn
<1> HIDE DEF next
<1>4. /\ cursor'[t] = next /\ span'[t].always = Stored(rows) \cap S
      /\ span'[t].ever = Stored(rows) \cap S
  BY <1>3 DEF IInv, TypeOK
<1>5. {k \in Stored(rows) \cap S : k > 0} = Stored(rows) \cap S
  <2>1. \A k \in Keys : k > 0
    BY KeysAssumption
  <2> QED
    BY <2>1 DEF Stored
<1>6. \/ Stored(rows) \cap S = {} /\ next = None
      \/ next # None /\ Stored(rows) \cap S = {next} \cup {k \in Stored(rows) \cap S : k > next}
  BY <1>1, <1>5, NextKeyForms DEF next
<1>7. StillAhead(t)' = Stored(rows) \cap S
  BY <1>3, <1>4, <1>6 DEF StillAhead, Stored
<1> QED
  BY <1>2, <1>3, <1>4, <1>7 DEF OnCourse

LEMMA ScanNextOnCourse ==
    ASSUME IInv, Current, NEW t \in Threads, OnCourse(t), ScanNext(t)
    PROVE  OnCourse(t)'
<1> DEFINE c == handle[t]
           S == Under[call[t].prefix]
           n == cursor[t]
           next == NextKey(rows, S, n)
<1>1. pc[t] = "scanning" /\ n # None /\ c \in live
  BY DEF ScanNext, Goto
<1>2. call[t].op = "scan" /\ call[t] \in Requests /\ c \in Conns
  BY <1>1 DEF IInv, Placed, TypeOK
<1>3. S \in SUBSET Keys /\ n \in Nat /\ View(c) = rows
  BY <1>1, <1>2, RequestForms, UnderAssumption, KeysAssumption DEF View, Current, IInv, TypeOK
<1>4. /\ call' = call /\ rows' = rows /\ span' = span
      /\ got' = [got EXCEPT ![t] = @ \cup {n}]
      /\ cursor' = [cursor EXCEPT ![t] = next]
  BY <1>3 DEF ScanNext, ReadOn
<1>5. \/ {k \in Stored(rows) \cap S : k > n} = {} /\ next = None
      \/ next # None
         /\ {k \in Stored(rows) \cap S : k > n} = {next} \cup {k \in Stored(rows) \cap S : k > next}
  <2> HIDE DEF S, n
  <2> QED
    BY <1>3, NextKeyForms
<1> HIDE DEF next
<1>6. cursor'[t] = next /\ got'[t] = got[t] \cup {n}
  BY <1>4 DEF IInv, TypeOK
<1>7. StillAhead(t) = {n} \cup {k \in Stored(rows) \cap S : k > n}
  BY <1>1 DEF StillAhead
<1>8. StillAhead(t)' = {k \in Stored(rows) \cap S : k > n}
  BY <1>4, <1>5, <1>6 DEF StillAhead, Stored
<1>9. got'[t] \cup StillAhead(t)' = got[t] \cup StillAhead(t)
  BY <1>6, <1>7, <1>8
<1> QED
  BY <1>1, <1>4, <1>9 DEF OnCourse

LEMMA OnCourseInductive ==
    ASSUME One, IInv, OneInv, NEW t \in Threads, Acts(t), NEW u \in Threads
    PROVE  OnCourse(u)'
<1> USE DEF IInv, TypeOK
<1>0. OnCourse(u) /\ Current
  BY DEF OneInv
<1>1. CASE Put(t) \/ Delete(t)
  <2>1. /\ UNCHANGED <<call, handle, cursor, got, live>>
        /\ \E r : Commit(handle[t], r)
    BY <1>1 DEF Put, Delete
  <2>2. pc'[u] = pc[u] \/ pc'[u] # "scanning"
    BY <1>1 DEF Put, Delete, Statement, Goto
  <2> QED
    BY <1>0, <2>1, <2>2, CommitOnCourse DEF OnCourse
<1>2. CASE u # t /\ ~ Put(t) /\ ~ Delete(t)
  <2>1. /\ pc'[u] = pc[u] /\ call'[u] = call[u] /\ handle'[u] = handle[u]
        /\ cursor'[u] = cursor[u] /\ got'[u] = got[u]
    BY <1>2, Others
  <2>2. rows' = rows
    BY <1>2, ViewsChange DEF ScanOpen, ScanNext, CloseConn
  <2>3. span'[u] = span[u]
    BY <1>2 DEF Acts, Invoke, InvokeNothing, Return, Running, Close, CloseNothing,
       CloseConn, Forget, Connection, HotCheck, HotReturn, Lock, Recheck, Connect, Pragmas,
       CreateTable, ConnectFails, Execute, Opened, ExecuteFails, WriteFails, Get, Exists, RowCount, ScanOpen,
       ScanNext, ScanEnd, ScanFails, scan
  <2>4. pc[u] = "scanning" => (handle[u] \in live' => handle[u] \in live)
    <3>1. CASE Connect(t)
      BY <3>1 DEF Connect, Free
    <3> QED
      BY <3>1, ConnectionsChange DEF CloseConn, Forget, db
  <2> QED
    BY <1>0, <2>1, <2>2, <2>3, <2>4 DEF OnCourse, StillAhead, Stored
<1>3. CASE u = t /\ ~ Put(t) /\ ~ Delete(t)
  <2>1. CASE ScanOpen(t) \/ ScanNext(t)
    BY <1>0, <1>3, <2>1, ScanOpenOnCourse, ScanNextOnCourse
  <2>2. CASE ~ ScanOpen(t) /\ ~ ScanNext(t)
    <3>1. pc'[t] # "scanning"
      BY <1>3, <2>2 DEF Acts, Invoke, InvokeNothing, Return, Running, Close, CloseNothing,
         CloseConn, Forget, Connection, HotCheck, HotReturn, Lock, Recheck, Connect, Pragmas,
         CreateTable, ConnectFails, Execute, Opened, ExecuteFails, WriteFails, Get, Exists, RowCount,
         ScanEnd, ScanFails, Statement, Goto
    <3> QED
      BY <1>3, <3>1 DEF OnCourse
  <2> QED
    BY <2>1, <2>2
<1> QED
  BY <1>1, <1>2, <1>3

LEMMA FaithfulInductive ==
    ASSUME One, IInv, OneInv, NEW t \in Threads, Acts(t)
    PROVE  ScanFaithful'
<1> USE DEF IInv, TypeOK
<1> SUFFICES ASSUME NEW u \in Threads, pc'[u] = "done", call'[u].op = "scan", ret'[u] # RawError
             PROVE  /\ span'[u].always \subseteq ret'[u].keys
                    /\ ret'[u].keys \subseteq span'[u].ever
  BY DEF ScanFaithful
<1>1. CASE u # t
  <2>1. pc[u] = "done" /\ call[u].op = "scan" /\ ret'[u] = ret[u] /\ ret[u] # RawError
    BY <1>1, Others
  <2>2. cursor[u] = None
    BY <2>1 DEF Placed
  <2>3. span'[u] = span[u]
    BY <1>1, <2>2 DEF Acts, Invoke, InvokeNothing, Return, Running, Close, CloseNothing,
       CloseConn, Forget, Connection, HotCheck, HotReturn, Lock, Recheck, Connect, Pragmas,
       CreateTable, ConnectFails, Execute, Opened, ExecuteFails, WriteFails, Put, Get, Exists, Delete, RowCount,
       ScanOpen, ScanNext, ScanEnd, ScanFails, Commit, scan
  <2> QED
    BY <2>1, <2>3 DEF OneInv, ScanFaithful
<1>2. CASE u = t
  <2>1. CASE ScanEnd(t)
    <3>1. /\ pc[t] = "scanning" /\ cursor[t] = None /\ span' = span /\ ret'[t] = [keys |-> got[t]]
      BY <2>1 DEF ScanEnd, Goto, Outcome, scan
    <3>2. span[t].always \subseteq got[t] /\ got[t] \subseteq span[t].ever
      BY <3>1 DEF OneInv, OnCourse, StillAhead
    <3> QED
      BY <1>2, <3>1, <3>2
  <2>2. ~ Invoke(t) /\ ~ InvokeNothing(t) /\ ~ Return(t) /\ ~ Close(t) /\ ~ Connection(t)
    BY <1>2 DEF Invoke, InvokeNothing, Return, Close, CloseNothing, CloseConn, Forget, Connection,
       HotCheck, HotReturn, Lock, Recheck, Connect, Pragmas, CreateTable, ConnectFails, Goto,
       Outcome, Placed, Lifecycle
  <2>3. CASE Execute(t)
    BY <1>2, <2>1, <2>3 DEF Execute, Opened, ExecuteFails, WriteFails, Put, Get, Exists, Delete, RowCount,
       ScanOpen, ScanNext, ScanFails, Statement, Goto, Outcome, Placed
  <2> QED
    BY <2>2, <2>3 DEF Acts, Running
<1> QED
  BY <1>1, <1>2

\* Threads may share one instance: a scan that returns is faithful whatever
\* the others write meanwhile, close() and reopening included.
THEOREM ScanIsFaithful ==
    ASSUME One
    PROVE  Spec => []ScanFaithful
<1>1. Init => OneInv
  BY DEF Init, OneInv, Current, OnCourse, ScanFaithful
<1>2. IInv /\ OneInv /\ [Next]_vars => OneInv'
  <2> SUFFICES ASSUME IInv, OneInv, [Next]_vars PROVE OneInv'
    OBVIOUS
  <2>1. CASE UNCHANGED vars
    <3>1. UNCHANGED <<rows, live, snap, pc, call, ret, handle, cursor, got, span>>
      BY <2>1 DEF vars, db, scan
    <3> QED
      BY <3>1 DEF OneInv, Current, OnCourse, StillAhead, Stored, ScanFaithful
  <2>2. CASE Next
    <3>1. PICK t \in Threads : Acts(t)
      BY <2>2 DEF Next, Acts
    <3> QED
      BY <3>1, CurrentInductive, OnCourseInductive, FaithfulInductive DEF OneInv
  <2> QED
    BY <2>1, <2>2
<1>3. OneInv => ScanFaithful
  BY DEF OneInv
<1> QED
  BY <1>1, <1>2, <1>3, Invariance, PTL DEF Spec
=============================================================================
