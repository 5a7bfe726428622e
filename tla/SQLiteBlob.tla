------------------------------ MODULE SQLiteBlob ------------------------------
(***************************************************************************)
(* The SQLite backend (src/gufo/blob/sync/sqlite.py), alone or behind the  *)
(* thread-pool wrapper that makes the asynchronous one (aio/_wrapper.py).  *)
(*                                                                         *)
(* Threads use instances of the backend, each with a connection it opens   *)
(* when first needed.  All instances are on one database file in WAL mode: *)
(* a connection sees the last committed rows, or, while one of its scans   *)
(* is unfinished, the rows as of the start of that scan and its own writes *)
(* since.  A connection that is behind cannot write.                       *)
(***************************************************************************)
EXTENDS Naturals, FiniteSets

CONSTANTS
    Threads,
    Blobs,        \* instances of the backend
    Uses,         \* Uses[t]: the instance thread t calls
    Keys,         \* numbers, in the order of the key column
    Values,
    Prefixes,
    Under,        \* Under[p]: the keys that start with p
    Ops,          \* the operations the threads call
    Conns,        \* identities of connection objects
    PreOpened,    \* were the instances open()ed before the threads started?
    Wrapped,      \* the instances behind the asynchronous backend
    MaxFaults,    \* bound: how often connecting or writing may fail
    None

VARIABLES
    rows,       \* committed rows: rows[k] is the value under k, or None
    hasTable,   \* has CREATE TABLE been executed on the database?
    live,       \* connections that are open
    snap,       \* snap[c]: what connection c sees while it has a scan, or None
    behind,     \* connections whose snap is older than rows
    changes,    \* changes[c]: rows changed by the last write on c
    conn,       \* conn[b]: self._conn
    connLock,   \* connLock[b]: who holds self._conn_lock, or None
    pc, call, ret,
    handle,     \* handle[t]: the connection the property returned to t
    cursor,     \* cursor[t]: the key t's scan yields next, or None
    got,        \* got[t]: the keys it has yielded
    span,       \* keys that were there always, and ever, during t's scan
    faults

db == <<rows, hasTable, live, snap, behind, changes>>
inst == <<conn, connLock>>
scan == <<cursor, got, span>>
vars == <<db, inst, pc, call, ret, handle, scan, faults>>

ASSUME KeysAssumption == Keys \subseteq Nat \ {0}
ASSUME UnderAssumption == Under \in [Prefixes -> SUBSET Keys]
ASSUME InstancesAssumption ==
    Uses \in [Threads -> Blobs] /\ Wrapped \subseteq Blobs /\ PreOpened \in BOOLEAN /\ MaxFaults \in Nat

-----------------------------------------------------------------------------

Lifecycle == {"open", "close"}

\* The rows as connection c sees them.
View(c) == IF snap[c] = None THEN rows ELSE snap[c]

Stored(r) == {k \in Keys : r[k] # None}

\* The next key of a scan over rows r of the keys S, past the first n keys.
NextKey(r, S, n) ==
    LET ahead == {k \in Stored(r) \cap S : k > n}
    IN  IF ahead = {} THEN None ELSE CHOOSE k \in ahead : \A x \in ahead : k <= x

\* Other threads with an unfinished scan on connection c.
OtherScans(t, c) == \E u \in Threads \ {t} : cursor[u] # None /\ handle[u] = c

ExactlyNone == [always |-> {}, ever |-> {}]

RawError == [raised |-> "sqlite3.Error"]   \* or AttributeError: not a BlobError

(***************************************************************************)
(* What callers see.  The contract knows no open() and no close(), takes   *)
(* every failure for a BlobError, a delete for done once its statement     *)
(* has, and a scan for done when it starts.                                *)
(***************************************************************************)
OnStore(t) == call[t] # None /\ call[t].op \notin Lifecycle

YetToCome(t) ==
    IF cursor[t] = None THEN {}
    ELSE {k \in Stored(View(handle[t])) \cap Under[call[t].prefix] : k > cursor[t]}
            \cup {cursor[t]}

RowCountOf(c) == [raised |-> IF changes[c] = 0 THEN "KeyError" ELSE "nothing"]

SeenCall == [t \in Threads |-> IF OnStore(t) THEN call[t] ELSE None]

Seen(t) ==
    IF ~ OnStore(t) THEN None
    ELSE IF ret[t] = RawError THEN [raised |-> "BlobError"]
    ELSE IF pc[t] = "rowcount" THEN RowCountOf(handle[t])
    ELSE IF pc[t] = "scanning" THEN [keys |-> got[t] \cup YetToCome(t)]
    ELSE ret[t]

SeenRet == [t \in Threads |-> Seen(t)]

Store == INSTANCE BlobStore WITH
    Clients <- Threads, store <- rows, call <- SeenCall, ret <- SeenRet

Requests == Store!Requests \cup [op : Lifecycle]
Outcomes == Store!Outcomes \cup {RawError}
Rows == [Keys -> Values \cup {None}]

ASSUME NoneAssumption ==
    None \notin Keys \cup Values \cup Conns \cup Threads \cup Requests \cup Outcomes \cup Rows

-----------------------------------------------------------------------------

Init ==
    /\ rows = [k \in Keys |-> None]
    /\ changes = [c \in Conns |-> 0]
    /\ snap = [c \in Conns |-> None]
    /\ behind = {}
    /\ hasTable = PreOpened
    /\ IF PreOpened
       THEN /\ conn \in [Blobs -> Conns]
            /\ \A b1, b2 \in Blobs : conn[b1] = conn[b2] => b1 = b2
            /\ live = {conn[b] : b \in Blobs}
       ELSE /\ conn = [b \in Blobs |-> None]
            /\ live = {}
    /\ connLock = [b \in Blobs |-> None]
    /\ pc = [t \in Threads |-> "idle"]
    /\ call = [t \in Threads |-> None]
    /\ ret = [t \in Threads |-> None]
    /\ handle = [t \in Threads |-> None]
    /\ cursor = [t \in Threads |-> None]
    /\ got = [t \in Threads |-> {}]
    /\ span = [t \in Threads |-> ExactlyNone]
    /\ faults = 0

Goto(t, from, to) == pc[t] = from /\ pc' = [pc EXCEPT ![t] = to]
Outcome(t, o) == ret' = [ret EXCEPT ![t] = o]
Unlock(t) == connLock' = [connLock EXCEPT ![Uses[t]] = None]

Invoke(t) ==
    /\ \E r \in {q \in Requests : q.op \in Ops} :
          /\ call' = [call EXCEPT ![t] = r]
          /\ Goto(t, "idle", IF r.op # "close" THEN "hot" ELSE "close")
          /\ ~ (Uses[t] \in Wrapped /\ r.op \in Lifecycle)
    /\ UNCHANGED <<db, inst, ret, handle, scan, faults>>

\* AsyncWrapper inherits open() and close() of the base class: they do nothing.
InvokeNothing(t) ==
    /\ Uses[t] \in Wrapped
    /\ \E op \in Ops \cap Lifecycle : call' = [call EXCEPT ![t] = [op |-> op]]
    /\ Goto(t, "idle", "done")
    /\ Outcome(t, Store!Done)
    /\ UNCHANGED <<db, inst, handle, scan, faults>>

(***************************************************************************)
(* The property `connection`: two reads of self._conn on the hot path,     *)
(* else the lock, a third read, connect and initialise.  self._conn is set *)
(* before the database is ready for use.                                   *)
(***************************************************************************)
HotCheck(t) ==
    /\ Goto(t, "hot", IF conn[Uses[t]] # None THEN "hit" ELSE "lock")
    /\ UNCHANGED <<db, inst, call, ret, handle, scan, faults>>

HotReturn(t) ==
    /\ Goto(t, "hit", "execute")
    /\ handle' = [handle EXCEPT ![t] = conn[Uses[t]]]
    /\ UNCHANGED <<db, inst, call, ret, scan, faults>>

Lock(t) ==
    /\ connLock[Uses[t]] = None
    /\ \/ Goto(t, "lock", "recheck")
       \/ Goto(t, "close", "closing")
    /\ connLock' = [connLock EXCEPT ![Uses[t]] = t]
    /\ UNCHANGED <<db, conn, call, ret, handle, scan, faults>>

Recheck(t) ==
    /\ conn[Uses[t]] # None
    /\ Goto(t, "recheck", "execute")
    /\ handle' = [handle EXCEPT ![t] = conn[Uses[t]]]
    /\ Unlock(t)
    /\ UNCHANGED <<db, conn, call, ret, scan, faults>>

\* A connection object no variable refers to any more.
Free(c) ==
    /\ c \notin live
    /\ \A b \in Blobs : conn[b] # c
    /\ \A t \in Threads : handle[t] # c

\* Mutant: no second look at self._conn once the lock is held.
ConnectAgain(t) ==
    /\ Goto(t, "recheck", "pragmas")
    /\ \E c \in Conns :
          /\ Free(c)
          /\ conn' = [conn EXCEPT ![Uses[t]] = c]
          /\ live' = live \cup {c}
          /\ changes' = [changes EXCEPT ![c] = 0]
    /\ UNCHANGED <<rows, hasTable, snap, behind, connLock, call, ret, handle, scan, faults>>

Connect(t) ==
    /\ conn[Uses[t]] = None
    /\ Goto(t, "recheck", "pragmas")
    /\ \E c \in Conns :
          /\ Free(c)
          /\ \A d \in Conns : Free(d) => c <= d
          /\ conn' = [conn EXCEPT ![Uses[t]] = c]
          /\ live' = live \cup {c}
          /\ changes' = [changes EXCEPT ![c] = 0]
    /\ UNCHANGED <<rows, hasTable, snap, behind, connLock, call, ret, handle, scan, faults>>

Pragmas(t) ==
    /\ Goto(t, "pragmas", "schema")
    /\ UNCHANGED <<db, inst, call, ret, handle, scan, faults>>

CreateTable(t) ==
    /\ Goto(t, "schema", "execute")
    /\ hasTable' = TRUE
    /\ handle' = [handle EXCEPT ![t] = conn[Uses[t]]]
    /\ Unlock(t)
    /\ UNCHANGED <<rows, live, snap, behind, changes, conn, call, ret, scan, faults>>

\* Mutant: the lock is not released when connecting raises.
ConnectFailsLocked(t) ==
    /\ faults < MaxFaults
    /\ faults' = faults + 1
    /\ \/ conn[Uses[t]] = None /\ Goto(t, "recheck", "done")
       \/ Goto(t, "pragmas", "done")
       \/ Goto(t, "schema", "done")
    /\ Outcome(t, RawError)
    /\ UNCHANGED <<db, inst, call, handle, scan>>

\* The file cannot be opened, or another process holds the database longer
\* than the busy timeout.  self._conn stays as it is.
ConnectFails(t) ==
    /\ faults < MaxFaults
    /\ faults' = faults + 1
    /\ \/ conn[Uses[t]] = None /\ Goto(t, "recheck", "done")
       \/ Goto(t, "pragmas", "done")
       \/ Goto(t, "schema", "done")
    /\ Outcome(t, RawError)
    /\ Unlock(t)
    /\ UNCHANGED <<db, conn, call, handle, scan>>

-----------------------------------------------------------------------------
(* The statements. *)

Usable(c) == c # None /\ c \in live /\ hasTable

\* Thread t executes the statement of operation op on a usable connection.
Statement(t, op, to) == Goto(t, "execute", to) /\ call[t].op = op /\ Usable(handle[t])

\* open() only reads the property.
Opened(t) ==
    /\ Goto(t, "execute", "done")
    /\ call[t].op = "open"
    /\ Outcome(t, Store!Done)
    /\ UNCHANGED <<db, inst, call, handle, scan, faults>>

\* NoneType has no execute(), the connection is closed, there is no such
\* table, or a write finds the connection behind: the error goes to the caller.
\* (A get() or exists() whose connection is closed between its statement and
\* fetchone() fails here too: reading has no effect by which to tell.)
ExecuteFails(t) ==
    /\ Goto(t, "execute", "done")
    /\ call[t].op # "open"
    /\ Usable(handle[t]) =>
          call[t].op \in {"put", "delete"} /\ handle[t] \in behind
    /\ Outcome(t, RawError)
    /\ UNCHANGED <<db, inst, call, handle, scan, faults>>

\* Another process holds the database longer than the busy timeout, or the
\* disk is full: the statement is rolled back.
WriteFails(t) ==
    /\ faults < MaxFaults
    /\ faults' = faults + 1
    /\ Goto(t, "execute", "done")
    /\ call[t].op \in {"put", "delete"}
    /\ Outcome(t, RawError)
    /\ UNCHANGED <<db, inst, call, handle, scan>>

\* Connection c commits rows r in place of what it saw.
Commit(c, r) ==
    /\ c \notin behind
    /\ rows' = r
    /\ snap' = [snap EXCEPT ![c] = IF snap[c] = None THEN None ELSE r]
    /\ span' = [t \in Threads |-> IF cursor[t] = None THEN span[t] ELSE
                  [always |-> span[t].always \cap Stored(r),
                   ever   |-> span[t].ever \cup Stored(r)]]

\* Whatever is written puts the other connections' scans behind.
Behind(c) == behind \cup {d \in live \ {c} : snap[d] # None}

Put(t) ==
    LET c == handle[t] IN
    /\ Statement(t, "put", "done")
    /\ Commit(c, [rows EXCEPT ![call[t].key] = call[t].data])
    /\ behind' = Behind(c)
    /\ changes' = [changes EXCEPT ![c] = 1]
    /\ Outcome(t, Store!Done)
    /\ UNCHANGED <<hasTable, live, inst, call, handle, cursor, got, faults>>

\* Mutant: the value of a row that is not there.
GetOrNone(t) ==
    /\ Statement(t, "get", "done")
    /\ Outcome(t, [value |-> View(handle[t])[call[t].key]])
    /\ UNCHANGED <<db, inst, call, handle, scan, faults>>

Get(t) ==
    LET v == View(handle[t])[call[t].key] IN
    /\ Statement(t, "get", "done")
    /\ Outcome(t, IF v = None THEN Store!KeyError ELSE [value |-> v])
    /\ UNCHANGED <<db, inst, call, handle, scan, faults>>

Exists(t) ==
    /\ Statement(t, "exists", "done")
    /\ Outcome(t, [found |-> View(handle[t])[call[t].key] # None])
    /\ UNCHANGED <<db, inst, call, handle, scan, faults>>

Delete(t) ==
    LET c == handle[t]
        there == rows[call[t].key] # None
    IN
    /\ Statement(t, "delete", "rowcount")
    /\ Commit(c, [rows EXCEPT ![call[t].key] = None])
    /\ behind' = IF there THEN Behind(c) ELSE behind
    /\ changes' = [changes EXCEPT ![c] = IF there THEN 1 ELSE 0]
    /\ UNCHANGED <<hasTable, live, inst, call, ret, handle, cursor, got, faults>>

\* Mutant: delete() does not look at the number of rows.
RowCountIgnored(t) ==
    /\ Goto(t, "rowcount", "done")
    /\ Outcome(t, Store!Done)
    /\ UNCHANGED <<db, inst, call, handle, scan, faults>>

\* cursor.rowcount is the connection's sqlite3_changes(), read once the
\* statement is over and another thread may have run one of its own.
RowCount(t) ==
    /\ Goto(t, "rowcount", "done")
    /\ Outcome(t, RowCountOf(handle[t]))
    /\ UNCHANGED <<db, inst, call, handle, scan, faults>>

\* The read transaction of c lasts as long as t or another thread scans.
ReadOn(t, c, next, view) ==
    LET on == next # None \/ OtherScans(t, c) IN
    /\ cursor' = [cursor EXCEPT ![t] = next]
    /\ snap' = [snap EXCEPT ![c] = IF on THEN view ELSE None]
    /\ behind' = IF on THEN behind ELSE behind \ {c}

\* The generator starts: execute() steps to the first row.
ScanOpen(t) ==
    LET c == handle[t]
        S == Under[call[t].prefix]
    IN
    /\ Statement(t, "scan", "scanning")
    /\ ReadOn(t, c, NextKey(View(c), S, 0), View(c))
    /\ span' = [span EXCEPT ![t] = [always |-> Stored(rows) \cap S, ever |-> Stored(rows) \cap S]]
    /\ UNCHANGED <<rows, hasTable, live, changes, inst, call, ret, handle, got, faults>>

\* The cursor hands out the row it stands on and steps to the next one.
ScanNext(t) ==
    LET c == handle[t] IN
    /\ Goto(t, "scanning", "scanning")
    /\ cursor[t] # None
    /\ c \in live
    /\ got' = [got EXCEPT ![t] = @ \cup {cursor[t]}]
    /\ ReadOn(t, c, NextKey(View(c), Under[call[t].prefix], cursor[t]), View(c))
    /\ UNCHANGED <<rows, hasTable, live, changes, inst, call, ret, handle, span, faults>>

ScanEnd(t) ==
    /\ Goto(t, "scanning", "done")
    /\ cursor[t] = None
    /\ handle[t] \in live
    /\ Outcome(t, [keys |-> got[t]])
    /\ UNCHANGED <<db, inst, call, handle, scan, faults>>

\* Mutant: the error is suppressed, the scan ends with what it has yielded.
ScanFailsSilently(t) ==
    /\ Goto(t, "scanning", "done")
    /\ handle[t] \notin live
    /\ cursor' = [cursor EXCEPT ![t] = None]
    /\ Outcome(t, [keys |-> got[t]])
    /\ UNCHANGED <<db, inst, call, handle, got, span, faults>>

\* The connection was closed since: the cursor raises, with rows left or not.
ScanFails(t) ==
    /\ Goto(t, "scanning", "done")
    /\ handle[t] \notin live
    /\ cursor' = [cursor EXCEPT ![t] = None]
    /\ Outcome(t, RawError)
    /\ UNCHANGED <<db, inst, call, handle, got, span, faults>>

-----------------------------------------------------------------------------
(* close() *)

\* Mutant: with nothing to close, close() returns without releasing the lock.
CloseNothingLocked(t) ==
    /\ conn[Uses[t]] = None
    /\ Goto(t, "closing", "done")
    /\ Outcome(t, Store!Done)
    /\ UNCHANGED <<db, inst, call, handle, scan, faults>>

CloseNothing(t) ==
    /\ conn[Uses[t]] = None
    /\ Goto(t, "closing", "done")
    /\ Outcome(t, Store!Done)
    /\ Unlock(t)
    /\ UNCHANGED <<db, conn, call, handle, scan, faults>>

CloseConn(t) ==
    LET c == conn[Uses[t]] IN
    /\ c # None
    /\ Goto(t, "closing", "forget")
    /\ live' = live \ {c}
    /\ snap' = [snap EXCEPT ![c] = None]
    /\ behind' = behind \ {c}
    /\ UNCHANGED <<rows, hasTable, changes, inst, call, ret, handle, scan, faults>>

Forget(t) ==
    /\ Goto(t, "forget", "done")
    /\ conn' = [conn EXCEPT ![Uses[t]] = None]
    /\ Outcome(t, Store!Done)
    /\ Unlock(t)
    /\ UNCHANGED <<db, call, handle, scan, faults>>

Return(t) ==
    /\ Goto(t, "done", "idle")
    /\ call' = [call EXCEPT ![t] = None]
    /\ ret' = [ret EXCEPT ![t] = None]
    /\ handle' = [handle EXCEPT ![t] = None]
    /\ got' = [got EXCEPT ![t] = {}]
    /\ span' = [span EXCEPT ![t] = ExactlyNone]
    /\ UNCHANGED <<db, inst, cursor, faults>>

Connection(t) ==
    \/ HotCheck(t) \/ HotReturn(t) \/ Lock(t) \/ Recheck(t)
    \/ Connect(t) \/ Pragmas(t) \/ CreateTable(t) \/ ConnectFails(t)
Execute(t) ==
    \/ Opened(t) \/ ExecuteFails(t) \/ WriteFails(t)
    \/ Put(t) \/ Get(t) \/ Exists(t) \/ Delete(t) \/ RowCount(t)
    \/ ScanOpen(t) \/ ScanNext(t) \/ ScanEnd(t) \/ ScanFails(t)
Close(t) == CloseNothing(t) \/ CloseConn(t) \/ Forget(t)
Running(t) == Connection(t) \/ Execute(t) \/ Close(t)

Next == \E t \in Threads : Invoke(t) \/ InvokeNothing(t) \/ Running(t) \/ Return(t)

Spec == Init /\ [][Next]_vars

\* A thread in a call keeps running whenever it can.
FairSpec == Spec /\ \A t \in Threads : WF_vars(Running(t))

-----------------------------------------------------------------------------

Labels == {"idle", "hot", "hit", "lock", "recheck", "pragmas", "schema", "execute",
           "rowcount", "scanning", "close", "closing", "forget", "done"}
TypeOK ==
    /\ rows \in Rows
    /\ hasTable \in BOOLEAN
    /\ live \subseteq Conns
    /\ snap \in [Conns -> Rows \cup {None}]
    /\ behind \subseteq live
    /\ changes \in [Conns -> {0, 1}]
    /\ conn \in [Blobs -> Conns \cup {None}]
    /\ connLock \in [Blobs -> Threads \cup {None}]
    /\ pc \in [Threads -> Labels]
    /\ call \in [Threads -> Requests \cup {None}]
    /\ ret \in [Threads -> Outcomes \cup {None}]
    /\ handle \in [Threads -> Conns \cup {None}]
    /\ cursor \in [Threads -> Keys \cup {None}]
    /\ got \in [Threads -> SUBSET Keys]
    /\ span \in [Threads -> [always : SUBSET Keys, ever : SUBSET Keys]]
    /\ faults \in 0 .. MaxFaults

(***************************************************************************)
(* However the threads of an instance race to open, fail to open and close *)
(* it, every connection that is open belongs to exactly one instance: none *)
(* is leaked by a second connect() over the first.                         *)
(***************************************************************************)
NoConnectionLeaked ==
    \A c \in live : \E b \in Blobs : conn[b] = c /\ \A d \in Blobs \ {b} : conn[d] # c

(***************************************************************************)
(* close() releases the resources of the instance (docs/faq.md:74): once   *)
(* it has returned to the only caller of an instance, no connection of the *)
(* instance is open.                                                       *)
(***************************************************************************)
CloseReleases ==
    \A t \in Threads :
        /\ pc[t] = "done" /\ call[t].op = "close"
        /\ \A u \in Threads \ {t} : Uses[u] # Uses[t]
        => conn[Uses[t]] \notin live

(***************************************************************************)
(* A scan that returns has yielded every key that was there all the time   *)
(* it ran, and no key that was not there at some time while it ran,        *)
(* whatever other threads write behind or ahead of its cursor.             *)
(***************************************************************************)
ScanFaithful ==
    \A t \in Threads :
        pc[t] = "done" /\ call[t].op = "scan" /\ ret[t] # RawError =>
            /\ span[t].always \subseteq ret[t].keys
            /\ ret[t].keys \subseteq span[t].ever

(***************************************************************************)
(* The property `connection` returns a connection on which statements can  *)
(* be executed: "connect and initialize database schema when necessary"    *)
(* (sqlite.py:131).                                                        *)
(***************************************************************************)
ConnectionUsable ==
    \A t \in Threads : pc[t] = "execute" => Usable(handle[t])

(***************************************************************************)
(* Callers cannot tell the backend from the contract of the base class.    *)
(***************************************************************************)
ImplementsStore == Store!Spec

(***************************************************************************)
(* Every call returns: a scan comes to an end, and no path of the property *)
(* or of close() leaves self._conn_lock held.                              *)
(***************************************************************************)
EveryCallReturns == \A t \in Threads : pc[t] # "idle" ~> pc[t] = "done"

(***************************************************************************)
(* Whoever holds self._conn_lock lets go of it, also when connecting or    *)
(* initialising fails.  Threads that share an instance cannot ask for      *)
(* more: threading.Lock is not fair.                                       *)
(***************************************************************************)
LockReleased == \A b \in Blobs : connLock[b] # None ~> connLock[b] = None
=============================================================================
