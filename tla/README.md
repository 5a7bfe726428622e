# A TLA+ model of Gufo Blob

Gufo Blob is a Python library of blob stores: one interface (`put`, `get`,
`delete`, `exists`, `scan`, `open`, `close`) over memory, SQLite, FTP, S3 and the
file system, in a synchronous and an asynchronous variant.  These modules model
the interface and its backends as the code in `src/src/gufo/blob` implements
them, check small instances with TLC, and prove the main properties of the
memory, SQLite, FTP, S3 and file backends with TLAPS.

## The system

| component | code | state | operations |
|---|---|---|---|
| contract | `sync/base.py`, `aio/base.py` | none: an abstract map from keys to bytes | put, get, delete, exists, scan; open and close do nothing unless overridden; the dictionary protocol (`b[k]`, `k in b`, ...) and the context managers only call these |
| memory | `sync/memory.py` | `_data`, the counter `_size`, `_data_lock`, the limits `max_objects`, `max_size` | all under the lock |
| SQLite | `sync/sqlite.py` | `_conn`, made when first needed, `_conn_lock`; the database file is shared by every instance and process that opened it | one statement each; scan is a live cursor |
| asynchronous wrapper | `aio/_wrapper.py` (SQLite, file) | the synchronous instance it wraps | runs each operation, a whole scan included, in a worker thread, which goes on when the task that awaits it is cancelled; open and close are inherited no-ops |
| FTP | `sync/ftp.py`, `common/ftp.py` | the control socket `_sock`, `_response_buffer`, the detected `_features`; a data socket per transfer | each is a dialogue of commands and replies |
| asynchronous FTP | `aio/ftp.py` | the same, with streams | the same dialogue, with an await at each command; close sends QUIT on a connection it makes for it |
| asynchronous memory | `aio/memory.py` | as memory, with an `asyncio.Lock` | as memory; no method awaits inside the lock |
| file | `sync/file.py` | none but the root: the directory tree | a few system calls each, not made atomic by a lock or a temporary file |
| S3 | `sync/s3.py`, `aio/s3.py`, `common/s3.py` | none in the client | one HTTP request each, but delete is HEAD then DELETE and scan is one request per page |
| loader, errors | `__init__.py`, `utils.py`, `error.py` | none | picks a class by URL scheme |

Components meet in three ways.  Callers are threads (or coroutines, which the
wrapper turns into threads) that share one instance: the documentation calls the
synchronous backends thread-safe (`docs/backends/index.md:3`).  Instances meet in
what they store to: a database file, a server, a directory.  And the asynchronous
wrapper forwards to a synchronous instance.

What is hard about it: statements of several threads under (or before) a lock;
a connection that is made lazily, fails half-way and is closed while others use
it; a cursor that stays open while rows change; replies that do not say which
command they answer, so that one reply too many or too few puts all later ones
off; transfers that end on two connections; timeouts after which the answer
arrives all the same; directories that two clients make at the same time; two
requests where the operation should be one; files that are truncated before they
are written, by processes that may die in between; tasks that are cancelled while
their thread, or the server, goes on.  `PROJECT.json` lists these hazards
with their lines.

What makes each component correct:

- contract: every operation takes effect at one instant between call and return;
- memory: the counter is exact, the limits always hold, a put is refused only if
  it does not fit, no path keeps the lock;
- SQLite: one connection per instance, usable when handed out, none leaked,
  the lock always released; callers see the contract; a scan misses no key that
  stays and invents none;
- FTP: the reply a call acts on answers its own command, data cut short is never
  returned as a value, between calls nothing is left unread on an open connection,
  nothing of one connection is left for the next (false), no call waits for a
  server that waits for it, every call ends, clients do not disturb each other;
- S3: each answer is true of an instant of the call, a scan by pages misses no key
  that stays, delete raises for a key that is not there;
- file: what an undisturbed call has stored stays; readers see what was there at
  some moment of the call, or a part of what is being written; a scan misses no
  file that stays; only a clash of a file and a directory makes a call fail.

## The modules

| module | models | extends / uses |
|---|---|---|
| `BlobStore` | the contract of `BlobBase` as an atomic map with failures | - |
| `MemoryBlob` | `MemoryBlob`, statement by statement | `BlobStore` as `Store` |
| `MemoryBlobProofs` | theorems on `MemoryBlob` | `MemoryBlob`, TLAPS |
| `SQLiteBlob` | `SQLiteBlob`, and `AsyncWrapper` around it | `BlobStore` as `Store` |
| `SQLiteBlobProofs` | theorems on `SQLiteBlob` | `SQLiteBlob`, TLAPS |
| `RemoteStore` | what of the contract is left over an unreliable network | `BlobStore` as `Contract` |
| `S3Blob` | both variants of `S3Blob`, request by request, with their bucket | `RemoteStore` as `Remote` |
| `S3BlobProofs` | theorems on `S3Blob` | `S3Blob`, TLAPS |
| `FTPBlob` | both variants of `FTPBlob` with their server and network | `BlobStore` for requests and outcomes |
| `FTPBlobProofs` | theorems on `FTPBlob`: client and server stay in step | `FTPBlob`, TLAPS |
| `FTPBlobCallProofs` | theorems on `FTPBlob`: what they exchange belongs to the call | `FTPBlobProofs` |
| `FTPBlobTruthProofs` | theorems on `FTPBlob`: what calls answer is true, and when none fails | `FTPBlobCallProofs` |
| `FileBlob` | `FileBlob`, system call by system call, and `AsyncWrapper` around it | `BlobStore` for requests and outcomes |
| `FileBlobProofs` | theorems on `FileBlob`: what is acknowledged, what fails | `FileBlob`, TLAPS |
| `FileBlobReadProofs` | theorems on `FileBlob`: what readers and scans are told | `FileBlobProofs` |
| `MC...` | values of the constants for TLC | the module of the name |

A caller is a thread with a program counter; `Invoke` picks a request, `Return`
ends the call, and between them `call[t]` is the request and `ret[t]` its outcome,
once decided.  That is also the interface of `BlobStore`: a backend implements it
when its own `call`, `ret` and stored rows behave like those of the contract.
Payloads are model values.  Keys are model values (memory), numbers in the order
of the index (SQLite), or paths (FTP, file), and `Under[p]` is the set of keys that
start with prefix `p`.  A comment that begins with *Mutant* marks a definition
that no specification uses: a plausible mistake in the code, kept to show that a
property notices it.

### `MemoryBlob`

`data`, `size` and `lock` are `_data`, `_size` and `_data_lock`.  The body of each
method is split where an unlocked implementation would go wrong: `put()` is
`PutRefused`, or `PutAccepted` (the old value is read), `PutAccount` (`_size`) and
`PutStore` (`_data`); `delete()` is `DeletePop` and `DeleteAccount`.  So the
exactness of the counter is a property of the lock and not of the model.
`aio/memory.py` has the same statements under an `asyncio.Lock`.  Nothing in them
awaits, so on one event loop its behaviours are those of the module in which no two
bodies interleave: what holds of the one holds of the other.  Where the lines of
the two are alike the map names those of one of them.
`OverLimits` is `_check_limits()`, down to `if new_key`, which is false for the
key `""` and leaves its old size out of account.

### `SQLiteBlob`

`conn[b]` and `connLock[b]` are `_conn` and `_conn_lock` of instance `b`.  The
property `connection` is `HotCheck` and `HotReturn` (two reads of `_conn` without
the lock), `Lock`, `Recheck`, `Connect` (`_conn` is set), `Pragmas` and
`CreateTable` (the lock is released); `ConnectFails` is an exception at any of the
last three.  The statements are `Put`, `Get`, `Exists`, `Delete` followed by
`RowCount` (`cursor.rowcount` reads the counter of the connection after the
statement), and a scan's `ScanOpen`, `ScanNext`, ..., `ScanEnd`; `ScanFails` when its
connection has been closed, rows left or not.  `ExecuteFails` is a statement that
cannot be executed, `WriteFails` one that is rolled back (the database busy for
longer than the timeout, the disk full).  `get()` and `exists()` are one step, from
`execute()` to `fetchone()`: where a `close()` comes between the two the error is that
of `ExecuteFails` after the close, as reading changes nothing.  `close()` is
`CloseNothing` or `CloseConn` and `Forget`.

Of SQLite itself (external in the map) the model has what WAL mode lets a
connection see: while a cursor is unfinished its connection reads the rows of the
moment the cursor began and its own later writes (`snap`), and when another
connection has written since (`behind`), it cannot write.  Errors of `sqlite3` are
not translated by the code: `RawError`.

`Wrapped` is the set of instances that sit behind `AsyncWrapper`: their
operations run in threads as any other, `open()` and `close()` do nothing
(`InvokeNothing`).

For the refinement (`SeenCall`, `SeenRet`) a delete takes effect at its statement,
with the row count it is going to read, and a scan when its cursor opens, with the
keys it is going to yield; `open()`, `close()` are no calls, and a raw error
counts as a `BlobError`.

### `FTPBlob`

`link[b]` is both ends of the connections of instance `b`: the socket,
`_response_buffer`, `_features`, the commands and replies under way, the
transfer the server is in, and the data connections by port.  `th[t]` is where
thread `t` is in its operation, `cmd` being the command it will send or whose
reply it awaits.  A command is `Send`, `Recv` (one `recv()` may bring several
lines) and a `Take...` action that acts on the code, one for each place where the
code reads a reply; `Breaks` is what `_cmd()` or a timeout raising leads to in each
place.  `Starts`, `MakeParents`, `Probe`, `LoginNext` and `Descend` are the
control of the operations: which command comes first and which next.
`Dial`, `ReadData`, `FillData`, `DataFails`, `DataTimesOut` are the data connection.

The server (external) serves one command at a time in order, and may refuse it
with one of the codes `Refusals`, abort a transfer, drop the connection or refuse a
new one (together at most `MaxFaults` times) and be late (`MaxTimeouts` times).  The end
of an upload goes to the file STOR opened: one that was deleted since does not come back.
`Refusals` matters because the code takes every 550 for "no such key" (or, of MKD, for
"already there"): a server that refuses a command for want of permission says 550 too.
It is `{450}` in the runs.

What a server says as it drops a connection (`bye`) is nothing, a complete 421 that no
command asked for, or a part of a line.  One `recv()` may bring it along with the reply
before it (`Recv`), or it comes alone (`RecvRest`).  `_response_buffer` is `buffer`, the
whole replies not yet taken, and `left`, what follows them; neither `close()` nor a failed
login clears it (`HangUp`).  The next reply read is then the 421 (`TakeFarewell`, whatever
command is awaiting one), or the first line of the next connection is read as the rest of
the part (`RecvJoins`): as a reply with this or that code, or, behind the `211-` of a reply
of several lines, as none.

The two variants send the same commands and act alike on the replies, so a
definition stands for both and the map names the lines of one.  Where they differ
`flavour` tells them apart.  The asynchronous `close()` sets `_conn` to `None` and
then sends QUIT, for which the property `connection` connects and logs in once more:
`Connecting` on the command `"close"`, with QUIT in `resume`.  Its `put()` shuts the
data connection down as soon as `drain()` returns, which it does with up to 64 KiB
still in the transport's buffer: of a value in `Large`, `Leaving` may be a part.  And
`Cancel` is `CancelledError` at any await, which leaves the command sent, its
reply unread, and a login half done.  The constants `Flavours` and `Large` say which
of this a run has.

`known`, `was` and `alone` are history: what the finished calls tell about each
key, for `ResultsTruthful` to compare answers with.  A key of which a put failed,
or of which two calls overlapped, is `Unknown`.

### `S3Blob`

The client keeps nothing between calls, so a client of the model is a call in
progress, of whatever instance.  `request[c]` is the HTTP request under way,
`reply[c]` the response; `First` is the request an operation begins with,
`Following` the one that a response leads to (DELETE after HEAD, the next page),
`Outcome` what the caller gets when none follows, by the status.  The service
(external: `Page`, `Answer`, `Performed`) carries a request out at one instant,
refuses it (`Refuse`; 503 stands for each status that the code does not name, which all
end alike, and for a listing that does not parse) or the client gives up (`GiveUp`: `_request` turns whatever
the HTTP client raises into `BlobError`), and then the request is lost or remains
in `stray`, to be carried out at any later time.

`RemoteStore` is the contract such a backend can keep: an answer is true of an
instant of the call, but a failed `put()` or `delete()` may have happened, or may
still (`loose`), and a `delete()` that returns need not be the one that removed the
key.  In the refinement a call takes effect (`took`) when the request that decides
its outcome is carried out.

### `FileBlob`

An instance keeps nothing but its root, so threads, instances and processes are all
the same to the model: they meet in `entry` (which inode is at a path), `dirs` and
`content` (external in the map, as a POSIX file system behaves).  A step is a system
call.  `put()` is `MakeDir` once for each `mkdir()` of `Path.mkdir(parents=True,
exist_ok=True)`, which asks for the parent when told that it is missing, then
`OpenToWrite`, which truncates, and `Write`.  `get()` is `OpenToRead` and `Read`,
`delete()` is `Unlink`, `exists()` is `Stat`.  `scan()` is `ScanExists`, `ScanBase`,
and for each directory of the tree `ScanList` and an `ScanEntry` per entry, in any
order.  A file that was opened remains while it is open though its path is gone or
names another (`fd`, `InUse`, `Kept`).  Keys and prefixes that `_resolve()` refuses have
no path (`Target`, `Refuse`).

`Crash` ends a process between two system calls, or in the middle of a `write()`,
which leaves a part (`Torn`).  `Cancel` is the asynchronous wrapper's: the caller
has its `CancelledError`, and the thread carries the call to its end.  Both are
unbounded.  `known` and `alone` are history as in `FTPBlob`, and `seen[t]` is what
was there to be read during the call, for `ReadsRegular` and `ScanFaithful`.

## The runs

Times are for two workers.  All check for deadlock: a call can always begin.

| run | instance | states | shows |
|---|---|---|---|
| `memory_limits` | 2 threads, 3 keys, payloads of 1 and 2 bytes, `max_objects` 2, `max_size` 3 | 174 000, 14 s | `TypeOK`, `SizeAccounts`, `LimitsRespected`, `RefusedOnlyWhenFull`, `ImplementsStore`, `CallsComplete` |
| `sqlite_own` | 2 threads, own instances (one wrapped), 2 keys | 395 000, 170 s | `TypeOK`, `ImplementsStore`, `EveryCallReturns` |
| `sqlite_lifecycle` | 2 threads on one instance: put, delete, scan, open, close; one failure to connect or write | 952 000, 200 s | `NoConnectionLeaked`, `ScanFaithful`, `LockReleased` |
| `sqlite_cold_start` | 2 threads make the first calls | | violates `ConnectionUsable` |
| `sqlite_rowcount` | 2 threads put and delete on one connection | | violates `ImplementsStore` |
| `ftp_faults` | 1 thread, either variant, all operations, a key at the root and one in a directory, 2 faults | 598 000, 100 s | `TypeOK`, `ResultsTruthful`, `ControlInSync`, `NoMutualWait`, `EveryCallReturns` |
| `ftp_two_clients` | 2 asynchronous clients with own instances put a key in a directory; one reply is late or one task is cancelled | 299 000, 60 s | `NoSpuriousFailure`, `LatenessIsolated` |
| `ftp_scan` | 1 thread, no fault, put and scan | | violates `ScanYieldsPrefix` |
| `ftp_timeouts` | 1 thread, one reply is late | | violates `ResultsTruthful` |
| `ftp_aio_put` | 1 thread, asynchronous, a value that need not fit in the buffers | | violates `ResultsTruthful` |
| `s3_faults` | 2 clients, 2 keys, 2 payloads, pages of 1 object, 1 refusal or lost request | 641 000, 190 s | `TypeOK`, `DeleteJustified`, `ScanFaithful`, `ImplementsRemote`, `EveryCallReturns` |
| `file_races` | 2 threads: a file `d`, a file `d/e/y`, a key and a prefix that are refused; crashes and cancellations | 238 000, 100 s | `TypeOK`, `AckedKept`, `ReadsRegular`, `ScanFaithful`, `FailsOnlyOnClash`, `EveryCallReturns` |

Why the bounds are enough.  The counter, the limits and the contract of the
memory backend are proved for all instances; TLC's instance has room for an
overwrite, a refusal by count, a refusal by size and a delete between two puts.
In SQLite every conflict is between two threads: one that is at some line and one
that does something meanwhile; two keys let a cursor have a row behind and a row
ahead of it, and three connections let one be closed and replaced while a thread
still holds the old one.  In FTP two faults reach every pair of an error and an
error on the way out of it, on two keys that differ in having a parent to make;
ports are as many as can be in use.  One late reply, or one cancelled task, is enough
to put all later ones off by one (`MaxTimeouts` bounds the two together).  `Large` is
empty in the passing runs: a value that does not fit is what `ftp_aio_put` is about.  In S3 a page of one object makes a scan of two keys two requests,
with the key of the token deleted or restored between them, and one lost request
can be carried out at any later point of the other client's call.  In the file
backend the two keys are such that one is a parent of the other, so that files and
directories clash, and two levels deep, so that parents are made one by one while
the other thread makes them too; inodes are as many as can be in use.

The two FTP clients are alike, and so TLC takes a state and the one with the clients
exchanged for one (`Alike`); the other passing runs have liveness properties, for which
that is not sound, or too little to exchange.

Where the bounds leave something out.  That calls end after a late reply or a
cancellation is not checked, as `ftp_faults` has neither (with them its instance is too large for
TLC), and `ftp_two_clients` no liveness.  The two clients only put; that get(), exists() and
delete() do not fail beside them is only proved (`NoCallFailsByItself`), and so is that answers
are true of several clients (`ResultsAreTruthful`).  No run has a
connection that is `behind` (it takes three threads on two instances).  `AckedKept`
speaks of undisturbed calls only: what a cancelled `put()` does later, and what part of a
file a crash leaves, it does not judge.

### Fairness

- Memory: the thread inside the lock goes on, and a free lock goes to some
  waiting thread.  `threading.Lock` is not fair, so `CallsComplete` promises
  progress of some call, not of each.
- SQLite: a thread in a call goes on whenever it can.  Where each thread has its
  own instance no one competes for its lock and each call returns
  (`EveryCallReturns`); where they share one, only that the lock is let go of
  (`LockReleased`).
- FTP: the client and the server each go on when they can, and a client that waits
  while the server waits too times out (every socket has a timeout).  No fault and
  no late reply is ever required to happen.
- File: the operating system runs every thread that is in a call (`Step`).  No crash
  and no cancellation is required to happen.
- S3: the service answers, and a client goes on when a response is there; a
  request given up need never be carried out.

### What disagrees with the documentation

With a run of its own:

- `sqlite_cold_start`: `_conn` is set (`sqlite.py:139`) before the table exists, and
  the hot path reads it without the lock: a second thread's first call can
  fail with "no such table".
- `sqlite_rowcount`: `cursor.rowcount` (`sqlite.py:229`) is read when other threads may
  have written on the connection: `delete()` of a key that was not there returns, or
  of one that was raises `KeyError`.
- `ftp_timeouts`: after a timeout the connection stays in use with a reply still
  to come, which answers the next command: `delete()` of a missing key returns.
- `ftp_aio_put`: the asynchronous `put()` shuts the data connection down
  (`aio/ftp.py:369`) when `drain()` has returned and not when the buffer is empty; the
  end of the value cannot be sent, the error is swallowed, the server sees a regular
  end of data, and `put()` returns.  Against a local server a put of 3.9 MB that
  returned had stored some thousand bytes less.
- `ftp_scan`: `scan("")` lists the files of the root and not the keys below its
  directories (`sync/ftp.py:609`; `sync/base.py:165`: "Iterate all keys within prefix.").

Seen in the same modules, with other values of the constants:

- `if new_key` (`sync/memory.py:137`, `aio/memory.py:139`) takes `""` for "no key", so
  overwriting the value under `""` may be refused although the result would fit
  (`RefusedOnlyWhenFull` with `""` among the keys).
- A failure between `connect()` and `CREATE TABLE` leaves a connection without a
  table that all later calls use (`sqlite.py:144`; `ConnectionUsable`, one thread,
  `MaxFaults = 1`).
- Closing the asynchronous SQLite backend closes nothing, as `AsyncWrapper`
  (`aio/_wrapper.py:22`) inherits a `close()` that does nothing (`docs/faq.md:74`: "`close()` —
  release resources"; `CloseReleases` in `sqlite_own`).
- `_response_buffer` is not cleared when a connection ends (`sync/ftp.py:159`, `181`).
  What a server sent of a line before it dropped the connection, or the 421 that came along
  with the last reply, is read as the greeting of the next one (`docs/backends/ftp.md:28`:
  "the socket closes and reconnects cleanly on the next access"; `CleanReconnect` in
  `ftp_faults`).  It makes the next login fail, or, when the part was the `211-` of a longer
  reply, wait for a line that does not come, until the timeout, which is why `NoMutualWait` leaves
  that greeting out.  `ftp_faults` shows that it makes no answer false and that no call waits
  for ever.
- 550 is taken for a missing key (`sync/ftp.py:405`, `461`, `516`, `541`, `547`) though a
  server says it as well when the command is not permitted: `delete()` of a key that is there
  raises `KeyError` (`sync/ftp.py:512`: "KeyError: If the key does not exist.";
  `ResultsTruthful` with `Refusals = {550}`).
- FTP `scan("b/c")` yields the key `"b"` (`sync/ftp.py:607`; line 580: "Only entries whose
  names start with the given prefix are returned."; `ScanYieldsPrefix` with a prefix that goes on
  behind a key).
- While one thread's scan of an instance is unfinished and another instance
  writes, `put()` and `delete()` of the first raise `sqlite3.OperationalError`, and
  `get()` and `exists()` answer for the moment the scan began (`sqlite.py:275`).
- A late FTP reply left in `_response_buffer` survives `close()` as well
  (`CleanReconnect`, `MaxTimeouts = 1`, `MaxFaults = 0`).
- Two threads that share an FTP instance read each other's replies: nothing
  serialises `_cmd()` (`sync/ftp.py:309`; `ResultsTruthful`, one instance, two
  threads).  `ResultsTruthful` is checked for a thread per instance.
- The asynchronous FTP `close()` connects and logs in to say QUIT, on an instance that
  never connected too, and leaves the connection, which the server then closes, in
  `_conn`: the next call fails (`aio/ftp.py:147`).  A login that is cancelled leaves its connection in `_conn` as
  well, half logged in (`aio/ftp.py:170` catches only `BlobError`).
- On Python 3.10 `asyncio.TimeoutError` is not `TimeoutError`, so the timeouts that
  `aio/ftp.py` catches are not those that `wait_for()` raises there.

Of the file backend, modelled as it is:

- Errors of the operating system reach the caller as they are (`OSError` of the
  model); `docs/faq.md` calls errors normalized across backends.
- `docs/backends/file.md` speaks of the atomicity of the file system for overwrites.
  `write_bytes()` truncates and then writes (`sync/file.py:99`): a reader may get
  nothing, or a part (`ReadsRegular` says what it may get), and a crash leaves a part.
- `exists()` is true of a directory, of which `get()` raises `IsADirectoryError`.
- Nothing calls `fsync()`: what a crash of the host leaves is up to the file system.

## What is proved

Each theorem is for any sets of threads (or clients), keys, payloads and prefixes,
neither of which need be finite where nothing is said.  Each backend has an
inductive invariant `IInv` with the theorem `Invariance == Spec => []IInv`, on which
the others rest (for FTP and files, with further invariants on top of it); every lemma about a step takes one action after the other.

| module | theorem | states |
|---|---|---|
| `MemoryBlobProofs` | `TypeCorrect` | `TypeOK` |
| | `SizeIsExact` | `SizeAccounts` |
| | `LimitsHold` | `LimitsRespected` |
| | `RefusalIsJustified` | `RefusedOnlyWhenFull`, if the empty string is not a key |
| | `Refinement` | `Spec => ImplementsStore` |
| `SQLiteBlobProofs` | `TypeCorrect` | `TypeOK` |
| | `NoneLeaked` | `NoConnectionLeaked` |
| | `Refinement` | `Spec => ImplementsStore`, if each thread has its own instance |
| | `ScanIsFaithful` | `ScanFaithful`, if there is one instance |
| `S3BlobProofs` | `TypeCorrect` | `TypeOK` |
| | `DeleteIsJust` | `DeleteJustified` |
| | `ScanIsFaithful` | `ScanFaithful` |
| | `Refinement` | `Spec => ImplementsRemote` |
| `FTPBlobProofs` | `InSyncBetweenCalls` | `ControlInSync`, without timeouts |
| | `NeverBothWait` | `NoMutualWait`: without timeouts, but for the greeting of a connection after a fault |
| `FTPBlobCallProofs` | `TypeCorrect` | `TypeOK`, without timeouts |
| `FTPBlobTruthProofs` | `ResultsAreTruthful` | `ResultsTruthful`, without timeouts, if what is stored leaves whole and no command is refused with 550 |
| | `ScanListsTheDirectory` | a scan yields the files known to be in the directory it comes down to, without timeouts, if no command is refused with 550 |
| | `NoCallFailsByItself` | `NoSpuriousFailure`, if no directory has a key's name and no asynchronous instance is closed |
| `FileBlobProofs` | `TypeCorrect` | `TypeOK` |
| | `AckedIsKept` | `AckedKept` |
| | `FailsForAReason` | `FailsOnlyOnClash` |
| `FileBlobReadProofs` | `ReadsAreRegular` | `ReadsRegular` |
| | `ScanIsFaithful` | `ScanFaithful` |

The assumptions on the constants are named in the modules that declare them: that
`None` is none of the other values, that payloads have a length and limits are
naturals or absent (memory), that keys are positive numbers (SQLite), that each thread uses an instance,
bounds are naturals, keys and prefixes are paths and no key the root, a torn content and what is
not known are no values, and neither is a listing (FTP), that
the inodes are finite and as many as paths and threads, paths and prefixes are sequences
of names, and no content is `None` (file).  TLC evaluates them in
every run.

**Memory.**  `SizeAccounts` is not inductive: in the middle of `put()` the counter
has moved and the dictionary has not.  The invariant is

    IInv == TypeOK /\ Mutex /\ Calls /\ FiniteData /\ Accounting /\ LimitsRespected

`Mutex`: a thread inside a method holds the lock.  `Calls`: what `call`, `old` and
`ret` are at each line, in particular that `old` is the value still (or until now)
under the key.  `FiniteData`: finitely many keys have a value, as all lengths are
sums.  `Accounting`: the counter is the total plus the difference the thread inside
is about to make, or has made.  `LimitsRespected` must be carried along because
`PutStore` relies on what `_check_limits` found three statements before: that the
put fits (`Calls` keeps it as a fact about `call` and `old`).  The total of a
dictionary is the cardinality of the set of its byte positions (`Slots`), so that
`TotalBytesUpdate`, what one update does to the total, follows from facts on
finite sets without induction.

**SQLite.**

    IInv == TypeOK /\ Mutex /\ (\A t : Placed(t)) /\ Owned /\ ClosedUnread

`Mutex`: who is inside the property or `close()` of an instance holds its lock.
`Owned`: a connection belongs to one instance, and the connection of an instance is
open unless the thread inside `close()` has just closed it; without the clause
about that thread `NoConnectionLeaked` does not survive `close()`.  Two more
invariants rest on it.  `OwnInv`, when each thread has its own instance: a thread
works on the connection its instance has, and a connection has a snapshot exactly
while its scan is unfinished, so that a statement always reads the committed rows; it
carries `Refinement`.  `OneInv`, when there is one instance: snapshots are never
stale, and a scan is `OnCourse`, that is, what it has yielded and would yield if no one
wrote any more lies between what was there always and what was there ever.  That
is what remains true at every commit of another thread, and gives `ScanFaithful` at
the end.  With several instances and several threads on one of them it is false:
a second scan on a connection begins on the snapshot of the first.  The
implementation of the contract by threads that share an instance is false too
(`sqlite_rowcount`).

**S3.**  The invariant says, for each call in progress, what its request, its
response and the page under way have to do with the bucket: what was found at HEAD
was there at an instant of the call, what a page says is true of an instant since the
scan began, what earlier pages have yielded covers all that stayed up to the token;
and that a request given up by a put or delete has left its mark in `loose`, so
that whatever it does later the contract allows.

**FTP.**  The theorems are for any mix of the two variants in which each thread has an
instance of its own (`Own`; two that share one are out of step at once), any
features, keys and values, and any number of refusals, aborts, drops (with a 421, inside a
line, or without a word) and failed connects.  They also assume that `None` is no record, which TLC cannot evaluate.
The invariant `IInv` says that until the first timeout or cancellation every thread is
`InStep`: for each place in the dialogue, how far the two ends of the connection can be
apart.  At rest both directions are empty; after a command it is with the
server, or one reply to it is under way, or the connection is gone; after a
transfer command there can be two replies, the first of which says that the transfer
began; while data moves the server is in the transfer of that command, on the port the
client dialled (which is why `PASV` comes into it), or has sent the one reply that
ends it.  A server in a transfer waits for the client only if it stores data from a
connection still open, and `put()` has closed it before it reads the reply:
that gives `NoMutualWait`, and with it that no timeout happens unless the model is
allowed one (`MaxTimeouts`), but for one place: the greeting of a connection may be lost in
what the last one left behind, and then client and server do wait for each other.
`AllTrail` says where something may be left at all: never while an open connection
is past its greeting, so that what is left is met by the next greeting, whose login then fails
or, by luck, succeeds, but in either case with the two ends in step.

Three more invariants rest on it, each inductive next to those before it.

    CInv == faults \in 0 .. MaxFaults /\ (timeouts = 0 => AllFit)
    TInv == timeouts = 0 => AllTrue
    FInv == faults = 0 /\ timeouts = 0 => AllSmooth

`AllFit` ties what is exchanged to the call: a thread sends the commands of its operation
with the arguments of its request (`Prepares`, `Moves`), what is left of its path is an end of
the path (`Suffix`), only its own data connection is connected or holds what came
(`Carries`), the server's transfer is the one it asked for (`Serving`), and until that is over
its end of the data connection stays open (`Holds`).  `TypeCorrect` follows.  It is for
executions without timeouts because after one a get() may read the reply, and then the
data, of a LIST.

`AllTrue` says what the exchange tells of a key that the call is alone on and of which
the finished calls tell something (`Sure`).  The file holds what they tell
(`Unchanged`, `KnownTrue`), unless the server has dealt with the call's own DELE: then the
reply under way says which it was (`Deleted`).  A reply not yet acted on is true
(`Said`); a transfer carries the content of the key, or a listing that shows the key, or
the directory on the way to it (`Carried`, `Brings`, `Tells`); and a 226 is under
way only when the data is complete and, for a put(), its file is stored
(`Completes`, `Completed`).  A call that lists has come down to a directory with the
name of its key only where no file has that name (`Bottom`), as directories and files are a
tree (`Tree`).  `AllLeaves` is the hypothesis of `ResultsAreTruthful`: all of the data
leaves before the data connection is shut down, which holds of the synchronous
variant, and of the asynchronous one for values that fit in its buffers; run `ftp_aio_put`
shows that without it the theorem is false.  Without timeouts is needed too: run
`ftp_timeouts` shows why; and so is `Unambiguous`, that 550 is not among `Refusals` (see
above).  `ListsDirectory`, the property of `ScanListsTheDirectory`, is what remains of
`ScanYieldsPrefix` with the code as it is: of the entries of the one directory listed none is lost.

`AllSmooth` says that every reply under way is one its reader goes on with (`Favoured`), and
that what it goes on with is there: the port it dials listens, a user let in is logged in,
and a `MKD` answered 550 named a directory that exists already, made by another client
between the two (`Made` keeps the parents that a put() has passed, as no directory ever goes).
It needs `Tree` and the arguments of the commands from the invariants before it: that the
parents are there when `STOR` comes, and that no file is in the way.  Two
hypotheses of `NoCallFailsByItself` say where a call does fail by itself: `Distinct`, as a
put() below a file, or to the name of a directory, is refused with 550; and `ClosesClean`, as the
asynchronous `close()` leaves a connection on which the next call fails.

**File.**  The invariant knows the path each thread works on and the directories it
has yet to make (`Placed`, `MakesAbove`), that an inode has one path (`OnePath`), and of
the undisturbed writer that no other thread clashes (`NoClash`), that its file is empty
until it writes (`EmptyBeforeWrite`, which is why the bytes of another value cannot remain behind
its own), and that meanwhile nothing is claimed of the file (`UnknownMeanwhile`).
`AckedKept` needs all of them.

Readers rest on a second invariant, inductive next to the first:

    RInv == Tree /\ (\A t : ParentFirst(t) /\ Noted(t) /\ Covered(t)) /\ ReadsRegular /\ ScanFaithful

`Tree`: no path is both file and directory, and all above either is a directory; it
holds because `mkdir()` makes the parent last and no directory ever goes
(`ParentFirst`).  `Noted`: a reader in its call has noted the present content of its
file, the values being written to it, and the content of the inode it has open, which may
have lost its path since.  `Covered`: a scan has noted the files, and each that has
been there all the time is yielded, listed, or below a directory that is yet to be listed,
which `Tree` makes a directory when it is come to.

Only model-checked: liveness (fairness and ENABLED are out of the prover's reach), and
what FTP calls do after a timeout or a cancellation.

## Not modelled

- URL parsing, the loader, table name quoting, request signing, XML: conversions
  without state.
- SQLite: keys that contain U+10FFFF right after the scanned prefix (the bound of
  the range query excludes them); a crash of the host, after which WAL mode with
  `synchronous=NORMAL` (`sqlite.py:145`) may lack the last commits.
- FTP: two threads that connect one instance at the same moment; commands the
  server executes after the client hung up; the syntax of replies and of MLSD or
  LIST lines (a listing is a set of entries; content read in place of a listing
  names no key); TLS.
- SQLite next to a third thread: that an unfinished scan keeps its instance from
  writing after another instance has is in the model (`behind`), but not in a run.
- File: symbolic links, permissions, a full disk, `write()` in several calls (a part may be
  read or left at any time: `Torn`), Windows.
- S3: the key `""`, which addresses the bucket itself or the object named as the
  bucket prefix; names outside the bucket prefix; versioned or eventually
  consistent buckets; a bucket that is deleted (its 404 is that of a missing object).
- FTP: lines of a listing that the parsers reject (`common/ftp.py:122`), which raise
  `BlobError` in the code.
- Cancellation of the asynchronous S3 backend: a request given up is in the model, the
  exception its caller gets is not.

## Plan

1. `BlobStore`, `MemoryBlob`: modelled and proved.
2. `SQLiteBlob` with the wrapper: modelled; safety proved.  Next: a run with three threads
   on two instances (`behind`).
3. `RemoteStore`, `S3Blob`: modelled; safety proved.
4. `FileBlob` with crashes and cancellation: modelled; safety proved.
5. `FTPBlob`, both variants: modelled; proved to stay in step, to answer truthfully and
   not to fail without cause, all without timeouts.  Next: what of it survives a first timeout.
