------------------------------- MODULE FileBlob -------------------------------
(***************************************************************************)
(* The file backend (src/gufo/blob/sync/file.py) on a local filesystem,    *)
(* and its asynchronous wrapper (src/gufo/blob/aio/_wrapper.py).           *)
(*                                                                         *)
(* An instance keeps nothing but its root directory, so threads of one     *)
(* instance, of several and of several processes meet in the filesystem    *)
(* only.  A system call is one step.  put() makes the parent directories,  *)
(* opens the file, which truncates it, and writes it; get() opens and then *)
(* reads; scan() lists one directory at a time and looks at each entry.    *)
(* No lock and no temporary file orders these steps.                       *)
(*                                                                         *)
(* A process may crash between two of its steps.  A task that awaits       *)
(* to_thread() may be cancelled: it is told so at once, and the thread     *)
(* carries the call to its end.                                            *)
(*                                                                         *)
(* Not modelled: symbolic links, permissions, a full disk, and a crash of  *)
(* the host (what it leaves is up to the filesystem: nothing calls fsync). *)
(*                                                                         *)
(* A file or directory is a path, the sequence of names below the root.    *)
(***************************************************************************)
EXTENDS Naturals, Sequences, FiniteSets

CONSTANTS
    Threads,
    Names,       \* keys as callers write them
    Resolve,     \* Resolve[n]: the path key n stands for, or None if it is refused
    Prefixes,    \* paths to scan, and None for a prefix that is refused
    Values,
    Calls,       \* Calls[t]: the requests thread t makes
    Inodes,      \* numbers of files: those at a path, and those only open
    Empty,       \* the content of a file of no bytes
    Torn,        \* a content no put() was called with
    Unknown,     \* what no caller can know
    None

VARIABLES
    entry,      \* entry[p]: the inode of the file at path p, or None
    dirs,       \* directories below the root
    content,    \* content[i]: the bytes of inode i
    th,         \* th[t]: where thread t is
    call, ret,
    known,      \* known[p]: what the finished calls tell about path p
    alone,      \* alone[t]: no other call that changes t's path overlaps t's
    seen        \* seen[t]: what was there to be read during t's call

files == <<entry, dirs, content>>
callers == <<call, ret, known, alone>>
vars == <<files, th, callers, seen>>

Paths == {Resolve[n] : n \in Names} \ {None}
Prefix(p, i) == SubSeq(p, 1, i)
Parent(p) == Prefix(p, Len(p) - 1)
Above(p) == {Prefix(p, i) : i \in 1 .. Len(p) - 1}
AllDirs == UNION {Above(p) : p \in Paths}
Below(b) == {p \in Paths : b # None /\ Len(b) <= Len(p) /\ Prefix(p, Len(b)) = b}
Contents == Values \cup {Empty, Torn}

Store == INSTANCE BlobStore WITH
    Clients <- Threads, Keys <- Names, store <- entry,
    Under <- [b \in Prefixes |-> {n \in Names : Resolve[n] \in Below(b)}]

\* An exception of the operating system, as it is.
OSError == [raised |-> "OSError"]
Cancelled == [raised |-> "CancelledError"]
Outcomes ==
    Store!Outcomes \cup [value : Contents] \cup [keys : SUBSET Paths] \cup {OSError, Cancelled}

ASSUME PathsAssumption ==
    /\ \A p \in Paths : p \in Seq(STRING) /\ p # <<>>
    /\ Prefixes \ {None} \subseteq Seq(STRING)
ASSUME ValuesAssumption == {Torn, Unknown, None} \cap Values = {} /\ None \notin {Empty, Torn}
ASSUME CallsAssumption == Calls \in [Threads -> SUBSET Store!Requests]
ASSUME InodesAssumption ==
    /\ IsFiniteSet(Paths) /\ IsFiniteSet(Threads) /\ IsFiniteSet(Inodes)
    /\ Cardinality(Inodes) >= Cardinality(Paths) + Cardinality(Threads)
ASSUME NoneAssumption == None \notin Inodes \cup Store!Requests \cup Outcomes

-----------------------------------------------------------------------------
(* What the filesystem says of a path. *)

IsFile(p) == p \in Paths /\ entry[p] # None
IsDir(p) == p = <<>> \/ p \in dirs
Blocked(p) == \E q \in Above(p) : IsFile(q)       \* ENOTDIR
Missing(p) == ~ IsFile(p) /\ ~ IsDir(p) /\ ~ Blocked(p)

ContentIn(e, c, p) == IF e[p] = None THEN None ELSE c[e[p]]
Content(p) == ContentIn(entry, content, p)

Children(d) == {p \in Paths \cup AllDirs : (IsFile(p) \/ IsDir(p)) /\ Parent(p) = d}

InUse == {entry[p] : p \in Paths} \cup {th[t].fd : t \in Threads}

\* A file that has lost its last path and its last opener is freed.
Kept(c) == [i \in Inodes |-> IF i \in InUse' THEN c[i] ELSE Empty]
Unused == CHOOSE i \in Inodes : i \notin InUse

-----------------------------------------------------------------------------

Outside ==
    [pc |-> "idle",
     fd |-> None,       \* the inode open for reading or writing
     make |-> <<>>,     \* directories mkdir() has yet to make
     list |-> {},       \* directories rglob() has yet to list
     left |-> {},       \* entries listed and not looked at yet
     got |-> {}]        \* paths yielded

Init ==
    /\ entry = [p \in Paths |-> None]
    /\ dirs = {}
    /\ content = [i \in Inodes |-> Empty]
    /\ th = [t \in Threads |-> Outside]
    /\ call = [t \in Threads |-> None]
    /\ ret = [t \in Threads |-> None]
    /\ known = [p \in Paths |-> None]
    /\ alone = [t \in Threads |-> TRUE]
    /\ seen = [t \in Threads |-> None]

Mutates(q) == q # None /\ q.op \in {"put", "delete"} /\ Resolve[q.key] # None
Clash(q, r) == Mutates(q) /\ Mutates(r) /\ Resolve[q.key] = Resolve[r.key]

\* The path of thread t's call, which is not a scan.
Path(t) == Resolve[call[t].key]

Continues(t, r) == th' = [th EXCEPT ![t] = r] /\ UNCHANGED callers
Goes(t, pc) == Continues(t, [th[t] EXCEPT !.pc = pc])

\* The thread is through, whether or not anyone still waits for its result.
Finish(t, o) ==
    /\ th' = [th EXCEPT ![t] = [Outside EXCEPT !.pc = "done"]]
    /\ ret' = [ret EXCEPT ![t] = IF @ = Cancelled THEN @ ELSE o]
    /\ known' = IF Mutates(call[t]) /\ alone[t] /\ o \in {Store!Done, Store!KeyError}
                THEN [known EXCEPT ![Path(t)] = IF call[t].op = "put" THEN call[t].data ELSE None]
                ELSE known
    /\ UNCHANGED <<call, alone>>

Doing(t, op, pc) == th[t].pc = pc /\ call[t].op = op

-----------------------------------------------------------------------------
(* put() *)

\* parent.mkdir(parents=True, exist_ok=True): a directory whose parent is
\* missing waits until the parent is made.
MakeNext(t) == Head(th[t].make)

MakeDone(t) ==
    LET rest == Tail(th[t].make) IN
    Continues(t, [th[t] EXCEPT !.make = rest, !.pc = IF rest = <<>> THEN "open" ELSE "mkdir"])

\* Mutant: without exist_ok mkdir() fails on a directory that is there.
MakeDirOnce(t) ==
    /\ Doing(t, "put", "mkdir")
    /\ \/ /\ MakeNext(t) = <<>>
          /\ MakeDone(t)
          /\ UNCHANGED dirs
       \/ /\ MakeNext(t) # <<>> /\ ~ Missing(MakeNext(t))
          /\ Finish(t, OSError)
          /\ UNCHANGED dirs
       \/ /\ Missing(MakeNext(t)) /\ ~ IsDir(Parent(MakeNext(t)))
          /\ Continues(t, [th[t] EXCEPT !.make = <<Parent(MakeNext(t))>> \o @])
          /\ UNCHANGED dirs
       \/ /\ Missing(MakeNext(t)) /\ IsDir(Parent(MakeNext(t)))
          /\ dirs' = dirs \cup {MakeNext(t)}
          /\ MakeDone(t)
    /\ UNCHANGED <<entry, content>>

MakeDir(t) ==
    /\ Doing(t, "put", "mkdir")
    /\ \/ /\ IsDir(MakeNext(t))
          /\ MakeDone(t)
          /\ UNCHANGED dirs
       \/ /\ IsFile(MakeNext(t)) \/ Blocked(MakeNext(t))
          /\ Finish(t, OSError)
          /\ UNCHANGED dirs
       \/ /\ Missing(MakeNext(t)) /\ ~ IsDir(Parent(MakeNext(t)))
          /\ Continues(t, [th[t] EXCEPT !.make = <<Parent(MakeNext(t))>> \o @])
          /\ UNCHANGED dirs
       \/ /\ Missing(MakeNext(t)) /\ IsDir(Parent(MakeNext(t)))
          /\ dirs' = dirs \cup {MakeNext(t)}
          /\ MakeDone(t)
    /\ UNCHANGED <<entry, content>>

Opened(t, i) == Continues(t, [th[t] EXCEPT !.pc = "write", !.fd = i])

\* Mutant: open() does not truncate.
OpenWithoutTruncating(t) ==
    /\ Doing(t, "put", "open")
    /\ IF IsFile(Path(t)) THEN Opened(t, entry[Path(t)]) /\ UNCHANGED <<entry, content>>
       ELSE /\ Missing(Path(t))
            /\ entry' = [entry EXCEPT ![Path(t)] = Unused]
            /\ content' = [content EXCEPT ![Unused] = Empty]
            /\ Opened(t, Unused)
    /\ UNCHANGED dirs

\* Mutant: put() tries again when the file cannot be opened.
OpenAgain(t) ==
    /\ Doing(t, "put", "open")
    /\ IF IsDir(Path(t)) \/ Blocked(Path(t))
       THEN Continues(t, th[t]) /\ UNCHANGED <<entry, content>>
       ELSE LET i == IF IsFile(Path(t)) THEN entry[Path(t)] ELSE Unused IN
            /\ entry' = [entry EXCEPT ![Path(t)] = i]
            /\ content' = [content EXCEPT ![i] = Empty]
            /\ Opened(t, i)
    /\ UNCHANGED dirs

\* open("wb"): an existing file is truncated, a missing one is made.
OpenToWrite(t) ==
    /\ Doing(t, "put", "open")
    /\ \/ /\ IsFile(Path(t))
          /\ content' = [content EXCEPT ![entry[Path(t)]] = Empty]
          /\ Opened(t, entry[Path(t)])
          /\ UNCHANGED entry
       \/ /\ Missing(Path(t))
          /\ entry' = [entry EXCEPT ![Path(t)] = Unused]
          /\ content' = [content EXCEPT ![Unused] = Empty]
          /\ Opened(t, Unused)
       \/ /\ IsDir(Path(t)) \/ Blocked(Path(t))
          /\ Finish(t, OSError)
          /\ UNCHANGED <<entry, content>>
    /\ UNCHANGED dirs

\* Bytes written from the start of the file over what another put() wrote
\* since: where the new value is shorter, the end of the other remains.
Over(old, v) == IF old \in {Empty, v} THEN {v} ELSE {v, Torn}

Write(t) ==
    /\ Doing(t, "put", "write")
    /\ Finish(t, Store!Done)
    /\ UNCHANGED <<entry, dirs>>
    /\ \E c \in Over(content[th[t].fd], call[t].data) :
          content' = Kept([content EXCEPT ![th[t].fd] = c])

-----------------------------------------------------------------------------
(* get(), delete(), exists() *)

OpenToRead(t) ==
    /\ Doing(t, "get", "open")
    /\ \/ /\ IsFile(Path(t))
          /\ Continues(t, [th[t] EXCEPT !.pc = "read", !.fd = entry[Path(t)]])
       \/ /\ Missing(Path(t))
          /\ Finish(t, Store!KeyError)
       \/ /\ IsDir(Path(t)) \/ Blocked(Path(t))
          /\ Finish(t, OSError)
    /\ UNCHANGED files

\* A file that is being written may be read in part.
Read(t) ==
    /\ Doing(t, "get", "read")
    /\ \E c \in {content[th[t].fd]}
            \cup {Torn : u \in {u \in Threads : th[u].pc = "write" /\ th[u].fd = th[t].fd}} :
          Finish(t, [value |-> c])
    /\ UNCHANGED <<entry, dirs>>
    /\ content' = Kept(content)

\* Mutant: unlink(missing_ok=True).
UnlinkSilently(t) ==
    /\ Doing(t, "delete", "unlink")
    /\ ~ IsDir(Path(t)) /\ ~ Blocked(Path(t))
    /\ entry' = [entry EXCEPT ![Path(t)] = None]
    /\ Finish(t, Store!Done)
    /\ UNCHANGED <<dirs, content>>

Unlink(t) ==
    /\ Doing(t, "delete", "unlink")
    /\ \/ /\ IsFile(Path(t))
          /\ entry' = [entry EXCEPT ![Path(t)] = None]
          /\ Finish(t, Store!Done)
       \/ /\ Missing(Path(t))
          /\ Finish(t, Store!KeyError)
          /\ UNCHANGED entry
       \/ /\ IsDir(Path(t)) \/ Blocked(Path(t))
          /\ Finish(t, OSError)
          /\ UNCHANGED entry
    /\ UNCHANGED dirs
    /\ content' = Kept(content)

\* True of a directory too.
Stat(t) ==
    /\ Doing(t, "exists", "stat")
    /\ Finish(t, [found |-> IsFile(Path(t)) \/ IsDir(Path(t))])
    /\ UNCHANGED files

-----------------------------------------------------------------------------
(* scan() *)

Base(t) == call[t].prefix

ScanExists(t) ==
    /\ Doing(t, "scan", "base")
    /\ IF IsFile(Base(t)) \/ IsDir(Base(t)) THEN Goes(t, "isfile") ELSE Finish(t, [keys |-> {}])
    /\ UNCHANGED files

ScanBase(t) ==
    /\ Doing(t, "scan", "isfile")
    /\ IF IsFile(Base(t)) THEN Finish(t, [keys |-> {Base(t)}])
       ELSE Continues(t, [th[t] EXCEPT !.pc = "list", !.list = {Base(t)}])
    /\ UNCHANGED files

\* The next directory, or the end.
ScanList(t) ==
    /\ Doing(t, "scan", "list")
    /\ th[t].left = {}
    /\ \/ th[t].list = {} /\ Finish(t, [keys |-> th[t].got])
       \/ \E d \in th[t].list :
             Continues(t, [th[t] EXCEPT !.list = @ \ {d}, !.left = IF IsDir(d) THEN Children(d) ELSE {}])
    /\ UNCHANGED files

\* Mutant: rglob() for glob(): directories are not descended into.
ScanEntryFlat(t) ==
    /\ Doing(t, "scan", "list")
    /\ \E e \in th[t].left :
          Continues(t, [th[t] EXCEPT !.left = @ \ {e}, !.got = IF IsFile(e) THEN @ \cup {e} ELSE @])
    /\ UNCHANGED files

\* Mutant: whatever is listed is yielded, is_file() is not asked.
ScanEntryAny(t) ==
    /\ Doing(t, "scan", "list")
    /\ \E e \in th[t].left :
          Continues(t, [th[t] EXCEPT
              !.left = @ \ {e},
              !.got = @ \cup {e},
              !.list = IF IsDir(e) THEN @ \cup {e} ELSE @])
    /\ UNCHANGED files

\* An entry: a file is yielded, a directory will be listed.
ScanEntry(t) ==
    /\ Doing(t, "scan", "list")
    /\ \E e \in th[t].left :
          Continues(t, [th[t] EXCEPT
              !.left = @ \ {e},
              !.got = IF IsFile(e) THEN @ \cup {e} ELSE @,
              !.list = IF IsDir(e) THEN @ \cup {e} ELSE @])
    /\ UNCHANGED files

-----------------------------------------------------------------------------
(* Calls. *)

Target(q) == IF q.op = "scan" THEN q.prefix ELSE Resolve[q.key]

\* _resolve() refuses the key or the prefix, or the operation starts.
Starts(q) ==
    IF Target(q) = None THEN [Outside EXCEPT !.pc = "refused"]
    ELSE CASE q.op = "scan"   -> [Outside EXCEPT !.pc = "base"]
           [] q.op = "put"    -> [Outside EXCEPT !.pc = "mkdir", !.make = <<Parent(Resolve[q.key])>>]
           [] q.op = "get"    -> [Outside EXCEPT !.pc = "open"]
           [] q.op = "delete" -> [Outside EXCEPT !.pc = "unlink"]
           [] q.op = "exists" -> [Outside EXCEPT !.pc = "stat"]

Invoke(t) ==
    /\ th[t].pc = "idle"
    /\ \E q \in Calls[t] :
          /\ call' = [call EXCEPT ![t] = q]
          /\ th' = [th EXCEPT ![t] = Starts(q)]
          /\ known' = IF Mutates(q) THEN [known EXCEPT ![Resolve[q.key]] = Unknown] ELSE known
          /\ alone' = [u \in Threads |->
                IF u = t THEN ~ \E w \in Threads \ {t} : Clash(q, call[w])
                ELSE alone[u] /\ ~ Clash(q, call[u])]
    /\ UNCHANGED <<files, ret>>

Refuse(t) ==
    /\ th[t].pc = "refused"
    /\ Finish(t, Store!BlobError)
    /\ UNCHANGED files

Forget(t) ==
    /\ th' = [th EXCEPT ![t] = Outside]
    /\ call' = [call EXCEPT ![t] = None]
    /\ ret' = [ret EXCEPT ![t] = None]
    /\ alone' = [alone EXCEPT ![t] = TRUE]
    /\ UNCHANGED known

Return(t) ==
    /\ th[t].pc = "done"
    /\ Forget(t)
    /\ UNCHANGED files

Underway(t) == th[t].pc \notin {"idle", "done"}

\* The process of t dies; of what it was writing a part may be in the file.
Crash(t) ==
    /\ Underway(t)
    /\ Forget(t)
    /\ UNCHANGED <<entry, dirs>>
    /\ \/ content' = Kept(content)
       \/ th[t].pc = "write" /\ content' = Kept([content EXCEPT ![th[t].fd] = Torn])

\* The task that awaits the call is cancelled, the thread goes on.
Cancel(t) ==
    /\ Underway(t) /\ ret[t] = None
    /\ ret' = [ret EXCEPT ![t] = Cancelled]
    /\ UNCHANGED <<files, th, call, known, alone>>

\* What there is to be read in the next state: for a scan, the files that are
\* there still, and all that have been; for the rest, contents of the file.
Observe ==
    LET now == {p \in Paths : entry'[p] # None}
        at(p) == {ContentIn(entry', content', p)} \cup
            UNION {{Torn, call'[u].data} :
                u \in {u \in Threads : th'[u].pc = "write" /\ Resolve[call'[u].key] = p}}
    IN
    seen' = [t \in Threads |->
        IF call'[t] = None \/ th'[t].pc = "refused" THEN None
        ELSE IF th'[t].pc = "done" \/ call'[t].op = "put" THEN seen[t]
        ELSE IF call'[t].op = "scan"
        THEN IF th[t].pc = "idle" THEN [always |-> now, ever |-> now]
             ELSE [always |-> seen[t].always \cap now, ever |-> seen[t].ever \cup now]
        ELSE (IF th[t].pc = "idle" THEN {} ELSE seen[t]) \cup at(Resolve[call'[t].key])]

Step(t) ==
    \/ Refuse(t) \/ MakeDir(t) \/ OpenToWrite(t) \/ Write(t) \/ OpenToRead(t) \/ Read(t)
    \/ Unlink(t) \/ Stat(t) \/ ScanExists(t) \/ ScanBase(t) \/ ScanList(t) \/ ScanEntry(t)

Next ==
    /\ \E t \in Threads : Invoke(t) \/ Step(t) \/ Return(t) \/ Crash(t) \/ Cancel(t)
    /\ Observe

Spec == Init /\ [][Next]_vars

\* The operating system runs every thread that is in a call.
FairSpec == Spec /\ \A t \in Threads : WF_vars(Step(t) /\ Observe)

-----------------------------------------------------------------------------

TypeOK ==
    /\ entry \in [Paths -> Inodes \cup {None}]
    /\ dirs \subseteq AllDirs
    /\ content \in [Inodes -> Contents]
    /\ th \in [Threads ->
          [pc : {"idle", "refused", "mkdir", "open", "write", "read", "unlink", "stat",
                 "base", "isfile", "list", "done"},
           fd : Inodes \cup {None}, make : Seq(AllDirs \cup {<<>>}),
           list : SUBSET (AllDirs \cup (Prefixes \ {None})), left : SUBSET (Paths \cup AllDirs),
           got : SUBSET Paths]]
    /\ call \in [Threads -> Store!Requests \cup {None}]
    /\ ret \in [Threads -> Outcomes \cup {None}]
    /\ known \in [Paths -> Values \cup {Unknown, None}]
    /\ alone \in [Threads -> BOOLEAN]

(***************************************************************************)
(* What an undisturbed put() has stored stays, and what an undisturbed     *)
(* delete() has removed stays away, until another call for the same file   *)
(* starts: whatever is done meanwhile to other keys, above, below or next  *)
(* to it, whoever crashes, and whichever cancelled calls are still         *)
(* running.  (Undisturbed: no other call that changes the file overlaps    *)
(* it, a cancelled one lasting as long as its thread.)                     *)
(***************************************************************************)
AckedKept == \A p \in Paths : known[p] # Unknown => Content(p) = known[p]

(***************************************************************************)
(* A reader is told something that was true while it asked: a value that   *)
(* was in the file, or in part, at some moment of the call, or that the    *)
(* file was missing at one.  It is the guarantee of a regular register,    *)
(* and all there is: while a put() is under way a reader may see the file  *)
(* empty or in part (file.py:99).                                          *)
(***************************************************************************)
ReadsRegular ==
    \A t \in Threads : th[t].pc = "done" /\ ret[t] # Cancelled =>
        LET o == ret[t] IN
        /\ call[t].op = "get" /\ o \notin {OSError, Store!BlobError} =>
              IF o = Store!KeyError THEN None \in seen[t] ELSE o.value \in seen[t]
        /\ call[t].op = "exists" /\ o # Store!BlobError =>
              IF o.found THEN seen[t] # {None} \/ IsDir(Path(t)) ELSE None \in seen[t]
        /\ call[t].op = "delete" =>
              /\ o = Store!Done => seen[t] # {None}
              /\ o = Store!KeyError => None \in seen[t]

(***************************************************************************)
(* scan(prefix) yields every file under the prefix that was there all the  *)
(* time, and none that never was, though directories are listed one after  *)
(* the other and files come and go meanwhile.                              *)
(***************************************************************************)
ScanFaithful ==
    \A t \in Threads : th[t].pc = "done" /\ call[t].op = "scan" /\ ret[t] \notin {Cancelled, Store!BlobError} =>
        /\ seen[t].always \cap Below(call[t].prefix) \subseteq ret[t].keys
        /\ ret[t].keys \subseteq seen[t].ever \cap Below(call[t].prefix)

(***************************************************************************)
(* A call fails with an exception of the operating system only when, at    *)
(* that moment, its key names a directory or passes through a file: two    *)
(* puts that race to make the same parents do not disturb each other, and  *)
(* nothing else that others do makes a call fail.                          *)
(***************************************************************************)
FailsOnlyOnClash ==
    [][\A t \in Threads :
          ret'[t] = OSError /\ ret[t] = None => IsDir(Path(t)) \/ Blocked(Path(t))]_vars

(***************************************************************************)
(* Every call returns: the loops that make parents and that walk the tree  *)
(* end, though others add to the tree meanwhile.                           *)
(***************************************************************************)
EveryCallReturns == \A t \in Threads : Underway(t) ~> ~ Underway(t)
=============================================================================
