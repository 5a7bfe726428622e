---------------------------- MODULE FileBlobProofs ----------------------------
(***************************************************************************)
(* FileBlob for every number of threads, every set of paths and payloads:  *)
(* what an undisturbed call has acknowledged is kept, whoever else works   *)
(* on the tree, crashes or is cancelled; and a call fails with an error of *)
(* the operating system only on a clash of its key with the tree.          *)
(***************************************************************************)
EXTENDS FileBlob, FiniteSetTheorems, SequenceTheorems, TLAPS

Requests == Store!Requests

-----------------------------------------------------------------------------
(* The inductive invariant. *)

OpAt(pc) ==
    CASE pc = "mkdir"  -> {"put"}
      [] pc = "open"   -> {"put", "get"}
      [] pc = "write"  -> {"put"}
      [] pc = "read"   -> {"get"}
      [] pc = "unlink" -> {"delete"}
      [] pc = "stat"   -> {"exists"}
      [] pc \in {"base", "isfile", "list"} -> {"scan"}
      [] OTHER         -> {"put", "get", "delete", "exists", "scan"}

\* A thread in a call is at a line of its operation, with a path to work on.
Placed(t) ==
    /\ th[t].pc = "idle" <=> call[t] = None
    /\ th[t].pc # "idle" => call[t].op \in OpAt(th[t].pc)
    /\ th[t].pc \in {"mkdir", "open", "write", "read", "unlink", "stat"} => Path(t) \in Paths
    /\ th[t].pc \in {"base", "isfile", "list"} => call[t].prefix # None
    /\ th[t].pc = "refused" => ~ Mutates(call[t])
    /\ th[t].fd # None <=> th[t].pc \in {"write", "read"}

\* mkdir() has only directories above the path to make.
MakesAbove(t) ==
    th[t].pc = "mkdir" => th[t].make # <<>> /\ th[t].make \in Seq(Above(Path(t)) \cup {<<>>})

\* A file has one path, and who has it open opened it by that path.
OnePath ==
    /\ \A p, q \in Paths : entry[p] = entry[q] /\ entry[p] # None => p = q
    /\ \A t \in Threads, p \in Paths : entry[p] = th[t].fd /\ entry[p] # None => p = Path(t)
    /\ \A t, u \in Threads : th[t].fd = th[u].fd /\ th[t].fd # None => Path(t) = Path(u)

\* A call that is alone clashes with none.
NoClash == \A t, u \in Threads : alone[t] /\ t # u => ~ Clash(call[t], call[u])

\* Between open() and write() of a put() that is alone the file is there, and empty.
EmptyBeforeWrite ==
    \A t \in Threads : alone[t] /\ th[t].pc = "write" =>
        entry[Path(t)] = th[t].fd /\ content[th[t].fd] = Empty

\* While a call changes a file nothing is known of it.
UnknownMeanwhile ==
    \A t \in Threads : Mutates(call[t]) /\ th[t].pc # "done" => known[Path(t)] = Unknown

IInv ==
    /\ TypeOK
    /\ \A t \in Threads : Placed(t) /\ MakesAbove(t)
    /\ OnePath /\ NoClash /\ EmptyBeforeWrite /\ UnknownMeanwhile
    /\ AckedKept

-----------------------------------------------------------------------------
(* Lemmas about paths and inodes. *)

\* A prefix of a prefix is a prefix.
LEMMA PrefixOfPrefix ==
    ASSUME NEW p \in Seq(STRING), NEW i \in 1 .. Len(p)
    PROVE  /\ Prefix(p, i) \in Seq(STRING) /\ Len(Prefix(p, i)) = i
           /\ \A j \in 1 .. i : Prefix(Prefix(p, i), j) = Prefix(p, j)
<1>1. Len(p) \in Nat /\ \A k \in 1 .. Len(p) : p[k] \in STRING
  BY LenProperties, ElementOfSeq
<1>2. Prefix(p, i) \in Seq(STRING) /\ Len(Prefix(p, i)) = i
  BY <1>1, SubSeqProperties DEF Prefix
<1>3. ASSUME NEW j \in 1 .. i PROVE Prefix(Prefix(p, i), j) = Prefix(p, j)
  BY <1>1, <1>2, SubSeqOfSubSeq DEF Prefix
<1> QED
  BY <1>2, <1>3

\* The parent of a path is one of the directories above it, or the root.
LEMMA ParentAbove ==
    ASSUME NEW p \in Seq(STRING), p # <<>>
    PROVE  Parent(p) \in Above(p) \cup {<<>>}
<1>1. Len(p) \in Nat /\ Len(p) # 0
  BY LenProperties, EmptySeq
<1>2. CASE Len(p) = 1
  <2>1. Parent(p) = <<>>
    BY <1>2, SubSeqEmpty DEF Parent, Prefix
  <2> QED
    BY <2>1
<1>3. CASE Len(p) # 1
  BY <1>1, <1>3 DEF Parent, Above
<1> QED
  BY <1>2, <1>3

\* What is above a directory above a path is above the path.
LEMMA AboveForms ==
    ASSUME NEW p \in Paths, NEW d \in Above(p)
    PROVE  /\ d \in Seq(STRING) /\ d # <<>>
           /\ Above(d) \subseteq Above(p)
           /\ Parent(d) \in Above(p) \cup {<<>>}
<1>1. p \in Seq(STRING) /\ Len(p) \in Nat
  BY PathsAssumption, LenProperties
<1>2. PICK i \in 1 .. Len(p) - 1 : d = Prefix(p, i)
  BY DEF Above
<1>3. i \in 1 .. Len(p)
  BY <1>1
<1>4. d \in Seq(STRING) /\ Len(d) = i /\ \A j \in 1 .. i : Prefix(d, j) = Prefix(p, j)
  BY <1>1, <1>2, <1>3, PrefixOfPrefix
<1>5. d # <<>>
  BY <1>4, EmptySeq
<1>6. Above(d) \subseteq Above(p)
  BY <1>1, <1>4 DEF Above
<1>7. Parent(d) \in Above(d) \cup {<<>>}
  BY <1>4, <1>5, ParentAbove
<1> QED
  BY <1>4, <1>5, <1>6, <1>7

\* The root is no path and no directory below the root.
LEMMA RootApart == <<>> \notin Paths /\ <<>> \notin AllDirs
<1>1. \A p \in Paths : <<>> \notin Above(p)
  BY AboveForms
<1> QED
  BY <1>1, PathsAssumption DEF AllDirs

\* A set of images has no more members than there are arguments.
LEMMA ImageSize ==
    ASSUME NEW S, IsFiniteSet(S), NEW f, f = [x \in S |-> f[x]]
    PROVE  LET T == {f[x] : x \in S}
           IN  IsFiniteSet(T) /\ Cardinality(T) <= Cardinality(S)
<1> DEFINE T == {f[x] : x \in S}
<1>1. f \in [S -> T]
  OBVIOUS
<1>2. f \in Surjection(S, T)
  BY <1>1 DEF Surjection
<1> QED
  BY <1>2, FS_Surjection

\* There is a free inode for a thread that makes a file: it has none open
\* yet, and the path has none.
LEMMA FreeInode ==
    ASSUME TypeOK, NEW t \in Threads, th[t].fd = None, NEW p \in Paths, entry[p] = None
    PROVE  Unused \in Inodes /\ Unused \notin InUse
<1> DEFINE A == {entry[q] : q \in Paths}
           fds == [u \in Threads |-> th[u].fd]
           B == {fds[u] : u \in Threads}
           S == Inodes \cup {None}
<1>1. IsFiniteSet(A) /\ Cardinality(A) <= Cardinality(Paths)
  <2>1. entry = [q \in Paths |-> entry[q]]
    BY DEF TypeOK
  <2> QED
    BY <2>1, ImageSize, InodesAssumption
<1>2. IsFiniteSet(B) /\ Cardinality(B) <= Cardinality(Threads)
  <2>1. fds = [u \in Threads |-> fds[u]]
    OBVIOUS
  <2> HIDE DEF fds
  <2> QED
    BY <2>1, ImageSize, InodesAssumption
<1>3. InUse = A \cup B
  BY DEF InUse
<1>4. None \in A
  OBVIOUS
<1> HIDE DEF A, B
<1>5. /\ IsFiniteSet(A \cup B)
      /\ Cardinality(A \cup B) = Cardinality(A) + Cardinality(B) - Cardinality(A \cap B)
  BY <1>1, <1>2, FS_Union
<1>6. /\ Cardinality(A) \in Nat /\ Cardinality(B) \in Nat /\ Cardinality(A \cap B) \in Nat
      /\ Cardinality(Paths) \in Nat /\ Cardinality(Threads) \in Nat /\ Cardinality(Inodes) \in Nat
  <2>1. IsFiniteSet(A \cap B)
    BY <1>1, FS_Subset
  <2> QED
    BY <1>1, <1>2, <2>1, FS_CardinalityType, InodesAssumption
<1>7. Cardinality(A \cup B) <= Cardinality(Inodes)
  BY <1>1, <1>2, <1>5, <1>6, InodesAssumption
<1>8. ~ (Inodes \subseteq InUse)
  <2> SUFFICES ASSUME Inodes \subseteq InUse PROVE FALSE
    OBVIOUS
  <2>1. Inodes \cup {None} \subseteq A \cup B
    BY <1>3, <1>4
  <2>2. IsFiniteSet(S) /\ Cardinality(S) = Cardinality(Inodes) + 1
    BY InodesAssumption, NoneAssumption, FS_AddElement
  <2>3. Cardinality(S) <= Cardinality(A \cup B)
    BY <1>5, <2>1, FS_Subset
  <2>4. Cardinality(A \cup B) \in Nat
    BY <1>5, FS_CardinalityType
  <2> QED
    BY <1>6, <1>7, <2>2, <2>3, <2>4
<1> QED
  BY <1>8 DEF Unused

-----------------------------------------------------------------------------
(* What the steps of a thread have in common. *)

Lines ==
    {"idle", "refused", "mkdir", "open", "write", "read", "unlink", "stat",
     "base", "isfile", "list", "done"}

Places ==
    [pc : Lines, fd : Inodes \cup {None}, make : Seq(AllDirs \cup {<<>>}),
     list : SUBSET (AllDirs \cup (Prefixes \ {None})), left : SUBSET (Paths \cup AllDirs),
     got : SUBSET Paths]

\* A step goes on to another line, or ends the call.
LEMMA StepMoves ==
    ASSUME NEW t \in Threads, Step(t)
    PROVE  (\E r : Continues(t, r)) \/ (\E o : Finish(t, o))
BY DEF Step, Refuse, MakeDir, MakeDone, OpenToWrite, Opened, Write, OpenToRead, Read, Unlink,
   Stat, ScanExists, ScanBase, ScanList, ScanEntry, Goes

\* It concerns no other thread, and no caller but its own.
LEMMA StepFrame ==
    ASSUME TypeOK, NEW t \in Threads, Step(t)
    PROVE  /\ call' = call /\ alone' = alone
           /\ \A u \in Threads \ {t} : th'[u] = th[u] /\ ret'[u] = ret[u]
           /\ th' \in [Threads -> {th'[u] : u \in Threads}]
<1>1. CASE \E r : Continues(t, r)
  BY <1>1 DEF Continues, callers, TypeOK
<1>2. CASE \E o : Finish(t, o)
  BY <1>2 DEF Finish, TypeOK
<1> QED
  BY <1>1, <1>2, StepMoves

\* What is known of files changes only when a call that is alone ends.
LEMMA StepKnows ==
    ASSUME TypeOK, NEW t \in Threads, Step(t)
    PROVE  \/ known' = known
           \/ /\ Mutates(call[t]) /\ alone[t] /\ th'[t].pc = "done"
              /\ \A p \in Paths \ {Path(t)} : known'[p] = known[p]
<1>1. CASE \E r : Continues(t, r)
  BY <1>1 DEF Continues, callers
<1>2. CASE \E o : Finish(t, o)
  <2>1. PICK o : Finish(t, o)
    BY <1>2
  <2>2. th'[t] = [Outside EXCEPT !.pc = "done"]
    BY <2>1 DEF Finish, TypeOK
  <2>3. th'[t].pc = "done"
    BY <2>2 DEF Outside
  <2> QED
    BY <2>1, <2>3 DEF Finish, TypeOK
<1> QED
  BY <1>1, <1>2, StepMoves

\* Of the files a step that is no open() for writing and no unlink() changes
\* at most the content.
LEMMA StepEntry ==
    ASSUME NEW t \in Threads, Step(t)
    PROVE  entry' = entry \/ OpenToWrite(t) \/ Unlink(t)
BY DEF Step, Refuse, MakeDir, Write, OpenToRead, Read, Stat, ScanExists, ScanBase, ScanList,
   ScanEntry, files

\* A file in use keeps its content when others are freed.
LEMMA KeptContent ==
    ASSUME NEW c \in [Inodes -> Contents]
    PROVE  /\ Kept(c) \in [Inodes -> Contents]
           /\ \A i \in Inodes : Kept(c)[i] \in {c[i], Empty}
           /\ \A p \in Paths : entry'[p] \in Inodes => Kept(c)[entry'[p]] = c[entry'[p]]
<1>1. Empty \in Contents
  BY DEF Contents
<1>2. \A p \in Paths : entry'[p] \in InUse'
  BY DEF InUse
<1> QED
  BY <1>1, <1>2 DEF Kept

\* A thread in a call has a request.
LEMMA InCall ==
    ASSUME IInv, NEW t \in Threads, th[t].pc # "idle"
    PROVE  /\ call[t] \in Requests /\ call[t] # None
           /\ call[t].op \in {"put", "get", "delete", "exists", "scan"}
           /\ call[t].op # "scan" => call[t].key \in Names
           /\ call[t].op = "put" => call[t].data \in Values
           /\ call[t].op = "scan" => call[t].prefix \in Prefixes
BY DEF IInv, Placed, TypeOK, Requests, Store!Requests

\* The outcomes of the code are those of the type.
LEMMA OutcomeForms ==
    /\ {Store!Done, Store!KeyError, Store!BlobError, OSError, Cancelled} \subseteq Outcomes
    /\ \A c \in Contents : [value |-> c] \in Outcomes
    /\ \A b \in BOOLEAN : [found |-> b] \in Outcomes
    /\ \A S \in SUBSET Paths : [keys |-> S] \in Outcomes
    /\ None \notin Outcomes
<1>1. {Store!Done, Store!KeyError, Store!BlobError, OSError, Cancelled} \subseteq Outcomes
  BY DEF Outcomes, Store!Outcomes
<1>2. \A c \in Contents : [value |-> c] \in Outcomes
  BY DEF Outcomes
<1>3. \A b \in BOOLEAN : [found |-> b] \in Outcomes
  BY DEF Outcomes, Store!Outcomes
<1>4. \A S \in SUBSET Paths : [keys |-> S] \in Outcomes
  BY DEF Outcomes
<1> QED
  BY <1>1, <1>2, <1>3, <1>4, NoneAssumption

\* The exceptions differ from each other and from what carries a value.
LEMMA OutcomesDiffer ==
    /\ OSError \notin {Store!Done, Store!KeyError, Store!BlobError, Cancelled}
    /\ \A x : OSError \notin {[value |-> x], [found |-> x], [keys |-> x]}
BY DEF OSError, Cancelled, Store!Done, Store!KeyError, Store!BlobError

-----------------------------------------------------------------------------
(* A step leaves its thread at a line of its operation. *)

ThreadSound(t) == th[t] \in Places /\ Placed(t) /\ MakesAbove(t)

LEMMA ThreadSoundIn ==
    ASSUME IInv, NEW t \in Threads
    PROVE  ThreadSound(t)
BY DEF IInv, TypeOK, ThreadSound, Places, Lines

\* The end of a call.
LEMMA FinishSound ==
    ASSUME IInv, NEW t \in Threads, NEW o, Finish(t, o), th[t].pc # "idle"
    PROVE  ThreadSound(t)'
<1>1. th'[t] = [Outside EXCEPT !.pc = "done"] /\ call'[t] = call[t]
  BY DEF Finish, IInv, TypeOK
<1>2. /\ th'[t].pc = "done" /\ th'[t].fd = None /\ th'[t].make = <<>>
      /\ th'[t].list = {} /\ th'[t].left = {} /\ th'[t].got = {}
      /\ th'[t] = [pc |-> "done", fd |-> None, make |-> <<>>, list |-> {}, left |-> {}, got |-> {}]
  BY <1>1 DEF Outside
<1>3. th'[t] \in Places
  BY <1>2, EmptySeq DEF Places, Lines
<1>4. Placed(t)'
  BY <1>1, <1>2, InCall DEF Placed, OpAt
<1>5. MakesAbove(t)'
  BY <1>2 DEF MakesAbove
<1> QED
  BY <1>3, <1>4, <1>5 DEF ThreadSound, Places

\* A step that goes on to line pc.
LEMMA MoveSound ==
    ASSUME IInv, NEW t \in Threads, NEW r, Continues(t, r), r \in Places,
           th[t].pc # "idle", r.pc \notin {"idle", "refused"}, call[t].op \in OpAt(r.pc),
           r.pc \in {"mkdir", "open", "write", "read", "unlink", "stat"} => Path(t) \in Paths,
           r.pc \in {"base", "isfile", "list"} => call[t].prefix # None,
           r.fd # None <=> r.pc \in {"write", "read"},
           r.pc = "mkdir" => r.make # <<>> /\ r.make \in Seq(Above(Path(t)) \cup {<<>>})
    PROVE  ThreadSound(t)'
<1>1. th'[t] = r /\ call'[t] = call[t]
  BY DEF Continues, callers, IInv, TypeOK
<1>2. call[t] # None
  BY InCall
<1>3. Placed(t)'
  BY <1>1, <1>2 DEF Placed, Path
<1>4. MakesAbove(t)'
  BY <1>1 DEF MakesAbove, Path
<1> QED
  BY <1>1, <1>3, <1>4 DEF ThreadSound, Places

LEMMA MakeDirSound ==
    ASSUME IInv, NEW t \in Threads, MakeDir(t)
    PROVE  ThreadSound(t)' /\ dirs' \subseteq AllDirs
<1> DEFINE p == Path(t)
           S == Above(p) \cup {<<>>}
           m == th[t].make
<1>1. /\ th[t].pc = "mkdir" /\ th[t].pc # "idle" /\ call[t].op = "put" /\ th[t] \in Places
      /\ p \in Paths /\ m # <<>> /\ m \in Seq(S) /\ th[t].fd = None
  BY ThreadSoundIn DEF MakeDir, Doing, ThreadSound, Placed, MakesAbove
<1>2. MakeNext(t) \in S /\ Tail(m) \in Seq(S)
  BY <1>1, HeadTailProperties DEF MakeNext
<1>3. S \subseteq AllDirs \cup {<<>>}
  BY <1>1 DEF AllDirs
<1>4. \A s \in Seq(S) : s \in Seq(AllDirs \cup {<<>>})
  BY <1>3, SeqMonotonic
<1>5. dirs' \subseteq AllDirs
  <2>1. CASE Missing(MakeNext(t)) /\ dirs' = dirs \cup {MakeNext(t)}
    <3>1. MakeNext(t) # <<>>
      BY <2>1 DEF Missing, IsDir
    <3> QED
      BY <1>2, <1>3, <2>1, <3>1 DEF IInv, TypeOK
  <2>2. CASE dirs' = dirs
    BY <2>2 DEF IInv, TypeOK
  <2> QED
    BY <2>1, <2>2 DEF MakeDir
<1>6. CASE MakeDone(t)
  <2> DEFINE r == [th[t] EXCEPT !.make = Tail(m), !.pc = IF Tail(m) = <<>> THEN "open" ELSE "mkdir"]
  <2>1. Continues(t, r)
    BY <1>6 DEF MakeDone
  <2>2. Tail(m) \in Seq(AllDirs \cup {<<>>})
    BY <1>2, <1>4
  <2>3. /\ r \in Places /\ r.make = Tail(m) /\ r.fd = None
        /\ r.pc = IF Tail(m) = <<>> THEN "open" ELSE "mkdir"
    BY <1>1, <2>2 DEF Places, Lines
  <2> HIDE DEF r
  <2>4. call[t].op \in OpAt(r.pc)
    BY <1>1, <2>3 DEF OpAt
  <2>5. ThreadSound(t)'
    BY <1>1, <1>2, <2>1, <2>3, <2>4, MoveSound
  <2> QED
    BY <1>5, <2>5
<1>7. CASE Finish(t, OSError)
  BY <1>1, <1>5, <1>7, FinishSound
<1>8. CASE /\ Missing(MakeNext(t))
           /\ Continues(t, [th[t] EXCEPT !.make = <<Parent(MakeNext(t))>> \o @])
  <2> DEFINE n == <<Parent(MakeNext(t))>> \o m
             r == [th[t] EXCEPT !.make = n]
  <2>1. MakeNext(t) # <<>>
    BY <1>8 DEF Missing, IsDir
  <2>2. Parent(MakeNext(t)) \in S
    BY <1>1, <1>2, <2>1, AboveForms
  <2>3. n \in Seq(S) /\ n # <<>>
    <3>1. <<Parent(MakeNext(t))>> \in Seq(S) /\ Len(<<Parent(MakeNext(t))>>) = 1
      BY <2>2
    <3>2. n \in Seq(S) /\ Len(n) = 1 + Len(m)
      BY <1>1, <3>1, ConcatProperties
    <3>3. Len(m) \in Nat
      BY <1>1, LenProperties
    <3>4. Len(<<>>) = 0
      BY EmptySeq
    <3> QED
      BY <3>2, <3>3, <3>4
  <2> HIDE DEF n
  <2>4. r \in Places /\ r.make = n /\ r.fd = None /\ r.pc = "mkdir"
    BY <1>1, <1>4, <2>3 DEF Places, Lines
  <2>5. Continues(t, r)
    BY <1>8 DEF n
  <2> HIDE DEF r
  <2>6. call[t].op \in OpAt(r.pc)
    BY <1>1, <2>4 DEF OpAt
  <2>7. ThreadSound(t)'
    BY <1>1, <2>3, <2>4, <2>5, <2>6, MoveSound
  <2> QED
    BY <1>5, <2>7
<1> QED
  BY <1>6, <1>7, <1>8 DEF MakeDir

\* open() for reading and for writing.
LEMMA OpenedSound ==
    ASSUME IInv, NEW t \in Threads, th[t].pc = "open", Path(t) \in Paths, NEW i \in Inodes,
           NEW pc \in {"write", "read"}, call[t].op \in OpAt(pc),
           Continues(t, [th[t] EXCEPT !.pc = pc, !.fd = i])
    PROVE  ThreadSound(t)' /\ th'[t].fd = i
<1> DEFINE r == [th[t] EXCEPT !.pc = pc, !.fd = i]
<1>1. th[t] \in Places
  BY ThreadSoundIn DEF ThreadSound
<1>2. r \in Places /\ r.pc = pc /\ r.fd = i
  BY <1>1 DEF Places, Lines
<1>3. th'[t] = r
  BY DEF Continues, IInv, TypeOK
<1>4. i # None /\ th[t].pc # "idle"
  BY NoneAssumption
<1> HIDE DEF r
<1>5. Continues(t, r)
  BY DEF r
<1>6. ThreadSound(t)'
  BY <1>2, <1>4, <1>5, MoveSound
<1> QED
  BY <1>2, <1>3, <1>6

LEMMA OpenToWriteSound ==
    ASSUME IInv, NEW t \in Threads, OpenToWrite(t)
    PROVE  /\ ThreadSound(t)'
           /\ entry' \in [Paths -> Inodes \cup {None}] /\ content' \in [Inodes -> Contents]
<1>1. /\ th[t].pc = "open" /\ th[t].pc # "idle" /\ call[t].op = "put" /\ Path(t) \in Paths
      /\ th[t].fd = None
  BY ThreadSoundIn DEF OpenToWrite, Doing, ThreadSound, Placed
<1>2. call[t].op \in OpAt("write") /\ Empty \in Contents
  BY <1>1 DEF OpAt, Contents
<1>3. CASE IsFile(Path(t)) /\ Opened(t, entry[Path(t)]) /\ entry' = entry
           /\ content' = [content EXCEPT ![entry[Path(t)]] = Empty]
  <2>1. entry[Path(t)] \in Inodes
    BY <1>3 DEF IsFile, IInv, TypeOK
  <2>2. ThreadSound(t)'
    BY <1>1, <1>2, <1>3, <2>1, OpenedSound DEF Opened
  <2> QED
    BY <1>2, <1>3, <2>2 DEF IInv, TypeOK
<1>4. CASE Missing(Path(t)) /\ Opened(t, Unused)
           /\ entry' = [entry EXCEPT ![Path(t)] = Unused]
           /\ content' = [content EXCEPT ![Unused] = Empty]
  <2>1. Unused \in Inodes
    BY <1>1, <1>4, FreeInode DEF IInv, Missing, IsFile
  <2>2. ThreadSound(t)'
    BY <1>1, <1>2, <1>4, <2>1, OpenedSound DEF Opened
  <2> QED
    BY <1>2, <1>4, <2>1, <2>2 DEF IInv, TypeOK
<1>5. CASE Finish(t, OSError) /\ UNCHANGED <<entry, content>>
  BY <1>1, <1>5, FinishSound DEF IInv, TypeOK
<1> QED
  BY <1>3, <1>4, <1>5 DEF OpenToWrite

LEMMA OpenToReadSound ==
    ASSUME IInv, NEW t \in Threads, OpenToRead(t)
    PROVE  ThreadSound(t)'
<1>1. th[t].pc = "open" /\ th[t].pc # "idle" /\ call[t].op = "get" /\ Path(t) \in Paths
  BY ThreadSoundIn DEF OpenToRead, Doing, ThreadSound, Placed
<1>2. CASE IsFile(Path(t)) /\ Continues(t, [th[t] EXCEPT !.pc = "read", !.fd = entry[Path(t)]])
  <2>1. entry[Path(t)] \in Inodes
    BY <1>2 DEF IsFile, IInv, TypeOK
  <2>2. call[t].op \in OpAt("read")
    BY <1>1 DEF OpAt
  <2> QED
    BY <1>1, <1>2, <2>1, <2>2, OpenedSound
<1>3. CASE \E o : Finish(t, o)
  BY <1>1, <1>3, FinishSound
<1> QED
  BY <1>2, <1>3 DEF OpenToRead

LEMMA ScanSound ==
    ASSUME IInv, NEW t \in Threads,
           ScanExists(t) \/ ScanBase(t) \/ ScanList(t) \/ ScanEntry(t)
    PROVE  ThreadSound(t)'
<1> DEFINE Dirs == AllDirs \cup (Prefixes \ {None})
<1>1. /\ th[t].pc \in {"base", "isfile", "list"} /\ th[t].pc # "idle" /\ call[t].op = "scan"
      /\ th[t] \in Places /\ th[t].fd = None /\ call[t].prefix \in Prefixes \ {None}
  BY ThreadSoundIn, InCall
  DEF ScanExists, ScanBase, ScanList, ScanEntry, Doing, ThreadSound, Placed
<1>2. ASSUME NEW r \in Places, r.fd = None, r.pc \in {"isfile", "list"}, Continues(t, r)
      PROVE  ThreadSound(t)'
  <2>1. call[t].op \in OpAt(r.pc)
    BY <1>1, <1>2 DEF OpAt
  <2> QED
    BY <1>1, <1>2, <2>1, MoveSound
<1>3. ASSUME NEW o, Finish(t, o) PROVE ThreadSound(t)'
  BY <1>1, <1>3, FinishSound
<1>4. CASE ScanExists(t)
  <2> DEFINE r == [th[t] EXCEPT !.pc = "isfile"]
  <2>1. r \in Places /\ r.fd = None /\ r.pc = "isfile"
    BY <1>1 DEF Places, Lines
  <2>2. Continues(t, r) \/ \E o : Finish(t, o)
    BY <1>4 DEF ScanExists, Goes
  <2> HIDE DEF r
  <2> QED
    BY <1>2, <1>3, <2>1, <2>2
<1>5. CASE ScanBase(t)
  <2> DEFINE r == [th[t] EXCEPT !.pc = "list", !.list = {Base(t)}]
  <2>1. r \in Places /\ r.fd = None /\ r.pc = "list"
    BY <1>1 DEF Places, Lines, Base
  <2>2. Continues(t, r) \/ \E o : Finish(t, o)
    BY <1>5 DEF ScanBase
  <2> HIDE DEF r
  <2> QED
    BY <1>2, <1>3, <2>1, <2>2
<1>6. CASE ScanList(t)
  <2>1. th[t].pc = "list"
    BY <1>6 DEF ScanList, Doing
  <2> DEFINE r(d) == [th[t] EXCEPT !.list = @ \ {d},
                                   !.left = IF IsDir(d) THEN Children(d) ELSE {}]
  <2>2. ASSUME NEW d
        PROVE  r(d) \in Places /\ r(d).fd = None /\ r(d).pc = "list"
    <3>1. Children(d) \subseteq Paths \cup AllDirs
      BY DEF Children
    <3> HIDE DEF Children
    <3> QED
      BY <1>1, <2>1, <3>1 DEF Places, Lines
  <2>3. (\E d : Continues(t, r(d))) \/ \E o : Finish(t, o)
    BY <1>6 DEF ScanList
  <2> HIDE DEF r
  <2> QED
    BY <1>2, <1>3, <2>2, <2>3
<1>7. CASE ScanEntry(t)
  <2>1. th[t].pc = "list"
    BY <1>7 DEF ScanEntry, Doing
  <2>2. PICK e \in th[t].left :
            Continues(t, [th[t] EXCEPT
                !.left = @ \ {e},
                !.got = IF IsFile(e) THEN @ \cup {e} ELSE @,
                !.list = IF IsDir(e) THEN @ \cup {e} ELSE @])
    BY <1>7 DEF ScanEntry
  <2>3. e \in Paths \cup AllDirs
    BY <1>1 DEF Places
  <2>4. IsFile(e) => e \in Paths
    BY DEF IsFile
  <2>5. IsDir(e) => e \in AllDirs
    BY <2>3, RootApart DEF IsDir, IInv, TypeOK
  <2> DEFINE r == [th[t] EXCEPT
                !.left = @ \ {e},
                !.got = IF IsFile(e) THEN @ \cup {e} ELSE @,
                !.list = IF IsDir(e) THEN @ \cup {e} ELSE @]
  <2>6. r \in Places /\ r.fd = None /\ r.pc = "list"
    BY <1>1, <2>1, <2>4, <2>5 DEF Places
  <2>7. Continues(t, r)
    BY <2>2
  <2> HIDE DEF r
  <2> QED
    BY <1>2, <2>6, <2>7
<1> QED
  BY <1>4, <1>5, <1>6, <1>7

-----------------------------------------------------------------------------
(* Every step keeps the types. *)

LEMMA StepThreadSound ==
    ASSUME IInv, NEW t \in Threads, Step(t)
    PROVE  ThreadSound(t)'
<1>1. ASSUME NEW o, Finish(t, o), th[t].pc # "idle" PROVE ThreadSound(t)'
  BY <1>1, FinishSound
<1>2. CASE Refuse(t) \/ Write(t) \/ Read(t) \/ Unlink(t) \/ Stat(t)
  <2>1. th[t].pc # "idle" /\ \E o : Finish(t, o)
    BY <1>2 DEF Refuse, Write, Read, Unlink, Stat, Doing
  <2> QED
    BY <1>1, <2>1
<1> QED
  BY <1>2, MakeDirSound, OpenToWriteSound, OpenToReadSound, ScanSound DEF Step

\* A write leaves the new value, or what remains of two.
LEMMA WriteForms ==
    ASSUME IInv, NEW t \in Threads, Write(t)
    PROVE  \E c \in Over(content[th[t].fd], call[t].data) :
              /\ [content EXCEPT ![th[t].fd] = c] \in [Inodes -> Contents]
              /\ content' = Kept([content EXCEPT ![th[t].fd] = c])
<1>1. PICK c \in Over(content[th[t].fd], call[t].data) :
          content' = Kept([content EXCEPT ![th[t].fd] = c])
  BY DEF Write
<1>2. call[t].data \in Values
  BY InCall DEF Write, Doing
<1>3. c \in Contents
  BY <1>1, <1>2 DEF Over, Contents
<1> QED
  BY <1>1, <1>3 DEF IInv, TypeOK

LEMMA StepFilesTyped ==
    ASSUME IInv, NEW t \in Threads, Step(t)
    PROVE  /\ entry' \in [Paths -> Inodes \cup {None}]
           /\ dirs' \subseteq AllDirs
           /\ content' \in [Inodes -> Contents]
<1> USE DEF IInv, TypeOK
<1>1. CASE MakeDir(t)
  BY <1>1, MakeDirSound DEF MakeDir
<1>2. CASE OpenToWrite(t)
  BY <1>2, OpenToWriteSound DEF OpenToWrite
<1>3. CASE Write(t)
  <2>1. PICK c \in [Inodes -> Contents] : content' = Kept(c)
    BY <1>3, WriteForms
  <2> QED
    BY <1>3, <2>1, KeptContent DEF Write
<1>4. CASE Read(t)
  BY <1>4, KeptContent DEF Read
<1>5. CASE Unlink(t)
  BY <1>5, KeptContent DEF Unlink
<1>6. CASE Refuse(t) \/ OpenToRead(t) \/ Stat(t) \/ ScanExists(t) \/ ScanBase(t)
           \/ ScanList(t) \/ ScanEntry(t)
  BY <1>6 DEF Refuse, OpenToRead, Stat, ScanExists, ScanBase, ScanList, ScanEntry, files
<1> QED
  BY <1>1, <1>2, <1>3, <1>4, <1>5, <1>6 DEF Step

\* A call ends with an outcome of the API or an error of the system.
LEMMA StepEnds ==
    ASSUME IInv, NEW t \in Threads, Step(t)
    PROVE  (\E r : Continues(t, r)) \/ (\E o \in Outcomes : Finish(t, o))
<1>1. CASE Refuse(t) \/ MakeDir(t) \/ OpenToWrite(t) \/ Write(t) \/ OpenToRead(t) \/ Unlink(t)
  BY <1>1, OutcomeForms
  DEF Refuse, MakeDir, MakeDone, OpenToWrite, Opened, Write, OpenToRead, Unlink
<1>2. CASE Read(t)
  <2>1. th[t].fd \in Inodes
    BY <1>2, ThreadSoundIn DEF Read, Doing, ThreadSound, Placed, Places
  <2>2. content[th[t].fd] \in Contents /\ Torn \in Contents
    BY <2>1 DEF IInv, TypeOK, Contents
  <2>3. \E c \in Contents : Finish(t, [value |-> c])
    BY <1>2, <2>2 DEF Read
  <2> QED
    BY <2>3, OutcomeForms
<1>3. CASE Stat(t)
  BY <1>3, OutcomeForms DEF Stat
<1>4. CASE ScanExists(t) \/ ScanEntry(t)
  BY <1>4, OutcomeForms DEF ScanExists, ScanEntry, Goes
<1>5. CASE ScanBase(t)
  <2>1. IsFile(Base(t)) => {Base(t)} \in SUBSET Paths
    BY DEF IsFile
  <2> QED
    BY <1>5, <2>1, OutcomeForms DEF ScanBase
<1>6. CASE ScanList(t)
  <2>1. th[t].got \in SUBSET Paths
    BY ThreadSoundIn DEF ThreadSound, Places
  <2> QED
    BY <1>6, <2>1, OutcomeForms DEF ScanList
<1> QED
  BY <1>1, <1>2, <1>3, <1>4, <1>5, <1>6 DEF Step

LEMMA StepTypeOK ==
    ASSUME IInv, NEW t \in Threads, Step(t)
    PROVE  TypeOK' /\ \A u \in Threads : ThreadSound(u)'
<1>1. \A u \in Threads : ThreadSound(u)'
  <2> SUFFICES ASSUME NEW u \in Threads, u # t PROVE ThreadSound(u)'
    BY StepThreadSound
  <2>1. th'[u] = th[u] /\ call'[u] = call[u]
    BY StepFrame DEF IInv
  <2>2. ThreadSound(u)
    BY ThreadSoundIn
  <2> QED
    BY <2>1, <2>2 DEF ThreadSound, Placed, MakesAbove, Path, Places
<1>2. th' \in [Threads -> Places]
  BY <1>1, StepFrame DEF IInv, ThreadSound, Places
<1>3. ret' \in [Threads -> Outcomes \cup {None}] /\ known' \in [Paths -> Values \cup {Unknown, None}]
  <2>1. CASE \E r : Continues(t, r)
    BY <2>1 DEF Continues, callers, IInv, TypeOK
  <2>2. CASE \E o \in Outcomes : Finish(t, o)
    <3>1. PICK o \in Outcomes : Finish(t, o)
      BY <2>2
    <3>2. ret' \in [Threads -> Outcomes \cup {None}]
      BY <3>1, OutcomeForms DEF Finish, IInv, TypeOK
    <3>3. th[t].pc # "idle"
      BY DEF Step, Refuse, MakeDir, OpenToWrite, Write, OpenToRead, Read, Unlink, Stat,
         ScanExists, ScanBase, ScanList, ScanEntry, Doing
    <3>4. call[t].op = "put" => call[t].data \in Values
      BY <3>3, InCall
    <3>5. known' \in [Paths -> Values \cup {Unknown, None}]
      BY <3>1, <3>4 DEF Finish, IInv, TypeOK
    <3> QED
      BY <3>2, <3>5
  <2> QED
    BY <2>1, <2>2, StepEnds
<1>4. call' = call /\ alone' = alone
  BY StepFrame DEF IInv
<1> QED
  BY <1>1, <1>2, <1>3, <1>4, StepFilesTyped DEF IInv, TypeOK, Places, Lines

-----------------------------------------------------------------------------
(* Every step keeps a file to one path, and calls that clash from being alone. *)

\* Files that are only closed and unlinked keep to one path.
LEMMA OnePathShrinks ==
    ASSUME OnePath,
           \A p \in Paths : entry'[p] \in {entry[p], None},
           \A u \in Threads : \/ th'[u].fd = None
                              \/ th'[u].fd = th[u].fd /\ call'[u] = call[u]
    PROVE  OnePath'
BY DEF OnePath, Path

\* Only a step that opens a file leaves its thread with a file open.
LEMMA StepCloses ==
    ASSUME IInv, NEW t \in Threads, Step(t), ~ OpenToWrite(t), ~ OpenToRead(t)
    PROVE  th'[t].fd = None
<1>1. CASE \E o : Finish(t, o)
  BY <1>1 DEF Finish, Outside, IInv, TypeOK
<1>2. th[t].pc \notin {"write", "read"} => th[t].fd = None
  BY ThreadSoundIn DEF ThreadSound, Placed
<1>3. th[t] \in Places
  BY ThreadSoundIn DEF ThreadSound
<1>4. ASSUME NEW r, Continues(t, r), r.fd = th[t].fd, th[t].fd = None PROVE th'[t].fd = None
  BY <1>4 DEF Continues, IInv, TypeOK
<1>5. \A m, pc : [th[t] EXCEPT !.make = m, !.pc = pc].fd = th[t].fd
  BY <1>3 DEF Places
<1>6. \A m : [th[t] EXCEPT !.make = m].fd = th[t].fd
  BY <1>3 DEF Places
<1>7. \A pc : [th[t] EXCEPT !.pc = pc].fd = th[t].fd
  BY <1>3 DEF Places
<1>8. CASE MakeDir(t)
  BY <1>1, <1>2, <1>4, <1>5, <1>6, <1>8 DEF MakeDir, MakeDone, Doing
<1>9. CASE ScanExists(t)
  BY <1>1, <1>2, <1>4, <1>7, <1>9 DEF ScanExists, Goes, Doing
<1>10. CASE ScanBase(t)
  <2> DEFINE r == [th[t] EXCEPT !.pc = "list", !.list = {Base(t)}]
  <2>1. r.fd = th[t].fd
    BY <1>3 DEF Places
  <2>2. th[t].fd = None /\ ((\E o : Finish(t, o)) \/ Continues(t, r))
    BY <1>2, <1>10 DEF ScanBase, Doing
  <2> HIDE DEF r
  <2> QED
    BY <1>1, <1>4, <2>1, <2>2
<1>11. CASE ScanList(t)
  <2> DEFINE r(d) == [th[t] EXCEPT !.list = @ \ {d},
                                   !.left = IF IsDir(d) THEN Children(d) ELSE {}]
  <2>1. \A d : r(d).fd = th[t].fd
    BY <1>3 DEF Places
  <2>2. th[t].fd = None /\ ((\E o : Finish(t, o)) \/ (\E d : Continues(t, r(d))))
    BY <1>2, <1>11 DEF ScanList, Doing
  <2> HIDE DEF r
  <2> QED
    BY <1>1, <1>4, <2>1, <2>2
<1>12. CASE ScanEntry(t)
  <2> DEFINE r(e) == [th[t] EXCEPT
                        !.left = @ \ {e},
                        !.got = IF IsFile(e) THEN @ \cup {e} ELSE @,
                        !.list = IF IsDir(e) THEN @ \cup {e} ELSE @]
  <2>1. \A e : r(e).fd = th[t].fd
    BY <1>3 DEF Places
  <2>2. th[t].fd = None /\ \E e : Continues(t, r(e))
    BY <1>2, <1>12 DEF ScanEntry, Doing
  <2> HIDE DEF r
  <2> QED
    BY <1>4, <2>1, <2>2
<1>13. CASE Refuse(t) \/ Write(t) \/ Read(t) \/ Unlink(t) \/ Stat(t)
  BY <1>1, <1>13 DEF Refuse, Write, Read, Unlink, Stat
<1> QED
  BY <1>8, <1>9, <1>10, <1>11, <1>12, <1>13 DEF Step

LEMMA StepOnePath ==
    ASSUME IInv, NEW t \in Threads, Step(t)
    PROVE  OnePath'
<1>1. call' = call /\ \A u \in Threads \ {t} : th'[u] = th[u]
  BY StepFrame DEF IInv
<1>2. CASE OpenToWrite(t) \/ OpenToRead(t)
  <2>1. th[t].pc = "open" /\ th[t].fd = None /\ Path(t) \in Paths
    BY <1>2, ThreadSoundIn DEF OpenToWrite, OpenToRead, Doing, ThreadSound, Placed
  <2>2. CASE IsFile(Path(t)) /\ entry' = entry /\ th'[t].fd = entry[Path(t)]
    <3>1. entry[Path(t)] # None
      BY <2>2 DEF IsFile
    <3> QED
      BY <1>1, <2>1, <2>2, <3>1 DEF OnePath, IInv, Path
  <2>3. CASE Missing(Path(t)) /\ entry' = [entry EXCEPT ![Path(t)] = Unused] /\ th'[t].fd = Unused
    <3>1. entry[Path(t)] = None
      BY <2>1, <2>3 DEF Missing, IsFile
    <3>2. Unused \in Inodes /\ Unused \notin InUse
      BY <2>1, <3>1, FreeInode DEF IInv
    <3>3. /\ Unused # None
          /\ \A p \in Paths : entry[p] # Unused
          /\ \A u \in Threads : th[u].fd # Unused
      BY <3>2, NoneAssumption DEF InUse
    <3>4. /\ \A p \in Paths : entry'[p] = IF p = Path(t) THEN Unused ELSE entry[p]
          /\ \A u \in Threads : th'[u].fd = IF u = t THEN Unused ELSE th[u].fd
          /\ \A u \in Threads : Path(u)' = Path(u)
      BY <1>1, <2>3 DEF IInv, TypeOK, Path
    <3> HIDE DEF Path
    <3>5. \A p, q \in Paths : entry'[p] = entry'[q] /\ entry'[p] # None => p = q
      BY <3>3, <3>4 DEF IInv, OnePath
    <3>6. \A u \in Threads, p \in Paths : entry'[p] = th'[u].fd /\ entry'[p] # None => p = Path(u)'
      BY <3>3, <3>4 DEF IInv, OnePath
    <3>7. \A u, w \in Threads : th'[u].fd = th'[w].fd /\ th'[u].fd # None => Path(u)' = Path(w)'
      BY <3>3, <3>4 DEF IInv, OnePath
    <3> QED
      BY <3>5, <3>6, <3>7 DEF OnePath
  <2>4. CASE (\E o : Finish(t, o)) /\ entry' = entry
    <3>1. th'[t].fd = None
      BY <2>4 DEF Finish, Outside, IInv, TypeOK
    <3> QED
      BY <1>1, <2>4, <3>1, OnePathShrinks DEF IInv
  <2>5. ASSUME NEW i, NEW pc, Continues(t, [th[t] EXCEPT !.pc = pc, !.fd = i]) PROVE th'[t].fd = i
    BY <2>5 DEF Continues, IInv, TypeOK
  <2> QED
    BY <1>2, <2>2, <2>3, <2>4, <2>5 DEF OpenToWrite, Opened, OpenToRead, files
<1>3. CASE ~ OpenToWrite(t) /\ ~ OpenToRead(t)
  <2>1. \A p \in Paths : entry'[p] \in {entry[p], None}
    BY <1>3, StepEntry DEF Unlink, IInv, TypeOK
  <2>2. th'[t].fd = None
    BY <1>3, StepCloses
  <2> QED
    BY <1>1, <2>1, <2>2, OnePathShrinks DEF IInv
<1> QED
  BY <1>2, <1>3

LEMMA StepNoClash ==
    ASSUME IInv, NEW t \in Threads, Step(t)
    PROVE  NoClash'
BY StepFrame DEF IInv, NoClash, Clash, Mutates

LEMMA StepUnknown ==
    ASSUME IInv, NEW t \in Threads, Step(t)
    PROVE  UnknownMeanwhile'
<1>1. /\ call' = call /\ \A u \in Threads \ {t} : th'[u] = th[u]
      /\ \A u \in Threads : Path(u)' = Path(u)
  BY StepFrame DEF IInv, Path
<1>2. th[t].pc # "done"
  BY DEF Step, Refuse, MakeDir, OpenToWrite, Write, OpenToRead, Read, Unlink, Stat,
     ScanExists, ScanBase, ScanList, ScanEntry, Doing
<1>3. \A u \in Threads : Mutates(call[u]) => Path(u) \in Paths
  BY DEF IInv, TypeOK, Mutates, Path, Paths, Store!Requests
<1> SUFFICES ASSUME NEW u \in Threads, Mutates(call[u]), th'[u].pc # "done"
             PROVE  known'[Path(u)] = Unknown
  BY <1>1 DEF UnknownMeanwhile, Mutates
<1>4. th[u].pc # "done"
  BY <1>1, <1>2
<1>5. known[Path(u)] = Unknown
  BY <1>4 DEF IInv, UnknownMeanwhile
<1>6. CASE known' = known
  BY <1>5, <1>6
<1>7. CASE /\ Mutates(call[t]) /\ alone[t] /\ th'[t].pc = "done"
           /\ \A p \in Paths \ {Path(t)} : known'[p] = known[p]
  <2>1. u # t
    BY <1>7
  <2>2. ~ Clash(call[t], call[u])
    BY <1>7, <2>1 DEF IInv, NoClash
  <2>3. Path(u) # Path(t)
    BY <1>7, <2>2 DEF Clash, Path
  <2> QED
    BY <1>3, <1>5, <1>7, <2>3
<1> QED
  BY <1>6, <1>7, StepKnows DEF IInv

-----------------------------------------------------------------------------
(* Every step keeps what is known of the files. *)

\* A step of one call touches no file but its own.
LEMMA StepChanges ==
    ASSUME IInv, NEW t \in Threads, Step(t), NEW p \in Paths, ~ (Mutates(call[t]) /\ Path(t) = p)
    PROVE  /\ entry'[p] = entry[p]
           /\ entry[p] # None => content'[entry[p]] = content[entry[p]]
<1>1. /\ OpenToWrite(t) \/ Unlink(t) \/ Write(t) => Mutates(call[t]) /\ Path(t) \in Paths
      /\ OpenToWrite(t) => th[t].fd = None
  <2>1. ASSUME OpenToWrite(t) \/ Unlink(t) \/ Write(t)
        PROVE  /\ call[t].op \in {"put", "delete"} /\ th[t].pc \in {"open", "unlink", "write"}
    BY <2>1 DEF OpenToWrite, Unlink, Write, Doing
  <2>2. OpenToWrite(t) => th[t].pc = "open"
    BY DEF OpenToWrite, Doing
  <2>3. ASSUME OpenToWrite(t) \/ Unlink(t) \/ Write(t) PROVE Path(t) \in Paths /\ call[t] # None
    BY <2>1, <2>3, InCall, ThreadSoundIn DEF ThreadSound, Placed
  <2> QED
    BY <2>1, <2>2, <2>3, ThreadSoundIn DEF ThreadSound, Placed, Mutates, Paths, Path
<1>2. OpenToWrite(t) \/ Unlink(t) \/ Write(t) => Path(t) # p
  BY <1>1
<1>3. entry'[p] = entry[p]
  BY <1>2, StepEntry DEF OpenToWrite, Unlink, IInv, TypeOK
<1>4. ASSUME entry[p] # None PROVE content'[entry[p]] = content[entry[p]]
  <2>1. entry[p] \in Inodes /\ entry'[p] \in Inodes
    BY <1>3, <1>4 DEF IInv, TypeOK
  <2>2. CASE OpenToWrite(t)
    <3>1. CASE IsFile(Path(t)) /\ content' = [content EXCEPT ![entry[Path(t)]] = Empty]
      <4>1. entry[Path(t)] # entry[p]
        BY <1>1, <1>2, <1>4, <2>2 DEF IInv, OnePath
      <4> QED
        BY <2>1, <3>1, <4>1 DEF IInv, TypeOK
    <3>2. CASE Missing(Path(t)) /\ content' = [content EXCEPT ![Unused] = Empty]
      <4>1. Unused \notin InUse
        BY <1>1, <2>2, <3>2, FreeInode DEF IInv, Missing, IsFile
      <4>2. Unused # entry[p]
        BY <4>1 DEF InUse
      <4> QED
        BY <2>1, <3>2, <4>2 DEF IInv, TypeOK
    <3> QED
      BY <2>2, <3>1, <3>2 DEF OpenToWrite
  <2>3. CASE Write(t)
    <3>1. PICK c : /\ [content EXCEPT ![th[t].fd] = c] \in [Inodes -> Contents]
                   /\ content' = Kept([content EXCEPT ![th[t].fd] = c])
      BY <2>3, WriteForms
    <3>2. th[t].fd # entry[p]
      BY <1>2, <1>4, <2>3 DEF IInv, OnePath
    <3> DEFINE k == [content EXCEPT ![th[t].fd] = c]
    <3>3. k[entry[p]] = content[entry[p]]
      BY <2>1, <3>2 DEF IInv, TypeOK
    <3> HIDE DEF k
    <3>4. k \in [Inodes -> Contents] /\ content' = Kept(k)
      BY <3>1 DEF k
    <3>5. content'[entry'[p]] = k[entry'[p]]
      BY <2>1, <3>4, KeptContent
    <3> QED
      BY <1>3, <3>3, <3>5
  <2>4. CASE Read(t) \/ Unlink(t)
    <3>1. content' = Kept(content) /\ content \in [Inodes -> Contents]
      BY <2>4 DEF Read, Unlink, IInv, TypeOK
    <3> QED
      BY <1>3, <2>1, <3>1, KeptContent
  <2>5. CASE content' = content
    BY <2>5
  <2> QED
    BY <2>2, <2>3, <2>4, <2>5
    DEF Step, Refuse, MakeDir, OpenToRead, Stat, ScanExists, ScanBase, ScanList, ScanEntry, files
<1> QED
  BY <1>3, <1>4

\* A thread comes to a write() from an open() that left its file empty.
LEMMA StepToWrite ==
    ASSUME IInv, NEW t \in Threads, Step(t), th'[t].pc = "write"
    PROVE  entry'[Path(t)] = th'[t].fd /\ content'[th'[t].fd] = Empty
<1>1. th'[t].fd # None /\ call'[t].op = "put"
  BY StepThreadSound DEF ThreadSound, Placed, OpAt
<1>2. OpenToWrite(t)
  <2>1. call[t].op = "put"
    BY <1>1, StepFrame DEF IInv
  <2>2. ~ OpenToRead(t)
    BY <2>1 DEF OpenToRead, Doing
  <2> QED
    BY <1>1, <2>2, StepCloses
<1>3. th[t].pc = "open" /\ th[t].fd = None /\ Path(t) \in Paths
  BY <1>2, ThreadSoundIn DEF OpenToWrite, Doing, ThreadSound, Placed
<1>4. ASSUME NEW i, Opened(t, i) PROVE th'[t].fd = i
  BY <1>4 DEF Opened, Continues, IInv, TypeOK
<1>5. CASE IsFile(Path(t)) /\ Opened(t, entry[Path(t)]) /\ entry' = entry
           /\ content' = [content EXCEPT ![entry[Path(t)]] = Empty]
  <2>1. entry[Path(t)] \in Inodes
    BY <1>5 DEF IsFile, IInv, TypeOK
  <2> QED
    BY <1>4, <1>5, <2>1 DEF IInv, TypeOK
<1>6. CASE Missing(Path(t)) /\ Opened(t, Unused)
           /\ entry' = [entry EXCEPT ![Path(t)] = Unused]
           /\ content' = [content EXCEPT ![Unused] = Empty]
  <2>1. Unused \in Inodes
    BY <1>3, <1>6, FreeInode DEF IInv, Missing, IsFile
  <2> QED
    BY <1>3, <1>4, <1>6, <2>1 DEF IInv, TypeOK
<1>7. CASE Finish(t, OSError)
  BY <1>1, <1>7 DEF Finish, Outside, IInv, TypeOK
<1> QED
  BY <1>2, <1>5, <1>6, <1>7 DEF OpenToWrite

LEMMA StepEmpty ==
    ASSUME IInv, NEW t \in Threads, Step(t)
    PROVE  EmptyBeforeWrite'
<1>1. /\ call' = call /\ alone' = alone /\ \A u \in Threads \ {t} : th'[u] = th[u]
      /\ \A u \in Threads : Path(u)' = Path(u)
  BY StepFrame DEF IInv, Path
<1> SUFFICES ASSUME NEW u \in Threads, alone[u], th'[u].pc = "write"
             PROVE  entry'[Path(u)] = th'[u].fd /\ content'[th'[u].fd] = Empty
  BY <1>1 DEF EmptyBeforeWrite
<1>2. CASE u = t
  BY <1>2, StepToWrite
<1>3. CASE u # t
  <2>1. /\ th'[u] = th[u] /\ th[u].pc = "write" /\ th[u].fd # None
        /\ Path(u) \in Paths /\ call[u].op = "put" /\ call[u] # None
        /\ entry[Path(u)] = th[u].fd /\ content[th[u].fd] = Empty
    BY <1>1, <1>3, ThreadSoundIn, InCall DEF ThreadSound, Placed, OpAt, IInv, EmptyBeforeWrite
  <2>2. Mutates(call[u])
    BY <2>1 DEF Mutates, Path, Paths
  <2>3. ~ (Mutates(call[t]) /\ Path(t) = Path(u))
    BY <1>3, <2>2 DEF IInv, NoClash, Clash, Path
  <2> QED
    BY <2>1, <2>3, StepChanges
<1> QED
  BY <1>2, <1>3

\* A call that ends alone has done what its result says.
LEMMA StepAcks ==
    ASSUME IInv, NEW t \in Threads, Step(t), NEW p \in Paths,
           Mutates(call[t]), Path(t) = p, known'[p] # Unknown
    PROVE  Content(p)' = known'[p]
<1>1. th[t].pc # "done" /\ th[t].pc # "refused"
  <2>1. th[t].pc # "done"
    BY DEF Step, Refuse, MakeDir, OpenToWrite, Write, OpenToRead, Read, Unlink, Stat,
       ScanExists, ScanBase, ScanList, ScanEntry, Doing
  <2> QED
    BY <2>1, ThreadSoundIn DEF ThreadSound, Placed
<1>2. known[p] = Unknown /\ call[t].op \in {"put", "delete"}
  BY <1>1 DEF IInv, UnknownMeanwhile, Mutates
<1>3. PICK o : Finish(t, o) /\ alone[t] /\ o \in {Store!Done, Store!KeyError}
  <2>1. CASE \E r : Continues(t, r)
    BY <1>2, <2>1 DEF Continues, callers
  <2>2. CASE \E o : Finish(t, o)
    BY <1>2, <2>2 DEF Finish
  <2> QED
    BY <2>1, <2>2, StepMoves
<1>4. known'[p] = IF call[t].op = "put" THEN call[t].data ELSE None
  BY <1>3 DEF Finish, IInv, TypeOK
<1>5. ~ \E r : Continues(t, r)
  BY <1>2, <1>3 DEF Continues, callers
<1>6. ~ Finish(t, OSError)
  BY <1>2, OutcomesDiffer DEF Finish
<1>7. CASE Write(t)
  <2>1. call[t].op = "put" /\ th[t].pc = "write" /\ th[t].fd \in Inodes /\ entry' = entry
    BY <1>7, ThreadSoundIn DEF Write, Doing, ThreadSound, Placed, Places
  <2>2. entry[p] = th[t].fd /\ content[th[t].fd] = Empty
    BY <1>3, <2>1 DEF IInv, EmptyBeforeWrite
  <2>3. PICK c \in Over(content[th[t].fd], call[t].data) :
            /\ [content EXCEPT ![th[t].fd] = c] \in [Inodes -> Contents]
            /\ content' = Kept([content EXCEPT ![th[t].fd] = c])
    BY <1>7, WriteForms
  <2> DEFINE k == [content EXCEPT ![th[t].fd] = c]
  <2>4. c = call[t].data /\ k[th[t].fd] = c
    BY <2>1, <2>2, <2>3 DEF Over, IInv, TypeOK
  <2> HIDE DEF k
  <2>5. k \in [Inodes -> Contents] /\ content' = Kept(k)
    BY <2>3 DEF k
  <2>6. entry'[p] \in Inodes /\ entry'[p] = th[t].fd
    BY <2>1, <2>2
  <2>7. content'[entry'[p]] = k[th[t].fd]
    BY <2>5, <2>6, KeptContent
  <2> QED
    BY <1>4, <2>1, <2>4, <2>6, <2>7, NoneAssumption DEF Content, ContentIn
<1>8. CASE Unlink(t)
  <2>1. call[t].op = "delete"
    BY <1>8 DEF Unlink, Doing
  <2>2. entry'[p] = None
    BY <1>6, <1>8 DEF Unlink, Missing, IsFile, IInv, TypeOK
  <2> QED
    BY <1>4, <2>1, <2>2 DEF Content, ContentIn
<1>9. CASE MakeDir(t) \/ OpenToWrite(t)
  BY <1>5, <1>6, <1>9 DEF MakeDir, MakeDone, OpenToWrite, Opened
<1> QED
  BY <1>1, <1>2, <1>7, <1>8, <1>9
  DEF Step, Refuse, OpenToRead, Read, Stat, ScanExists, ScanBase, ScanList, ScanEntry, Doing

LEMMA StepAckedKept ==
    ASSUME IInv, NEW t \in Threads, Step(t)
    PROVE  AckedKept'
<1> SUFFICES ASSUME NEW p \in Paths, known'[p] # Unknown PROVE Content(p)' = known'[p]
  BY DEF AckedKept
<1>1. CASE Mutates(call[t]) /\ Path(t) = p
  BY <1>1, StepAcks
<1>2. CASE ~ (Mutates(call[t]) /\ Path(t) = p)
  <2>1. known'[p] = known[p]
    BY <1>2, StepKnows DEF IInv
  <2>2. Content(p) = known[p]
    BY <2>1 DEF IInv, AckedKept
  <2>3. Content(p)' = Content(p)
    BY <1>2, StepChanges DEF Content, ContentIn
  <2> QED
    BY <2>1, <2>2, <2>3
<1> QED
  BY <1>1, <1>2

-----------------------------------------------------------------------------
(* Calls and crashes. *)

LEMMA StepInductive ==
    ASSUME IInv, NEW t \in Threads, Step(t)
    PROVE  IInv'
BY StepTypeOK, StepOnePath, StepNoClash, StepEmpty, StepUnknown, StepAckedKept
   DEF IInv, ThreadSound

\* A sequence of one.
LEMMA OneIsSeq ==
    ASSUME NEW S, NEW s \in S
    PROVE  <<s>> \in Seq(S) /\ <<s>> # <<>>
OBVIOUS

LEMMA InvokeInductive ==
    ASSUME IInv, NEW t \in Threads, Invoke(t)
    PROVE  IInv'
<1>1. PICK q \in Calls[t] :
          /\ call' = [call EXCEPT ![t] = q]
          /\ th' = [th EXCEPT ![t] = Starts(q)]
          /\ known' = IF Mutates(q) THEN [known EXCEPT ![Resolve[q.key]] = Unknown] ELSE known
          /\ alone' = [u \in Threads |->
                IF u = t THEN ~ \E w \in Threads \ {t} : Clash(q, call[w])
                ELSE alone[u] /\ ~ Clash(q, call[u])]
  BY DEF Invoke
<1>2. th[t].pc = "idle" /\ entry' = entry /\ dirs' = dirs /\ content' = content /\ ret' = ret
  BY DEF Invoke, files
<1>3. q \in Requests /\ q # None
  BY CallsAssumption, NoneAssumption DEF Requests
<1>4. /\ q.op \in {"put", "get", "delete", "exists", "scan"}
      /\ q.op # "scan" => q.key \in Names
  BY <1>3 DEF Requests, Store!Requests
<1>5. /\ call'[t] = q /\ th'[t] = Starts(q)
      /\ \A u \in Threads \ {t} : call'[u] = call[u] /\ th'[u] = th[u]
  BY <1>1 DEF IInv, TypeOK
<1>6. ThreadSound(t)'
  <2>1. CASE q.op = "scan" /\ Target(q) # None
    <3>1. Starts(q) = [pc |-> "base", fd |-> None, make |-> <<>>, list |-> {}, left |-> {}, got |-> {}]
      BY <2>1 DEF Starts, Outside
    <3> QED
      BY <1>3, <1>5, <2>1, <3>1, EmptySeq
      DEF ThreadSound, Placed, MakesAbove, OpAt, Places, Lines, Target
  <2>2. CASE Target(q) = None
    <3>1. Starts(q) = [pc |-> "refused", fd |-> None, make |-> <<>>, list |-> {}, left |-> {}, got |-> {}]
      BY <2>2 DEF Starts, Outside
    <3> QED
      BY <1>3, <1>4, <1>5, <2>2, <3>1, EmptySeq
      DEF ThreadSound, Placed, MakesAbove, OpAt, Places, Lines, Mutates, Target
  <2>3. CASE q.op # "scan" /\ Target(q) # None
    <3> DEFINE p == Resolve[q.key]
    <3>1. p \in Paths
      BY <1>4, <2>3 DEF Paths, Target
    <3>2. Parent(p) \in Above(p) \cup {<<>>}
      BY <3>1, PathsAssumption, ParentAbove
    <3> DEFINE mk == IF q.op = "put" THEN <<Parent(p)>> ELSE <<>>
               pc == CASE q.op = "put" -> "mkdir" [] q.op = "get" -> "open"
                       [] q.op = "delete" -> "unlink" [] q.op = "exists" -> "stat"
    <3>3. /\ <<Parent(p)>> \in Seq(Above(p) \cup {<<>>}) /\ <<Parent(p)>> # <<>>
          /\ mk \in Seq(AllDirs \cup {<<>>})
      <4>1. Parent(p) \in AllDirs \cup {<<>>}
        BY <3>1, <3>2 DEF AllDirs
      <4> QED
        BY <3>2, <4>1, OneIsSeq, EmptySeq
    <3>4. Starts(q) = [pc |-> pc, fd |-> None, make |-> mk, list |-> {}, left |-> {}, got |-> {}]
      BY <1>4, <2>3 DEF Starts, Outside
    <3>5. Path(t)' = p
      BY <1>5 DEF Path
    <3> HIDE DEF p
    <3>6. Starts(q) \in Places
      BY <1>4, <2>3, <3>3, <3>4 DEF Places, Lines
    <3>7. Placed(t)'
      BY <1>3, <1>4, <1>5, <2>3, <3>1, <3>4, <3>5 DEF Placed, OpAt
    <3>8. MakesAbove(t)'
      <4>1. th'[t].pc = "mkdir" => th'[t].make = <<Parent(p)>>
        <5>1. pc = "mkdir" => q.op = "put"
          BY <1>4, <2>3
        <5>2. q.op = "put" => mk = <<Parent(p)>>
          OBVIOUS
        <5> HIDE DEF pc, mk
        <5> QED
          BY <1>5, <3>4, <5>1, <5>2
      <4> QED
        BY <3>3, <3>5, <4>1 DEF MakesAbove
    <3> QED
      BY <1>5, <3>6, <3>7, <3>8 DEF ThreadSound, Places
  <2> QED
    BY <2>1, <2>2, <2>3
<1>7. \A u \in Threads : ThreadSound(u)'
  <2> SUFFICES ASSUME NEW u \in Threads, u # t PROVE ThreadSound(u)'
    BY <1>6
  <2>1. ThreadSound(u)
    BY ThreadSoundIn
  <2> QED
    BY <1>5, <2>1 DEF ThreadSound, Placed, MakesAbove, Path, Places
<1>8. \A p \in Paths : known'[p] \in {known[p], Unknown}
  BY <1>1 DEF IInv, TypeOK
<1>9. \A u \in Threads : alone'[u] => u = t \/ alone[u]
  BY <1>1
<1>10. TypeOK'
  <2>1. th' \in [Threads -> Places]
    BY <1>1, <1>7 DEF IInv, TypeOK, ThreadSound, Places
  <2>2. call' \in [Threads -> Requests \cup {None}]
    BY <1>1, <1>3 DEF IInv, TypeOK, Requests
  <2>3. known' \in [Paths -> Values \cup {Unknown, None}] /\ alone' \in [Threads -> BOOLEAN]
    BY <1>1 DEF IInv, TypeOK, Clash, Mutates
  <2> QED
    BY <1>2, <2>1, <2>2, <2>3 DEF IInv, TypeOK, Places, Lines, Requests
<1>11. OnePath'
  <2>1. th'[t].fd = None
    <3>1. th'[t].pc \notin {"write", "read"}
      BY <1>4, <1>5 DEF Starts, Outside
    <3> QED
      BY <1>6, <3>1 DEF ThreadSound, Placed
  <2> QED
    BY <1>2, <1>5, <2>1, OnePathShrinks DEF IInv
<1>12. NoClash'
  <2> SUFFICES ASSUME NEW u \in Threads, NEW w \in Threads, alone'[u], u # w,
                      Clash(call'[u], call'[w])
               PROVE  FALSE
    BY DEF NoClash, Clash, Mutates
  <2>1. CASE u = t
    BY <1>1, <1>5, <2>1
  <2>2. CASE w = t
    <3>1. ~ Clash(q, call[u])
      BY <1>1, <2>2
    <3> QED
      BY <1>5, <2>2, <3>1 DEF Clash
  <2>3. CASE u # t /\ w # t
    BY <1>5, <1>9, <2>3 DEF IInv, NoClash
  <2> QED
    BY <2>1, <2>2, <2>3
<1>13. EmptyBeforeWrite'
  <2>1. th'[t].pc # "write"
    BY <1>4, <1>5 DEF Starts, Outside
  <2> QED
    BY <1>2, <1>5, <1>9, <2>1 DEF IInv, EmptyBeforeWrite, Path
<1>14. UnknownMeanwhile'
  <2> SUFFICES ASSUME NEW u \in Threads, Mutates(call'[u]), th'[u].pc # "done"
               PROVE  known'[Resolve[call'[u].key]] = Unknown
    BY DEF UnknownMeanwhile, Mutates, Path
  <2>1. call'[u] \in Requests
    BY <1>3, <1>5 DEF IInv, TypeOK, Mutates, Requests
  <2>2. Resolve[call'[u].key] \in Paths
    BY <2>1 DEF Mutates, Paths, Requests, Store!Requests
  <2>3. CASE u = t
    BY <1>1, <1>5, <2>2, <2>3 DEF IInv, TypeOK
  <2>4. CASE u # t
    BY <1>5, <1>8, <2>2, <2>4 DEF IInv, UnknownMeanwhile, Path
  <2> QED
    BY <2>3, <2>4
<1>15. AckedKept'
  BY <1>2, <1>8 DEF IInv, AckedKept, Content, ContentIn
<1> QED
  BY <1>7, <1>10, <1>11, <1>12, <1>13, <1>14, <1>15 DEF IInv, ThreadSound

\* A thread that is through, or whose process dies.
LEMMA ForgetInductive ==
    ASSUME IInv, NEW t \in Threads, Forget(t), entry' = entry, dirs' = dirs,
           \/ content' = content
           \/ content' = Kept(content)
           \/ th[t].pc = "write" /\ content' = Kept([content EXCEPT ![th[t].fd] = Torn])
    PROVE  IInv'
<1>1. /\ th'[t] = Outside /\ call'[t] = None /\ known' = known
      /\ \A u \in Threads \ {t} : th'[u] = th[u] /\ call'[u] = call[u] /\ alone'[u] = alone[u]
  BY DEF Forget, IInv, TypeOK
<1>2. ThreadSound(t)'
  <2>1. th'[t] = [pc |-> "idle", fd |-> None, make |-> <<>>, list |-> {}, left |-> {}, got |-> {}]
    BY <1>1 DEF Outside
  <2> QED
    BY <1>1, <2>1, EmptySeq DEF ThreadSound, Placed, MakesAbove, Places, Lines
<1>3. \A u \in Threads : ThreadSound(u)'
  <2> SUFFICES ASSUME NEW u \in Threads, u # t PROVE ThreadSound(u)'
    BY <1>2
  <2>1. ThreadSound(u)
    BY ThreadSoundIn
  <2> QED
    BY <1>1, <2>1 DEF ThreadSound, Placed, MakesAbove, Path, Places
<1>4. th[t].pc = "write" => th[t].fd \in Inodes /\ Mutates(call[t]) /\ Path(t) \in Paths
  <2> SUFFICES ASSUME th[t].pc = "write"
               PROVE  th[t].fd \in Inodes /\ Mutates(call[t]) /\ Path(t) \in Paths
    OBVIOUS
  <2>1. th[t].fd \in Inodes /\ Path(t) \in Paths /\ call[t].op = "put" /\ call[t] # None
    BY ThreadSoundIn, InCall DEF ThreadSound, Placed, OpAt, Places
  <2> QED
    BY <2>1 DEF Mutates, Path, Paths
<1>5. /\ content' \in [Inodes -> Contents]
      /\ \A p \in Paths : entry[p] \in Inodes /\ ~ (th[t].pc = "write" /\ entry[p] = th[t].fd)
            => content'[entry[p]] = content[entry[p]]
  <2>1. \E c \in [Inodes -> Contents] :
            /\ content' = c \/ content' = Kept(c)
            /\ \A i \in Inodes : ~ (th[t].pc = "write" /\ i = th[t].fd) => c[i] = content[i]
    <3>1. CASE th[t].pc = "write" /\ content' = Kept([content EXCEPT ![th[t].fd] = Torn])
      <4> DEFINE k == [content EXCEPT ![th[t].fd] = Torn]
      <4>1. k \in [Inodes -> Contents] /\ \A i \in Inodes : i # th[t].fd => k[i] = content[i]
        BY <1>4, <3>1 DEF IInv, TypeOK, Contents
      <4>2. content' = Kept(k)
        BY <3>1
      <4> HIDE DEF k
      <4> QED
        BY <3>1, <4>1, <4>2
    <3>2. content \in [Inodes -> Contents]
      BY DEF IInv, TypeOK
    <3> QED
      BY <3>1, <3>2
  <2> QED
    BY <2>1, KeptContent
<1>6. TypeOK'
  <2>1. th' \in [Threads -> Places]
    BY <1>3 DEF Forget, IInv, TypeOK, ThreadSound, Places
  <2> QED
    BY <1>1, <1>5, <2>1 DEF Forget, IInv, TypeOK, Places, Lines
<1>7. OnePath'
  <2>1. th'[t].fd = None
    BY <1>1 DEF Outside
  <2> QED
    BY <1>1, <2>1, OnePathShrinks DEF IInv
<1>8. NoClash'
  <2>1. ~ Mutates(call'[t])
    BY <1>1 DEF Mutates
  <2> QED
    BY <1>1, <2>1 DEF IInv, NoClash, Clash
<1>9. EmptyBeforeWrite'
  <2> SUFFICES ASSUME NEW u \in Threads, alone'[u], th'[u].pc = "write"
               PROVE  entry[Path(u)'] = th'[u].fd /\ content'[th'[u].fd] = Empty
    BY DEF EmptyBeforeWrite
  <2>1. u # t
    BY <1>1 DEF Outside
  <2>2. th'[u] = th[u] /\ Path(u)' = Path(u) /\ alone[u] /\ th[u].pc = "write" /\ call'[u] = call[u]
    BY <1>1, <2>1 DEF Path
  <2>3. entry[Path(u)] = th[u].fd /\ content[th[u].fd] = Empty
    BY <2>2 DEF IInv, EmptyBeforeWrite
  <2>4. th[u].fd \in Inodes /\ Path(u) \in Paths /\ call[u].op = "put" /\ call[u] # None
    BY <2>2, ThreadSoundIn, InCall DEF ThreadSound, Placed, OpAt, Places
  <2>5. Mutates(call[u])
    BY <2>4 DEF Mutates, Path, Paths
  <2>6. ~ (th[t].pc = "write" /\ th[u].fd = th[t].fd)
    <3> SUFFICES ASSUME th[t].pc = "write", th[u].fd = th[t].fd PROVE FALSE
      OBVIOUS
    <3>1. Path(u) = Path(t)
      BY <2>4, NoneAssumption DEF IInv, OnePath
    <3>2. Clash(call[u], call[t])
      BY <1>4, <2>5, <3>1 DEF Clash, Path
    <3> QED
      BY <2>1, <2>2, <3>2 DEF IInv, NoClash
  <2> QED
    BY <1>5, <2>2, <2>3, <2>4, <2>6
<1>10. UnknownMeanwhile'
  <2>1. ~ Mutates(call'[t])
    BY <1>1 DEF Mutates
  <2> QED
    BY <1>1, <2>1 DEF IInv, UnknownMeanwhile, Path
<1>11. AckedKept'
  <2> SUFFICES ASSUME NEW p \in Paths, known[p] # Unknown PROVE Content(p)' = known[p]
    BY <1>1 DEF AckedKept
  <2>1. Content(p) = known[p]
    BY DEF IInv, AckedKept
  <2>2. ~ (th[t].pc = "write" /\ entry[p] # None /\ entry[p] = th[t].fd)
    <3> SUFFICES ASSUME th[t].pc = "write", entry[p] # None, entry[p] = th[t].fd PROVE FALSE
      OBVIOUS
    <3>1. p = Path(t)
      BY DEF IInv, OnePath
    <3>2. known[Path(t)] = Unknown
      BY <1>4 DEF IInv, UnknownMeanwhile
    <3> QED
      BY <3>1, <3>2
  <2>3. entry[p] \in Inodes \cup {None}
    BY DEF IInv, TypeOK
  <2> QED
    BY <1>5, <2>1, <2>2, <2>3 DEF Content, ContentIn
<1> QED
  BY <1>3, <1>6, <1>7, <1>8, <1>9, <1>10, <1>11 DEF IInv, ThreadSound

LEMMA CancelInductive ==
    ASSUME IInv, NEW t \in Threads, Cancel(t)
    PROVE  IInv'
<1>1. UNCHANGED <<entry, dirs, content, th, call, known, alone>>
  BY DEF Cancel, files
<1>2. ret' \in [Threads -> Outcomes \cup {None}]
  BY OutcomeForms DEF Cancel, IInv, TypeOK
<1>3. TypeOK'
  BY <1>1, <1>2 DEF IInv, TypeOK
<1>4. \A u \in Threads : (Placed(u) /\ MakesAbove(u))'
  BY <1>1 DEF IInv, Placed, MakesAbove, Path
<1>5. (OnePath /\ NoClash /\ EmptyBeforeWrite /\ UnknownMeanwhile /\ AckedKept)'
  BY <1>1 DEF IInv, OnePath, NoClash, EmptyBeforeWrite, UnknownMeanwhile, AckedKept, Path,
     Content, ContentIn
<1> QED
  BY <1>3, <1>4, <1>5 DEF IInv

-----------------------------------------------------------------------------
(* The theorems. *)

LEMMA NextInductive == IInv /\ [Next]_vars => IInv'
<1> SUFFICES ASSUME IInv, [Next]_vars PROVE IInv'
  OBVIOUS
<1>1. ASSUME NEW t \in Threads, Return(t) PROVE IInv'
  BY <1>1, ForgetInductive DEF Return, files
<1>2. ASSUME NEW t \in Threads, Crash(t) PROVE IInv'
  BY <1>2, ForgetInductive DEF Crash
<1>3. CASE UNCHANGED vars
  <2>1. UNCHANGED <<entry, dirs, content, th, call, ret, known, alone>>
    BY <1>3 DEF vars, files, callers
  <2>2. TypeOK'
    BY <2>1 DEF IInv, TypeOK
  <2>3. \A u \in Threads : (Placed(u) /\ MakesAbove(u))'
    BY <2>1 DEF IInv, Placed, MakesAbove, Path
  <2>4. (OnePath /\ NoClash /\ EmptyBeforeWrite /\ UnknownMeanwhile /\ AckedKept)'
    BY <2>1 DEF IInv, OnePath, NoClash, EmptyBeforeWrite, UnknownMeanwhile, AckedKept, Path,
       Content, ContentIn
  <2> QED
    BY <2>2, <2>3, <2>4 DEF IInv
<1> QED
  BY <1>1, <1>2, <1>3, InvokeInductive, StepInductive, CancelInductive DEF Next

LEMMA InitInvariant == Init => IInv
<1> SUFFICES ASSUME Init PROVE IInv
  OBVIOUS
<1>1. /\ \A t \in Threads : th[t] = Outside /\ call[t] = None /\ ret[t] = None /\ alone[t] = TRUE
      /\ \A p \in Paths : entry[p] = None /\ known[p] = None
  BY DEF Init
<1>2. Outside = [pc |-> "idle", fd |-> None, make |-> <<>>, list |-> {}, left |-> {}, got |-> {}]
  BY DEF Outside
<1>3. TypeOK
  <2>1. Outside \in Places
    BY <1>2, EmptySeq DEF Places, Lines
  <2>2. th \in [Threads -> Places]
    BY <2>1 DEF Init
  <2> QED
    BY <2>2 DEF Init, TypeOK, Places, Lines, Contents
<1>4. \A t \in Threads : Placed(t) /\ MakesAbove(t)
  BY <1>1, <1>2 DEF Placed, MakesAbove
<1>5. OnePath /\ EmptyBeforeWrite
  BY <1>1, <1>2 DEF OnePath, EmptyBeforeWrite
<1>6. NoClash /\ UnknownMeanwhile
  BY <1>1 DEF NoClash, UnknownMeanwhile, Clash, Mutates
<1>7. AckedKept
  BY <1>1 DEF AckedKept, Content, ContentIn
<1> QED
  BY <1>3, <1>4, <1>5, <1>6, <1>7 DEF IInv

\* The invariant that carries the others: a file has one path, and what is
\* known of it is true.
THEOREM Invariance == Spec => []IInv
<1> QED
  BY InitInvariant, NextInductive, PTL DEF Spec

\* Files, threads and calls keep their types, and there is a free inode
\* whenever a file is made.
THEOREM TypeCorrect == Spec => []TypeOK
<1>1. IInv => TypeOK
  BY DEF IInv
<1> QED
  BY <1>1, Invariance, PTL

\* What an undisturbed put() or delete() has done stays, whatever is done to
\* other keys meanwhile, whoever crashes and whoever is cancelled.
THEOREM AckedIsKept == Spec => []AckedKept
<1>1. IInv => AckedKept
  BY DEF IInv
<1> QED
  BY <1>1, Invariance, PTL

\* A step that ends with an error of the operating system found a directory
\* at its path, or a file above it.
LEMMA OSErrorIsClash ==
    ASSUME IInv, NEW t \in Threads, Step(t), ret'[t] = OSError, ret[t] = None
    PROVE  IsDir(Path(t)) \/ Blocked(Path(t))
<1>1. ret[t] # Cancelled /\ ret[t] # OSError
  BY OutcomeForms
<1>2. ~ \E r : Continues(t, r)
  BY <1>1 DEF Continues, callers
<1>3. ASSUME NEW o, Finish(t, o) PROVE o = OSError
  BY <1>1, <1>3 DEF Finish, IInv, TypeOK
<1>4. CASE Refuse(t)
  BY <1>3, <1>4, OutcomesDiffer DEF Refuse
<1>5. CASE MakeDir(t)
  <2> DEFINE h == MakeNext(t)
             S == Above(Path(t)) \cup {<<>>}
  <2>1. /\ Path(t) \in Paths /\ th[t].make # <<>> /\ th[t].make \in Seq(S)
    BY <1>5, ThreadSoundIn DEF MakeDir, Doing, ThreadSound, Placed, MakesAbove
  <2>2. h \in S
    BY <2>1, HeadTailProperties DEF MakeNext
  <2>3. IsFile(h) \/ Blocked(h)
    BY <1>2, <1>5 DEF MakeDir, MakeDone
  <2>4. CASE h = <<>>
    <3>1. ~ IsFile(<<>>) /\ Above(<<>>) = {}
      BY RootApart DEF IsFile, Above
    <3> QED
      BY <2>3, <2>4, <3>1 DEF Blocked
  <2>5. CASE h \in Above(Path(t))
    <3>1. Above(h) \subseteq Above(Path(t))
      BY <2>1, <2>5, AboveForms
    <3> QED
      BY <2>3, <2>5, <3>1 DEF Blocked
  <2> QED
    BY <2>2, <2>4, <2>5
<1>6. CASE OpenToWrite(t)
  BY <1>2, <1>6 DEF OpenToWrite, Opened
<1>7. CASE Write(t)
  BY <1>3, <1>7, OutcomesDiffer DEF Write
<1>8. CASE OpenToRead(t)
  BY <1>2, <1>3, <1>8, OutcomesDiffer DEF OpenToRead
<1>9. CASE Read(t) \/ Stat(t)
  BY <1>3, <1>9, OutcomesDiffer DEF Read, Stat
<1>10. CASE Unlink(t)
  BY <1>3, <1>10, OutcomesDiffer DEF Unlink
<1>11. CASE ScanExists(t) \/ ScanBase(t) \/ ScanList(t) \/ ScanEntry(t)
  BY <1>2, <1>3, <1>11, OutcomesDiffer DEF ScanExists, ScanBase, ScanList, ScanEntry, Goes
<1> QED
  BY <1>4, <1>5, <1>6, <1>7, <1>8, <1>9, <1>10, <1>11 DEF Step

\* No call fails with an error of the operating system but for a clash of its
\* key with the tree, whatever other calls are doing to the same directories.
THEOREM FailsForAReason == Spec => FailsOnlyOnClash
<1>1. ASSUME IInv, [Next]_vars, NEW t \in Threads, ret'[t] = OSError, ret[t] = None
      PROVE  IsDir(Path(t)) \/ Blocked(Path(t))
  <2>1. OSError # None /\ OSError # Cancelled
    BY OutcomeForms, OutcomesDiffer
  <2>2. CASE UNCHANGED vars
    BY <1>1, <2>1, <2>2 DEF vars, callers
  <2>3. CASE Next
    <3>1. PICK u \in Threads : Invoke(u) \/ Step(u) \/ Return(u) \/ Crash(u) \/ Cancel(u)
      BY <2>3 DEF Next
    <3>2. CASE Step(u)
      <4>1. u = t
        BY <1>1, <2>1, <3>2, StepFrame DEF IInv
      <4> QED
        BY <1>1, <3>2, <4>1, OSErrorIsClash
    <3>3. CASE Invoke(u)
      BY <1>1, <2>1, <3>3 DEF Invoke
    <3>4. CASE Return(u) \/ Crash(u)
      BY <1>1, <2>1, <3>4 DEF Return, Crash, Forget, IInv, TypeOK
    <3>5. CASE Cancel(u)
      BY <1>1, <2>1, <3>5 DEF Cancel, IInv, TypeOK
    <3> QED
      BY <3>1, <3>2, <3>3, <3>4, <3>5
  <2> QED
    BY <1>1, <2>2, <2>3
<1>2. IInv /\ [Next]_vars =>
        [\A t \in Threads :
            ret'[t] = OSError /\ ret[t] = None => IsDir(Path(t)) \/ Blocked(Path(t))]_vars
  BY <1>1
<1> QED
  BY <1>2, Invariance, PTL DEF Spec, FailsOnlyOnClash
=============================================================================
