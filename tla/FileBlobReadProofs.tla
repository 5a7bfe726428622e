-------------------------- MODULE FileBlobReadProofs --------------------------
(***************************************************************************)
(* What readers of the file backend are told, for every number of threads, *)
(* every set of paths and payloads: a value, a miss or a hit that was true *)
(* at some moment of the call, and of a scan every file that was there all *)
(* the time and none that never was.                                       *)
(***************************************************************************)
EXTENDS FileBlobProofs

-----------------------------------------------------------------------------
(***************************************************************************)
(* The tree: a path is a file or a directory, and what is above either is  *)
(* a directory.                                                            *)
(***************************************************************************)

Tree ==
    /\ \A p \in Paths : IsFile(p) => ~ IsDir(p) /\ Above(p) \subseteq dirs
    /\ \A d \in dirs : Above(d) \subseteq dirs

\* mkdir() makes the parent last, and open() finds it.
ParentFirst(t) ==
    /\ th[t].pc = "mkdir" => th[t].make[Len(th[t].make)] = Parent(Path(t))
    /\ Doing(t, "put", "open") => IsDir(Parent(Path(t)))

\* While a call reads, what it could read now has been noted.
Reading(t) ==
    \/ Doing(t, "get", "open") \/ Doing(t, "get", "read")
    \/ Doing(t, "delete", "unlink") \/ Doing(t, "exists", "stat")

Noted(t) ==
    Reading(t) =>
        /\ Content(Path(t)) \in seen[t]
        /\ \A u \in Threads :
              th[u].pc = "write" /\ Path(u) = Path(t) => {Torn, call[u].data} \subseteq seen[t]
        /\ th[t].pc = "read" => content[th[t].fd] \in seen[t]

Scanning(t) == th[t].pc \in {"base", "isfile", "list"}

\* A scan has noted the files, and each that has been there all the time is
\* yielded, listed, or below a directory that is yet to be listed.
Files == {p \in Paths : IsFile(p)}

Within(b) == {d \in Seq(STRING) : Len(b) <= Len(d) /\ Prefix(d, Len(b)) = b}

ToCome(t, p) ==
    \/ p \in th[t].got \cup th[t].left
    \/ \E d \in Above(p) \cup {<<>>} : d \in th[t].list \cup th[t].left

Covered(t) ==
    /\ th[t].pc \in {"base", "isfile"} => th[t].left = {} /\ th[t].got = {}
    /\ Scanning(t) =>
        /\ seen[t].always \subseteq Files /\ Files \subseteq seen[t].ever
        /\ th[t].pc = "list" =>
              /\ th[t].list \cup th[t].left \subseteq Within(Base(t))
              /\ th[t].got \subseteq seen[t].ever \cap Below(Base(t))
              /\ \A p \in seen[t].always \cap Below(Base(t)) : ToCome(t, p)

RInv ==
    /\ Tree
    /\ \A t \in Threads : ParentFirst(t) /\ Noted(t) /\ Covered(t)
    /\ ReadsRegular /\ ScanFaithful

-----------------------------------------------------------------------------
(* Lemmas about paths. *)

\* Prefixes of a path from the root down.
LEMMA PrefixForms ==
    ASSUME NEW p \in Seq(STRING), NEW i \in 0 .. Len(p)
    PROVE  /\ Prefix(p, i) \in Seq(STRING) /\ Len(Prefix(p, i)) = i
           /\ i = 0 => Prefix(p, i) = <<>>
           /\ i = Len(p) => Prefix(p, i) = p
           /\ \A j \in 0 .. i : Prefix(Prefix(p, i), j) = Prefix(p, j)
<1>1. Len(p) \in Nat
  BY LenProperties
<1>2. \A q \in Seq(STRING) : Prefix(q, 0) = <<>>
  BY SubSeqEmpty DEF Prefix
<1>3. <<>> \in Seq(STRING) /\ Len(<<>>) = 0
  BY EmptySeq
<1>4. CASE i = 0
  <2>1. Prefix(p, i) = <<>>
    BY <1>2, <1>4
  <2>2. i = Len(p) => p = <<>>
    BY <1>1, <1>4, EmptySeq
  <2>3. i = Len(p) => Prefix(p, i) = p
    BY <2>1, <2>2
  <2>4. \A j \in 0 .. i : Prefix(Prefix(p, i), j) = Prefix(p, j)
    <3>1. Prefix(Prefix(p, i), 0) = Prefix(p, 0)
      BY <1>2, <1>3, <2>1
    <3> QED
      BY <1>4, <3>1
  <2> QED
    BY <1>3, <1>4, <2>1, <2>3, <2>4
<1>5. CASE i # 0
  <2>1. i \in 1 .. Len(p)
    BY <1>1, <1>5
  <2>2. /\ Prefix(p, i) \in Seq(STRING) /\ Len(Prefix(p, i)) = i
        /\ \A j \in 1 .. i : Prefix(Prefix(p, i), j) = Prefix(p, j)
    BY <2>1, PrefixOfPrefix
  <2>3. i = Len(p) => Prefix(p, i) = p
    BY SubSeqFull DEF Prefix
  <2>4. Prefix(Prefix(p, i), 0) = Prefix(p, 0)
    BY <1>2, <2>2
  <2> QED
    BY <1>1, <1>5, <2>2, <2>3, <2>4
<1> QED
  BY <1>4, <1>5

\* A path or a directory below the root is a sequence of names, not empty.
LEMMA PathForms ==
    ASSUME NEW d \in Paths \cup AllDirs
    PROVE  /\ d \in Seq(STRING) /\ d # <<>> /\ Len(d) \in Nat \ {0}
           /\ Parent(d) \in Seq(STRING) /\ Len(Parent(d)) = Len(d) - 1
<1>1. d \in Seq(STRING) /\ d # <<>>
  BY PathsAssumption, AboveForms DEF AllDirs
<1>2. Len(d) \in Nat \ {0}
  BY <1>1, EmptySeq
<1>3. Len(d) - 1 \in 0 .. Len(d)
  BY <1>2
<1>4. Prefix(d, Len(d) - 1) \in Seq(STRING) /\ Len(Prefix(d, Len(d) - 1)) = Len(d) - 1
  BY <1>1, <1>3, PrefixForms
<1> QED
  BY <1>1, <1>2, <1>4 DEF Parent

\* What is above a path is its parent, or above its parent.
LEMMA AboveParent ==
    ASSUME NEW d \in Paths \cup AllDirs
    PROVE  /\ Above(d) \subseteq Above(Parent(d)) \cup {Parent(d)}
           /\ <<>> \notin Above(d)
           /\ Parent(d) \in Above(d) \cup {<<>>}
<1> DEFINE n == Len(d)
<1>1. d \in Seq(STRING) /\ d # <<>> /\ n \in Nat \ {0} /\ Len(Parent(d)) = n - 1
  BY PathForms
<1>2. \A i \in 1 .. n - 1 :
        /\ Prefix(d, i) \in Seq(STRING) /\ Len(Prefix(d, i)) = i
        /\ Prefix(Prefix(d, n - 1), i) = Prefix(d, i)
  <2> SUFFICES ASSUME NEW i \in 1 .. n - 1
               PROVE  /\ Prefix(d, i) \in Seq(STRING) /\ Len(Prefix(d, i)) = i
                      /\ Prefix(Prefix(d, n - 1), i) = Prefix(d, i)
    OBVIOUS
  <2>1. i \in 0 .. n /\ n - 1 \in 0 .. n /\ i \in 0 .. n - 1
    BY <1>1
  <2> QED
    BY <1>1, <2>1, PrefixForms
<1>3. <<>> \notin Above(d)
  <2>1. Len(<<>>) = 0
    BY EmptySeq
  <2> QED
    BY <1>1, <1>2, <2>1 DEF Above
<1>4. Above(d) \subseteq Above(Parent(d)) \cup {Parent(d)}
  <2> SUFFICES ASSUME NEW i \in 1 .. n - 1
               PROVE  Prefix(d, i) \in Above(Parent(d)) \cup {Parent(d)}
    BY DEF Above
  <2>1. CASE i = n - 1
    BY <2>1 DEF Parent
  <2>2. CASE i # n - 1
    <3>1. i \in 1 .. (n - 1) - 1
      BY <1>1, <2>2
    <3>2. Prefix(d, i) = Prefix(Parent(d), i)
      BY <1>2 DEF Parent
    <3> QED
      BY <1>1, <3>1, <3>2 DEF Above
  <2> QED
    BY <2>1, <2>2
<1> QED
  BY <1>1, <1>3, <1>4, ParentAbove

\* Where the parent of a path is a directory, all that is above it are.
LEMMA AllAboveAre ==
    ASSUME Tree, NEW d \in Paths \cup AllDirs, IsDir(Parent(d))
    PROVE  Above(d) \subseteq dirs
<1>1. Parent(d) = <<>> \/ Parent(d) \in dirs
  BY DEF IsDir
<1>2. CASE Parent(d) = <<>>
  <2>1. Above(<<>>) = {}
    <3>1. Len(<<>>) = 0
      BY EmptySeq
    <3> QED
      BY <3>1 DEF Above
  <2> QED
    BY <1>2, <2>1, AboveParent
<1>3. CASE Parent(d) \in dirs
  BY <1>3, AboveParent DEF Tree
<1> QED
  BY <1>1, <1>2, <1>3

-----------------------------------------------------------------------------
(* The tree. *)

\* What is last in a sequence is last in its tail, or is its head.
LEMMA LastOfTail ==
    ASSUME NEW S, NEW m \in Seq(S), m # <<>>
    PROVE  m[Len(m)] = IF Tail(m) = <<>> THEN Head(m) ELSE Tail(m)[Len(Tail(m))]
<1>1. Len(m) \in Nat \ {0} /\ Len(<<>>) = 0
  BY EmptySeq
<1>2. PICK s \in Seq(S) :
        /\ s = Tail(m) /\ Len(s) = Len(m) - 1
        /\ \A i \in 1 .. Len(s) : s[i] = m[i + 1]
  BY HeadTailProperties
<1>3. CASE s = <<>>
  <2>1. Len(m) = 1
    <3>1. Len(s) = 0
      BY <1>1, <1>3, Zenon
    <3> QED
      BY <1>1, <1>2, <3>1
  <2> QED
    BY <1>2, <1>3, <2>1
<1>4. CASE s # <<>>
  <2>1. Len(s) \in Nat \ {0}
    BY <1>4, EmptySeq
  <2>2. s[Len(s)] = m[Len(s) + 1] /\ Len(s) + 1 = Len(m)
    BY <1>1, <1>2, <2>1
  <2> QED
    BY <1>2, <1>4, <2>2
<1> QED
  BY <1>3, <1>4

\* The last directory mkdir() makes is the parent, and it is there then.
LEMMA MakeDirParent ==
    ASSUME IInv, NEW t \in Threads, MakeDir(t), ParentFirst(t)
    PROVE  ParentFirst(t)'
<1> DEFINE m == th[t].make
           S == Above(Path(t)) \cup {<<>>}
<1>1. /\ th[t].pc = "mkdir" /\ call[t].op = "put" /\ th[t] \in Places
      /\ Path(t) \in Paths /\ m # <<>> /\ m \in Seq(S)
  BY ThreadSoundIn DEF MakeDir, Doing, ThreadSound, Placed, MakesAbove
<1>2. Len(m) \in Nat \ {0} /\ m[Len(m)] = Parent(Path(t))
  BY <1>1, EmptySeq DEF ParentFirst
<1>3. CASE MakeDone(t) /\ (MakeNext(t) = <<>> \/ MakeNext(t) \in dirs')
  <2> DEFINE r == [th[t] EXCEPT !.make = Tail(m), !.pc = IF Tail(m) = <<>> THEN "open" ELSE "mkdir"]
  <2>1. /\ th'[t] = r /\ call'[t] = call[t]
    BY <1>3 DEF MakeDone, Continues, callers, IInv, TypeOK
  <2>2. r.make = Tail(m) /\ r.pc = IF Tail(m) = <<>> THEN "open" ELSE "mkdir"
    BY <1>1 DEF Places
  <2> HIDE DEF r
  <2>4. CASE Tail(m) = <<>>
    <3>2. Head(m) = Parent(Path(t))
      BY <1>1, <1>2, <2>4, LastOfTail
    <3>3. IsDir(Parent(Path(t)))'
      BY <1>3, <2>1, <3>2 DEF MakeNext, Path, IsDir
    <3> QED
      BY <2>1, <2>2, <2>4, <3>3 DEF ParentFirst
  <2>5. CASE Tail(m) # <<>>
    <3>2. Tail(m)[Len(Tail(m))] = Parent(Path(t))
      BY <1>1, <1>2, <2>5, LastOfTail
    <3> QED
      BY <2>1, <2>2, <2>5, <3>2 DEF ParentFirst, Path, Doing
  <2> QED
    BY <2>4, <2>5
<1>4. CASE Finish(t, OSError)
  <2>1. th'[t].pc = "done"
    BY <1>4 DEF Finish, Outside, IInv, TypeOK
  <2> QED
    BY <2>1 DEF ParentFirst, Doing
<1>5. CASE Continues(t, [th[t] EXCEPT !.make = <<Parent(MakeNext(t))>> \o @])
  <2> DEFINE x == Parent(MakeNext(t))
             n == <<x>> \o m
             r == [th[t] EXCEPT !.make = n]
  <2>1. /\ th'[t] = r /\ call'[t] = call[t]
    BY <1>5 DEF Continues, callers, IInv, TypeOK
  <2>2. r.make = n /\ r.pc = "mkdir"
    BY <1>1 DEF Places
  <2> HIDE DEF r
  <2>3. <<x>> \in Seq(S \cup {x}) /\ Len(<<x>>) = 1
    BY OneIsSeq
  <2>4. m \in Seq(S \cup {x})
    BY <1>1, SeqMonotonic
  <2>5. Len(n) = 1 + Len(m) /\ \A i \in 1 .. 1 + Len(m) : n[i] = IF i <= 1 THEN <<x>>[i] ELSE m[i - 1]
    BY <2>3, <2>4, ConcatProperties
  <2> HIDE DEF n
  <2>6. n[Len(n)] = Parent(Path(t))
    BY <1>2, <2>5
  <2> QED
    BY <2>1, <2>2, <2>6 DEF ParentFirst, Path, Doing
<1>6. \/ MakeDone(t) /\ (MakeNext(t) = <<>> \/ MakeNext(t) \in dirs')
      \/ Finish(t, OSError)
      \/ Continues(t, [th[t] EXCEPT !.make = <<Parent(MakeNext(t))>> \o @])
  BY DEF MakeDir, IsDir
<1> QED
  BY <1>3, <1>4, <1>5, <1>6

Acts(t) == Invoke(t) \/ Step(t) \/ Return(t) \/ Crash(t) \/ Cancel(t)

\* What a thread does leaves the others where they are, and no directory goes.
LEMMA ActFrame ==
    ASSUME IInv, NEW t \in Threads, Acts(t)
    PROVE  /\ \A u \in Threads \ {t} : th'[u] = th[u] /\ call'[u] = call[u] /\ ret'[u] = ret[u]
           /\ dirs \subseteq dirs'
<1>1. CASE Step(t)
  <2>1. dirs \subseteq dirs'
    BY <1>1 DEF Step, Refuse, MakeDir, OpenToWrite, Write, OpenToRead, Read, Unlink, Stat,
       ScanExists, ScanBase, ScanList, ScanEntry, files
  <2> QED
    BY <1>1, <2>1, StepFrame DEF IInv
<1>2. CASE Invoke(t)
  BY <1>2 DEF Invoke, files, IInv, TypeOK
<1>3. CASE Return(t) \/ Crash(t)
  BY <1>3 DEF Return, Crash, Forget, files, IInv, TypeOK
<1>4. CASE Cancel(t)
  BY <1>4 DEF Cancel, files, IInv, TypeOK
<1> QED
  BY <1>1, <1>2, <1>3, <1>4 DEF Acts

\* A file is made where nothing is and the parent is a directory, and so is a
\* directory.
LEMMA FilesMove ==
    ASSUME IInv, RInv, NEW t \in Threads, Acts(t)
    PROVE  \/ dirs' = dirs /\ \A p \in Paths : entry'[p] \in {entry[p], None}
           \/ /\ dirs' = dirs
              /\ \E p \in Paths :
                    Missing(p) /\ IsDir(Parent(p)) /\ entry' = [entry EXCEPT ![p] = Unused]
           \/ /\ entry' = entry
              /\ \E h \in AllDirs : Missing(h) /\ IsDir(Parent(h)) /\ dirs' = dirs \cup {h}
<1>1. CASE ~ Step(t)
  BY <1>1 DEF Acts, Invoke, Return, Crash, Cancel, files
<1>2. CASE MakeDir(t)
  <2>1. dirs' \subseteq AllDirs
    BY <1>2, MakeDirSound
  <2>2. CASE dirs' = dirs
    BY <1>2, <2>2 DEF MakeDir
  <2>3. CASE /\ Missing(MakeNext(t)) /\ IsDir(Parent(MakeNext(t)))
             /\ dirs' = dirs \cup {MakeNext(t)}
    BY <1>2, <2>1, <2>3 DEF MakeDir
  <2> QED
    BY <1>2, <2>2, <2>3 DEF MakeDir
<1>3. CASE OpenToWrite(t)
  <2>1. Path(t) \in Paths /\ Doing(t, "put", "open")
    BY <1>3, ThreadSoundIn DEF OpenToWrite, Doing, ThreadSound, Placed
  <2>2. IsDir(Parent(Path(t)))
    BY <2>1 DEF RInv, ParentFirst
  <2> QED
    BY <1>3, <2>1, <2>2 DEF OpenToWrite
<1>4. CASE Unlink(t)
  <2>1. entry' = [entry EXCEPT ![Path(t)] = None] \/ entry' = entry
    BY <1>4 DEF Unlink
  <2> QED
    BY <1>4, <2>1 DEF Unlink, IInv, TypeOK
<1>5. CASE Step(t) /\ ~ MakeDir(t) /\ ~ OpenToWrite(t) /\ ~ Unlink(t)
  <2>1. dirs' = dirs
    BY <1>5 DEF Step, Refuse, Write, OpenToRead, Read, Stat, ScanExists, ScanBase, ScanList,
       ScanEntry, files
  <2> QED
    BY <1>5, <2>1, StepEntry
<1> QED
  BY <1>1, <1>2, <1>3, <1>4, <1>5

\* The files stay leaves of a tree of directories.
LEMMA TreeKept ==
    ASSUME IInv, RInv, NEW t \in Threads, Acts(t)
    PROVE  Tree'
<1>1. CASE dirs' = dirs /\ \A p \in Paths : entry'[p] \in {entry[p], None}
  BY <1>1 DEF RInv, Tree, IsFile, IsDir
<1>2. CASE /\ dirs' = dirs
           /\ \E p \in Paths :
                 Missing(p) /\ IsDir(Parent(p)) /\ entry' = [entry EXCEPT ![p] = Unused]
  <2>1. PICK p \in Paths :
            Missing(p) /\ IsDir(Parent(p)) /\ entry' = [entry EXCEPT ![p] = Unused]
    BY <1>2
  <2>2. Above(p) \subseteq dirs /\ ~ IsDir(p)
    BY <2>1, AllAboveAre DEF RInv, Missing
  <2>3. \A q \in Paths \ {p} : entry'[q] = entry[q]
    BY <2>1 DEF IInv, TypeOK
  <2> QED
    BY <1>2, <2>2, <2>3 DEF RInv, Tree, IsFile, IsDir
<1>3. CASE /\ entry' = entry
           /\ \E h \in AllDirs : Missing(h) /\ IsDir(Parent(h)) /\ dirs' = dirs \cup {h}
  <2>1. PICK h \in AllDirs : Missing(h) /\ IsDir(Parent(h)) /\ dirs' = dirs \cup {h}
    BY <1>3
  <2>2. Above(h) \subseteq dirs
    BY <2>1, AllAboveAre DEF RInv
  <2>3. \A p \in Paths : IsFile(p) => p # h
    BY <2>1 DEF Missing
  <2> QED
    BY <1>3, <2>1, <2>2, <2>3 DEF RInv, Tree, IsFile, IsDir
<1> QED
  BY <1>1, <1>2, <1>3, FilesMove

\* Only a step of its own takes a thread to another line of its call, and
\* a call starts at the first.
LEMMA NewLine ==
    ASSUME IInv, NEW t \in Threads, Acts(t), ~ Step(t), th'[t].pc # "idle"
    PROVE  \/ /\ Invoke(t) /\ th[t].pc = "idle" /\ th'[t] = Starts(call'[t])
              /\ call'[t] \in Requests
           \/ th' = th /\ call' = call /\ Cancel(t)
<1>1. CASE Invoke(t)
  <2>1. PICK q \in Calls[t] :
            call' = [call EXCEPT ![t] = q] /\ th' = [th EXCEPT ![t] = Starts(q)]
    BY <1>1 DEF Invoke
  <2>2. call'[t] = q /\ th'[t] = Starts(q) /\ q \in Requests
    BY <2>1, CallsAssumption DEF IInv, TypeOK, Requests
  <2> QED
    BY <1>1, <2>2 DEF Invoke
<1>2. ~ (Return(t) \/ Crash(t))
  BY DEF Return, Crash, Forget, Outside, IInv, TypeOK
<1>3. CASE Cancel(t)
  BY <1>3 DEF Cancel
<1> QED
  BY <1>1, <1>2, <1>3 DEF Acts

\* The line a request starts at.
LEMMA StartForms ==
    ASSUME NEW q \in Requests
    PROVE  LET r == Starts(q) IN
           /\ r.pc \in {"refused", "base", "mkdir", "open", "unlink", "stat"}
           /\ r.left = {} /\ r.got = {}
           /\ r.pc = "base" => q.op = "scan"
           /\ r.pc = "mkdir" => q.op = "put" /\ r.make = <<Parent(Resolve[q.key])>>
           /\ r.pc = "open" => q.op = "get"
           /\ r.pc = "unlink" => q.op = "delete"
           /\ r.pc = "stat" => q.op = "exists"
<1>1. q.op \in {"put", "get", "delete", "exists", "scan"}
  BY DEF Requests, Store!Requests
<1>2. CASE q.op = "scan" /\ Target(q) # None
  BY <1>2 DEF Starts, Outside
<1>3. CASE Target(q) = None
  BY <1>3 DEF Starts, Outside
<1>4. CASE q.op # "scan" /\ Target(q) # None
  BY <1>1, <1>4 DEF Starts, Outside, Target
<1> QED
  BY <1>2, <1>3, <1>4

\* A step of a thread that is at no line of mkdir() does not lead to one, nor
\* to open().
LEMMA NoWayBack ==
    ASSUME IInv, NEW t \in Threads, Step(t), ~ MakeDir(t)
    PROVE  th'[t].pc \notin {"mkdir", "open", "unlink", "stat", "base", "idle", "refused"}
<1>1. CASE \E o : Finish(t, o)
  BY <1>1 DEF Finish, Outside, IInv, TypeOK
<1>2. CASE \A o : ~ Finish(t, o)
  <2>1. th[t] \in Places
    BY ThreadSoundIn DEF ThreadSound
  <2> DEFINE Ahead == {"write", "read", "isfile", "list"}
  <2>2. \A pc \in Ahead : \A i : [th[t] EXCEPT !.pc = pc, !.fd = i].pc \in Ahead
    BY <2>1 DEF Places
  <2>3. \A pc \in Ahead : \A l : [th[t] EXCEPT !.pc = pc, !.list = l].pc \in Ahead
    BY <2>1 DEF Places
  <2>4. \A pc \in Ahead : [th[t] EXCEPT !.pc = pc].pc \in Ahead
    BY <2>1 DEF Places
  <2>5. th[t].pc = "list" => /\ \A l, m : [th[t] EXCEPT !.list = l, !.left = m].pc \in Ahead
                             /\ \A l, m, g : [th[t] EXCEPT !.left = m, !.got = g, !.list = l].pc \in Ahead
    BY <2>1 DEF Places
  <2>6. CASE OpenToWrite(t) \/ OpenToRead(t)
    <3>1. \E pc \in Ahead : \E i : Continues(t, [th[t] EXCEPT !.pc = pc, !.fd = i])
      BY <1>2, <2>6 DEF OpenToWrite, OpenToRead, Opened
    <3> QED
      BY <2>2, <3>1 DEF Continues, IInv, TypeOK
  <2>7. CASE ScanExists(t) \/ ScanBase(t)
    <3>1. \E pc \in Ahead : \/ Continues(t, [th[t] EXCEPT !.pc = pc])
                           \/ \E l : Continues(t, [th[t] EXCEPT !.pc = pc, !.list = l])
      BY <1>2, <2>7 DEF ScanExists, ScanBase, Goes
    <3> QED
      <4>1. \A r : Continues(t, r) => th'[t] = r
        BY DEF Continues, IInv, TypeOK
      <4>2. CASE \E pc \in Ahead : Continues(t, [th[t] EXCEPT !.pc = pc])
        BY <2>4, <4>1, <4>2
      <4>3. CASE \E pc \in Ahead : \E l : Continues(t, [th[t] EXCEPT !.pc = pc, !.list = l])
        BY <2>3, <4>1, <4>3
      <4> QED
        BY <3>1, <4>2, <4>3
  <2>8. CASE ScanList(t)
    <3>1. th[t].pc = "list" /\ \E l, m : Continues(t, [th[t] EXCEPT !.list = l, !.left = m])
      BY <1>2, <2>8 DEF ScanList, Doing
    <3> QED
      BY <2>5, <3>1 DEF Continues, IInv, TypeOK
  <2>9. CASE ScanEntry(t)
    <3>1. th[t].pc = "list"
          /\ \E l, m, g : Continues(t, [th[t] EXCEPT !.left = m, !.got = g, !.list = l])
      BY <2>9 DEF ScanEntry, Doing
    <3> QED
      BY <2>5, <3>1 DEF Continues, IInv, TypeOK
  <2> QED
    BY <1>2, <2>6, <2>7, <2>8, <2>9 DEF Step, Refuse, Write, Read, Unlink, Stat
<1> QED
  BY <1>1, <1>2

LEMMA ParentFirstKept ==
    ASSUME IInv, RInv, NEW t \in Threads, Acts(t), NEW u \in Threads
    PROVE  ParentFirst(u)'
<1>1. ParentFirst(u)
  BY DEF RInv
<1>2. CASE th'[u] = th[u] /\ call'[u] = call[u]
  BY <1>1, <1>2, ActFrame DEF ParentFirst, Doing, Path, IsDir
<1>3. CASE u = t /\ MakeDir(t)
  BY <1>1, <1>3, MakeDirParent
<1>4. CASE u = t /\ Step(t) /\ ~ MakeDir(t)
  BY <1>4, NoWayBack DEF ParentFirst, Doing
<1>5. CASE u = t /\ ~ Step(t) /\ th'[t].pc # "idle"
  <2>1. CASE th'[t] = Starts(call'[t]) /\ call'[t] \in Requests
    <3>1. th'[t].pc = "open" => call'[t].op # "put"
      BY <2>1, StartForms
    <3>2. th'[t].pc = "mkdir" => th'[t].make = <<Parent(Path(t)')>>
      BY <2>1, StartForms DEF Path
    <3>3. \A x : Len(<<x>>) = 1 /\ <<x>>[1] = x
      OBVIOUS
    <3> QED
      BY <1>5, <3>1, <3>2, <3>3 DEF ParentFirst, Doing
  <2> QED
    BY <1>2, <1>5, <2>1, NewLine
<1>6. CASE u = t /\ th'[t].pc = "idle"
  BY <1>6 DEF ParentFirst, Doing
<1>7. u # t => th'[u] = th[u] /\ call'[u] = call[u]
  BY ActFrame
<1> QED
  BY <1>2, <1>3, <1>4, <1>5, <1>6, <1>7 DEF Step

-----------------------------------------------------------------------------
(* What there is to be read. *)

\* What a reader sees now is added to what it has seen.
LEMMA NotedNow ==
    ASSUME Observe, NEW t \in Threads, Reading(t)', call'[t] # None
    PROVE  /\ Content(Path(t))' \in seen'[t]
           /\ \A u \in Threads : th'[u].pc = "write" /\ Path(u)' = Path(t)' =>
                 {Torn, call'[u].data} \subseteq seen'[t]
           /\ th[t].pc # "idle" => seen[t] \subseteq seen'[t]
<1> DEFINE p == Resolve[call'[t].key]
           W == {u \in Threads : th'[u].pc = "write" /\ Resolve[call'[u].key] = p}
           at == {ContentIn(entry', content', p)} \cup UNION {{Torn, call'[u].data} : u \in W}
<1>1. call'[t].op \in {"get", "delete", "exists"} /\ th'[t].pc \notin {"refused", "done"}
  BY DEF Reading, Doing
<1>2. seen'[t] = (IF th[t].pc = "idle" THEN {} ELSE seen[t]) \cup at
  BY <1>1 DEF Observe
<1>3. Content(Path(t))' = ContentIn(entry', content', p)
  BY DEF Content, Path
<1>4. \A u \in Threads : th'[u].pc = "write" /\ Path(u)' = Path(t)' => u \in W
  BY DEF Path
<1>5. \A u \in W : {Torn, call'[u].data} \subseteq at
  OBVIOUS
<1>6. ContentIn(entry', content', p) \in at
  OBVIOUS
<1> HIDE DEF at, W
<1> QED
  BY <1>2, <1>3, <1>4, <1>5, <1>6

\* A file that is open keeps its inode.
LEMMA KeptOpen ==
    ASSUME IInv, NEW t \in Threads, th'[t].fd \in Inodes, NEW c \in [Inodes -> Contents]
    PROVE  Kept(c)[th'[t].fd] = c[th'[t].fd]
BY DEF Kept, InUse

\* The file of a reader changes by those who write its path.
LEMMA ReadContent ==
    ASSUME IInv, NEW t \in Threads, NEW u \in Threads, Acts(u),
           th[t].pc = "read", th'[t] = th[t], call'[t] = call[t]
    PROVE  LET i == th[t].fd IN
           \/ content'[i] = content[i]
           \/ content'[i] = Content(Path(t))'
           \/ \E w \in Threads :
                 /\ th[w].pc = "write" /\ Path(w) = Path(t)
                 /\ content'[i] \in {Torn, call[w].data}
<1> DEFINE i == th[t].fd
<1>1. i \in Inodes /\ i # None /\ content \in [Inodes -> Contents]
  BY ThreadSoundIn DEF ThreadSound, Placed, Places, IInv, TypeOK
<1>2. Kept(content)[i] = content[i]
  BY <1>1, KeptOpen
<1>3. ASSUME th[u].pc = "write", NEW c \in Contents,
             content' = Kept([content EXCEPT ![th[u].fd] = c]), c \in {Torn, call[u].data}
      PROVE  \/ content'[i] = content[i]
             \/ Path(u) = Path(t) /\ content'[i] \in {Torn, call[u].data}
  <2> DEFINE k == [content EXCEPT ![th[u].fd] = c]
  <2>1. k \in [Inodes -> Contents]
    BY <1>1
  <2>2. content'[i] = k[i]
    <3> HIDE DEF k
    <3>1. content' = Kept(k)
      BY <1>3 DEF k
    <3> QED
      BY <1>1, <2>1, <3>1, KeptOpen
  <2>3. CASE i = th[u].fd
    <3>1. Path(u) = Path(t)
      BY <1>1, <2>3 DEF IInv, OnePath
    <3> QED
      BY <1>1, <1>3, <2>2, <2>3, <3>1
  <2>4. CASE i # th[u].fd
    BY <1>1, <2>2, <2>4
  <2> QED
    BY <2>3, <2>4
<1>4. Torn \in Contents
  BY DEF Contents
<1>5. CASE Crash(u)
  <2>1. CASE content' = Kept(content)
    BY <1>2, <2>1
  <2>2. CASE th[u].pc = "write" /\ content' = Kept([content EXCEPT ![th[u].fd] = Torn])
    BY <1>3, <1>4, <2>2
  <2> QED
    BY <1>5, <2>1, <2>2 DEF Crash
<1>6. CASE Write(u)
  <2>1. th[u].pc = "write" /\ call[u].op = "put" /\ call[u].data \in Values
    BY <1>6, InCall DEF Write, Doing
  <2>2. PICK c \in Over(content[th[u].fd], call[u].data) :
            content' = Kept([content EXCEPT ![th[u].fd] = c])
    BY <1>6 DEF Write
  <2>3. c \in {Torn, call[u].data} /\ c \in Contents
    BY <2>1 DEF Over, Contents
  <2> QED
    BY <1>3, <2>1, <2>2, <2>3
<1>7. CASE OpenToWrite(u)
  <2>1. Path(u) \in Paths /\ th[u].fd = None /\ entry[Path(u)] \in Inodes \cup {None}
    BY <1>7, ThreadSoundIn DEF OpenToWrite, Doing, ThreadSound, Placed, IInv, TypeOK
  <2>2. CASE /\ IsFile(Path(u)) /\ entry' = entry
             /\ content' = [content EXCEPT ![entry[Path(u)]] = Empty]
    <3>1. CASE i = entry[Path(u)]
      <4>1. Path(u) = Path(t)
        BY <1>1, <2>1, <3>1 DEF IInv, OnePath
      <4>2. Content(Path(t))' = content'[i]
        BY <1>1, <2>2, <3>1, <4>1 DEF Content, ContentIn, Path
      <4> QED
        BY <4>2
    <3>2. CASE i # entry[Path(u)]
      BY <1>1, <2>2, <3>2
    <3> QED
      BY <3>1, <3>2
  <2>3. CASE Missing(Path(u)) /\ content' = [content EXCEPT ![Unused] = Empty]
    <3>1. entry[Path(u)] = None
      BY <2>1, <2>3 DEF Missing, IsFile
    <3>2. Unused \notin InUse
      BY <2>1, <3>1, FreeInode DEF IInv
    <3>3. i # Unused
      BY <3>2 DEF InUse
    <3> QED
      BY <1>1, <2>3, <3>3
  <2> QED
    BY <1>7, <2>2, <2>3 DEF OpenToWrite
<1>8. CASE Read(u) \/ Unlink(u)
  BY <1>2, <1>8 DEF Read, Unlink
<1>9. CASE ~ Crash(u) /\ ~ Write(u) /\ ~ OpenToWrite(u) /\ ~ Read(u) /\ ~ Unlink(u)
  <2>1. content' = content
    BY <1>9 DEF Acts, Step, Refuse, MakeDir, OpenToRead, Stat, ScanExists, ScanBase, ScanList,
       ScanEntry, Invoke, Return, Cancel, files
  <2> QED
    BY <2>1
<1> QED
  BY <1>5, <1>6, <1>7, <1>8, <1>9

\* A reader has noted what it could read.
LEMMA NotedKept ==
    ASSUME IInv, RInv, NEW t \in Threads, NEW u \in Threads, Acts(u), Observe
    PROVE  Noted(t)'
<1> SUFFICES ASSUME Reading(t)' PROVE Noted(t)'
  BY DEF Noted
<1>1. call'[t] # None
  <2>1. IInv'
    BY NextInductive DEF Next, Acts
  <2> QED
    BY <2>1 DEF IInv, Placed, Reading, Doing
<1>2. /\ Content(Path(t))' \in seen'[t]
      /\ \A w \in Threads : th'[w].pc = "write" /\ Path(w)' = Path(t)' =>
            {Torn, call'[w].data} \subseteq seen'[t]
      /\ th[t].pc # "idle" => seen[t] \subseteq seen'[t]
  BY <1>1, NotedNow
<1>3. ASSUME th'[t].pc = "read" PROVE content'[th'[t].fd] \in seen'[t]
  <2>1. CASE th'[t] = th[t] /\ call'[t] = call[t]
    <3>1. Reading(t) /\ th[t].pc = "read"
      BY <1>3, <2>1 DEF Reading, Doing
    <3>2. seen[t] \subseteq seen'[t] /\ content[th[t].fd] \in seen[t]
      BY <1>2, <3>1 DEF RInv, Noted
    <3>3. \A w \in Threads :
              th[w].pc = "write" /\ Path(w) = Path(t) => {Torn, call[w].data} \subseteq seen[t]
      BY <3>1 DEF RInv, Noted
    <3> QED
      BY <1>2, <2>1, <3>1, <3>2, <3>3, ReadContent
  <2>2. CASE u = t /\ OpenToRead(t) /\ th'[t] # th[t]
    <3>1. /\ IsFile(Path(t))
          /\ Continues(t, [th[t] EXCEPT !.pc = "read", !.fd = entry[Path(t)]])
      <4>1. ~ \E o : Finish(t, o)
        BY <1>3 DEF Finish, Outside, IInv, TypeOK
      <4> QED
        BY <2>2, <4>1 DEF OpenToRead
    <3>2. th'[t].fd = entry[Path(t)] /\ call' = call /\ entry' = entry /\ Path(t) \in Paths
      BY <2>2, <3>1, ThreadSoundIn DEF Continues, callers, OpenToRead, Doing, ThreadSound, Placed,
         Places, files, IInv, TypeOK
    <3>3. Content(Path(t))' = content'[th'[t].fd]
      BY <3>1, <3>2 DEF Content, ContentIn, IsFile, Path
    <3> QED
      BY <1>2, <3>3
  <2>3. CASE u = t /\ Step(t) /\ ~ OpenToRead(t)
    <3>1. th'[t].fd = None \/ OpenToWrite(t)
      BY <2>3, StepCloses
    <3>2. IInv'
      BY NextInductive DEF Next, Acts
    <3>3. th'[t].fd # None
      BY <1>3, <3>2 DEF IInv, Placed
    <3>4. call' = call
      BY <2>3, StepFrame DEF IInv
    <3>5. call'[t].op = "get"
      BY <1>3 DEF Reading, Doing
    <3> QED
      BY <3>1, <3>3, <3>4, <3>5 DEF OpenToWrite, Doing
  <2>4. CASE u = t /\ ~ Step(t)
    <3>1. \/ th'[t] = Starts(call'[t]) /\ call'[t] \in Requests
          \/ th' = th /\ call' = call
      BY <1>3, <2>4, NewLine
    <3>2. CASE th'[t] = Starts(call'[t]) /\ call'[t] \in Requests
      BY <1>3, <3>2, StartForms
    <3> QED
      BY <2>1, <3>1, <3>2
  <2>5. CASE u # t
    BY <2>1, <2>5, ActFrame
  <2>6. CASE u = t /\ OpenToRead(t) /\ th'[t] = th[t]
    BY <1>3, <2>6 DEF OpenToRead, Doing
  <2> QED
    BY <2>2, <2>3, <2>4, <2>5, <2>6
<1> QED
  BY <1>2, <1>3 DEF Noted

\* The answer o to the call of t is one that what t has seen justifies.
Justified(t, o) ==
    /\ call[t].op = "get" /\ o \notin {OSError, Store!BlobError} =>
          IF o = Store!KeyError THEN None \in seen[t] ELSE o.value \in seen[t]
    /\ call[t].op = "exists" /\ o # Store!BlobError =>
          IF o.found THEN seen[t] # {None} \/ IsDir(Path(t)) ELSE None \in seen[t]
    /\ call[t].op = "delete" =>
          /\ o = Store!Done => seen[t] # {None}
          /\ o = Store!KeyError => None \in seen[t]

\* Answers differ where an answer is tested.
LEMMA AnswersDiffer ==
    /\ Store!BlobError \notin {Store!Done, Store!KeyError}
    /\ OSError \notin {Store!Done, Store!KeyError}
    /\ Store!Done # Store!KeyError
    /\ \A x : Store!KeyError # [value |-> x]
BY DEF OSError, Store!Done, Store!KeyError, Store!BlobError

\* A path with a file has a content, a missing one none.
LEMMA ContentForms ==
    ASSUME TypeOK, NEW p \in Paths
    PROVE  IF IsFile(p) THEN Content(p) # None ELSE Content(p) = None
<1>1. entry[p] # None => content[entry[p]] \in Contents
  BY DEF TypeOK
<1>2. None \notin Contents
  BY ValuesAssumption DEF Contents
<1> QED
  BY <1>1, <1>2 DEF IsFile, Content, ContentIn

\* What a call returns that nobody cancelled.
LEMMA Returned ==
    ASSUME TypeOK, NEW t \in Threads, NEW o, Finish(t, o), ret'[t] # Cancelled
    PROVE  ret'[t] = o
BY DEF Finish, TypeOK

\* The step that answers, answers with what has been seen.
LEMMA StepJustified ==
    ASSUME IInv, RInv, NEW t \in Threads, Step(t), th'[t].pc = "done", ret'[t] # Cancelled
    PROVE  Justified(t, ret'[t])
<1> DEFINE o == ret'[t]
<1>1. TypeOK /\ th[t] \in Places
  BY ThreadSoundIn DEF IInv, ThreadSound
<1>2. Reading(t) => Content(Path(t)) \in seen[t] /\ Path(t) \in Paths
  BY ThreadSoundIn DEF RInv, Noted, Reading, Doing, ThreadSound, Placed
<1>3. Reading(t) => IF IsFile(Path(t)) THEN seen[t] # {None} ELSE None \in seen[t]
  BY <1>1, <1>2, ContentForms
<1>4. CASE Refuse(t)
  <2>1. o = Store!BlobError
    BY <1>1, <1>4, Returned DEF Refuse
  <2> QED
    BY <2>1, AnswersDiffer DEF Justified
<1>5. CASE OpenToRead(t)
  <2>1. ~ Continues(t, [th[t] EXCEPT !.pc = "read", !.fd = entry[Path(t)]])
    <3>1. [th[t] EXCEPT !.pc = "read", !.fd = entry[Path(t)]].pc = "read"
      BY <1>1 DEF Places
    <3>2. \A r : Continues(t, r) => th'[t] = r
      BY DEF Continues, IInv, TypeOK
    <3> QED
      BY <3>1, <3>2
  <2>2. call[t].op = "get" /\ Reading(t)
    BY <1>5 DEF OpenToRead, Doing, Reading
  <2>3. CASE Missing(Path(t)) /\ Finish(t, Store!KeyError)
    <3>1. o = Store!KeyError /\ ~ IsFile(Path(t))
      BY <1>1, <2>3, Returned DEF Missing
    <3> QED
      BY <1>3, <2>2, <3>1 DEF Justified
  <2>4. CASE Finish(t, OSError)
    <3>1. o = OSError
      BY <1>1, <2>4, Returned
    <3> QED
      BY <2>2, <3>1 DEF Justified
  <2> QED
    BY <1>5, <2>1, <2>3, <2>4 DEF OpenToRead
<1>6. CASE Read(t)
  <2>1. call[t].op = "get" /\ Reading(t) /\ th[t].pc = "read"
    BY <1>6 DEF Read, Doing, Reading
  <2>2. content[th[t].fd] \in seen[t]
    BY <2>1 DEF RInv, Noted
  <2>3. ASSUME NEW u \in Threads, th[u].pc = "write", th[u].fd = th[t].fd
        PROVE  Torn \in seen[t]
    <3>1. th[t].fd # None
      BY <2>1, ThreadSoundIn DEF ThreadSound, Placed
    <3>2. Path(u) = Path(t)
      BY <2>3, <3>1 DEF IInv, OnePath
    <3> QED
      BY <2>1, <2>3, <3>2 DEF RInv, Noted
  <2>4. PICK c \in {content[th[t].fd]}
            \cup {Torn : u \in {u \in Threads : th[u].pc = "write" /\ th[u].fd = th[t].fd}} :
            Finish(t, [value |-> c])
    BY <1>6 DEF Read
  <2>5. c \in seen[t]
    BY <2>2, <2>3, <2>4
  <2>6. o = [value |-> c]
    BY <1>1, <2>4, Returned
  <2> QED
    BY <2>1, <2>5, <2>6, AnswersDiffer DEF Justified
<1>7. CASE Unlink(t)
  <2>1. call[t].op = "delete" /\ Reading(t)
    BY <1>7 DEF Unlink, Doing, Reading
  <2>2. CASE IsFile(Path(t)) /\ Finish(t, Store!Done)
    <3>1. o = Store!Done
      BY <1>1, <2>2, Returned
    <3> QED
      BY <1>3, <2>1, <2>2, <3>1, AnswersDiffer DEF Justified
  <2>3. CASE Missing(Path(t)) /\ Finish(t, Store!KeyError)
    <3>1. o = Store!KeyError /\ ~ IsFile(Path(t))
      BY <1>1, <2>3, Returned DEF Missing
    <3> QED
      BY <1>3, <2>1, <3>1, AnswersDiffer DEF Justified
  <2>4. CASE Finish(t, OSError)
    <3>1. o = OSError
      BY <1>1, <2>4, Returned
    <3> QED
      BY <2>1, <3>1, AnswersDiffer DEF Justified
  <2> QED
    BY <1>7, <2>2, <2>3, <2>4 DEF Unlink
<1>8. CASE Stat(t)
  <2>1. call[t].op = "exists" /\ Reading(t)
    BY <1>8 DEF Stat, Doing, Reading
  <2>2. o = [found |-> IsFile(Path(t)) \/ IsDir(Path(t))]
    BY <1>1, <1>8, Returned DEF Stat
  <2>3. o.found = (IsFile(Path(t)) \/ IsDir(Path(t)))
    BY <2>2
  <2> QED
    BY <1>3, <2>1, <2>3 DEF Justified
<1>9. CASE MakeDir(t) \/ OpenToWrite(t) \/ Write(t)
  <2>1. call[t].op = "put"
    BY <1>9 DEF MakeDir, OpenToWrite, Write, Doing
  <2> QED
    BY <2>1 DEF Justified
<1>10. CASE ScanExists(t) \/ ScanBase(t) \/ ScanList(t) \/ ScanEntry(t)
  <2>1. call[t].op = "scan"
    BY <1>10 DEF ScanExists, ScanBase, ScanList, ScanEntry, Doing
  <2> QED
    BY <2>1 DEF Justified
<1> QED
  BY <1>4, <1>5, <1>6, <1>7, <1>8, <1>9, <1>10 DEF Step

\* A thread that is through was so before, or a step of its own ended the call.
LEMMA JustDone ==
    ASSUME IInv, NEW t \in Threads, NEW u \in Threads, Acts(u), Observe, th'[t].pc = "done"
    PROVE  /\ call'[t] = call[t] /\ call[t] # None /\ seen'[t] = seen[t]
           /\ \/ th[t].pc = "done" /\ ret'[t] = ret[t]
              \/ Step(t) /\ u = t
<1>1. CASE Step(t) /\ u = t
  <2>1. call'[t] = call[t] /\ th[t].pc # "idle"
    BY <1>1, StepFrame DEF IInv, Step, Refuse, MakeDir, OpenToWrite, Write, OpenToRead, Read,
       Unlink, Stat, ScanExists, ScanBase, ScanList, ScanEntry, Doing
  <2>2. call[t] # None
    BY <2>1, InCall
  <2> QED
    BY <1>1, <2>1, <2>2 DEF Observe
<1>2. CASE th'[t] = th[t] /\ call'[t] = call[t] /\ ret'[t] = ret[t]
  <2>1. call[t] # None
    BY <1>2, InCall
  <2> QED
    BY <1>2, <2>1 DEF Observe
<1>3. CASE u # t
  BY <1>2, <1>3, ActFrame
<1>4. CASE u = t /\ ~ Step(t)
  <2>1. th'[t].pc # "idle"
    OBVIOUS
  <2>2. CASE th'[t] = Starts(call'[t]) /\ call'[t] \in Requests
    BY <2>2, StartForms
  <2>3. CASE th' = th /\ Cancel(t)
    BY <2>3 DEF Cancel, Underway
  <2> QED
    BY <1>4, <2>1, <2>2, <2>3, NewLine
<1> QED
  BY <1>1, <1>3, <1>4

\* Readers are told what was true while they asked.
LEMMA ReadsKept ==
    ASSUME IInv, RInv, NEW u \in Threads, Acts(u), Observe
    PROVE  ReadsRegular'
<1> SUFFICES ASSUME NEW t \in Threads, th'[t].pc = "done", ret'[t] # Cancelled
             PROVE  Justified(t, ret[t])'
  BY DEF ReadsRegular, Justified
<1>1. call'[t] = call[t] /\ seen'[t] = seen[t] /\ dirs \subseteq dirs'
  BY JustDone, ActFrame
<1>2. Justified(t, ret'[t])
  <2>1. CASE th[t].pc = "done" /\ ret'[t] = ret[t]
    BY <2>1 DEF RInv, ReadsRegular, Justified
  <2>2. CASE Step(t)
    BY <2>2, StepJustified
  <2> QED
    BY <2>1, <2>2, JustDone
<1>3. IsDir(Path(t)) => IsDir(Path(t))'
  BY <1>1 DEF IsDir, Path
<1> DEFINE o == ret'[t]
<1> HIDE DEF o
<1>4. /\ call[t].op = "get" /\ o \notin {OSError, Store!BlobError} =>
            IF o = Store!KeyError THEN None \in seen[t] ELSE o.value \in seen[t]
      /\ call[t].op = "exists" /\ o # Store!BlobError =>
            IF o.found THEN seen[t] # {None} \/ IsDir(Path(t)) ELSE None \in seen[t]
      /\ call[t].op = "delete" =>
            (o = Store!Done => seen[t] # {None}) /\ (o = Store!KeyError => None \in seen[t])
  BY <1>2, Zenon DEF Justified, o
<1> QED
  BY <1>1, <1>3, <1>4, Zenon DEF Justified, o

-----------------------------------------------------------------------------
(* What a scan finds. *)

\* The base of a scan is the file itself, or a directory above it.
LEMMA BaseAbove ==
    ASSUME Tree, NEW b \in Seq(STRING), NEW p \in Below(b), IsFile(p)
    PROVE  p = b \/ (b \in Above(p) \cup {<<>>} /\ IsDir(b))
<1>1. p \in Paths /\ p \in Seq(STRING) /\ Len(p) \in Nat /\ Len(b) \in Nat
  BY PathsAssumption, LenProperties DEF Below
<1>2. Len(b) \in 0 .. Len(p) /\ Prefix(p, Len(b)) = b
  BY <1>1 DEF Below
<1>3. CASE Len(b) = 0
  <2>1. b = <<>>
    BY <1>1, <1>2, <1>3, PrefixForms
  <2> QED
    BY <2>1 DEF IsDir
<1>4. CASE Len(b) = Len(p)
  BY <1>1, <1>2, <1>4, PrefixForms
<1>5. CASE Len(b) \in 1 .. Len(p) - 1
  <2>1. b \in Above(p)
    BY <1>2, <1>5 DEF Above
  <2> QED
    BY <1>1, <2>1 DEF Tree, IsDir
<1> QED
  BY <1>1, <1>2, <1>3, <1>4, <1>5

\* A directory above a file has an entry that is the file, or above it.
LEMMA NextDown ==
    ASSUME Tree, NEW p \in Paths, IsFile(p), NEW d \in Above(p) \cup {<<>>}
    PROVE  IsDir(d) /\ \E e \in Children(d) : e \in Above(p) \cup {p}
<1>1. p \in Seq(STRING) /\ Len(p) \in Nat \ {0} /\ Above(p) \subseteq dirs
  BY PathForms DEF Tree
<1>2. PICK i \in 0 .. Len(p) - 1 : d = Prefix(p, i)
  <2>1. CASE d = <<>>
    <3>1. 0 \in 0 .. Len(p) - 1 /\ 0 \in 0 .. Len(p)
      BY <1>1
    <3>2. Prefix(p, 0) = <<>>
      BY <1>1, <3>1, PrefixForms
    <3> QED
      BY <2>1, <3>1, <3>2
  <2>2. CASE d \in Above(p)
    <3>1. PICK j \in 1 .. Len(p) - 1 : d = Prefix(p, j)
      BY <2>2 DEF Above
    <3>2. j \in 0 .. Len(p) - 1
      BY <1>1
    <3> QED
      BY <3>1, <3>2
  <2> QED
    BY <2>1, <2>2
<1> DEFINE e == Prefix(p, i + 1)
<1>3. i + 1 \in 0 .. Len(p) /\ i \in 0 .. i + 1
  BY <1>1
<1>4. Len(e) = i + 1 /\ Prefix(e, i) = d /\ (i + 1 = Len(p) => e = p)
  BY <1>1, <1>2, <1>3, PrefixForms
<1>5. (i + 1) - 1 = i
  BY <1>3
<1>6. Parent(e) = d
  <2> HIDE DEF e
  <2> QED
    BY <1>4, <1>5 DEF Parent
<1>7. e \in Above(p) \cup {p}
  <2>1. CASE i + 1 = Len(p)
    BY <1>4, <2>1
  <2>2. CASE i + 1 # Len(p)
    <3>1. i + 1 \in 1 .. Len(p) - 1
      BY <1>1, <2>2
    <3> QED
      BY <3>1 DEF Above
  <2> QED
    BY <2>1, <2>2
<1> HIDE DEF e
<1>8. e \in Children(d)
  BY <1>1, <1>6, <1>7 DEF Children, AllDirs, IsDir
<1>9. IsDir(d)
  BY <1>1 DEF IsDir
<1> QED
  BY <1>7, <1>8, <1>9

\* What is in a directory is below what the directory is below.
LEMMA ChildWithin ==
    ASSUME NEW b \in Seq(STRING), NEW d \in Within(b), NEW e \in Children(d)
    PROVE  e \in Within(b)
<1>1. /\ e \in Paths \cup AllDirs /\ Parent(e) = d
      /\ Len(b) \in Nat /\ Len(b) <= Len(d) /\ Prefix(d, Len(b)) = b
  BY LenProperties DEF Children, Within
<1>2. e \in Seq(STRING) /\ Len(e) \in Nat \ {0} /\ Len(d) = Len(e) - 1
  BY <1>1, PathForms
<1>3. Len(e) - 1 \in 0 .. Len(e) /\ Len(b) \in 0 .. Len(e) - 1
  BY <1>1, <1>2
<1>4. Prefix(Prefix(e, Len(e) - 1), Len(b)) = Prefix(e, Len(b))
  BY <1>2, <1>3, PrefixForms
<1>5. Prefix(e, Len(b)) = b
  BY <1>1, <1>4 DEF Parent
<1>6. Len(b) <= Len(e)
  BY <1>2, <1>3
<1> QED
  BY <1>2, <1>5, <1>6 DEF Within

\* What a scan sees now is added to what it has seen.
LEMMA ScanNow ==
    ASSUME Observe, NEW t \in Threads, Scanning(t)', call'[t] # None, call'[t].op = "scan"
    PROVE  /\ seen'[t].always \subseteq Files' /\ Files' \subseteq seen'[t].ever
           /\ th[t].pc # "idle" =>
                 seen'[t].always \subseteq seen[t].always /\ seen[t].ever \subseteq seen'[t].ever
<1> DEFINE now == {p \in Paths : entry'[p] # None}
<1>1. now = Files'
  BY DEF Files, IsFile
<1>2. th'[t].pc \notin {"refused", "done"}
  BY DEF Scanning
<1>3. seen'[t] = IF th[t].pc = "idle" THEN [always |-> now, ever |-> now]
                 ELSE [always |-> seen[t].always \cap now, ever |-> seen[t].ever \cup now]
  BY <1>2 DEF Observe
<1> HIDE DEF now
<1> QED
  BY <1>1, <1>3

\* To look at the base ends the scan or makes it the first directory to list.
LEMMA BaseWalks ==
    ASSUME IInv, RInv, NEW t \in Threads, NEW b \in Seq(STRING), ~ IsFile(b),
           th[t].left = {}, th[t].got = {},
           th'[t] = [th[t] EXCEPT !.pc = "list", !.list = {b}]
    PROVE  /\ th'[t].list \cup th'[t].left \subseteq Within(b)
           /\ th'[t].got = {}
           /\ \A p \in Files \cap Below(b) : ToCome(t, p)'
<1>1. th'[t].list = {b} /\ th'[t].left = {} /\ th'[t].got = {}
  BY ThreadSoundIn DEF ThreadSound, Places
<1>2. b \in Within(b)
  <2>1. Len(b) \in Nat /\ Len(b) \in 0 .. Len(b)
    BY LenProperties
  <2> QED
    BY <2>1, PrefixForms DEF Within
<1>3. ASSUME NEW p \in Files \cap Below(b) PROVE b \in Above(p) \cup {<<>>}
  BY <1>3, BaseAbove DEF RInv, Files
<1> QED
  BY <1>1, <1>2, <1>3 DEF ToCome

\* To list a directory brings what is below it one level nearer.
LEMMA ListWalks ==
    ASSUME IInv, RInv, NEW t \in Threads, NEW b \in Seq(STRING), NEW d \in th[t].list,
           th[t].left = {}, th[t].list \cup th[t].left \subseteq Within(b),
           th'[t] = [th[t] EXCEPT !.list = @ \ {d}, !.left = IF IsDir(d) THEN Children(d) ELSE {}]
    PROVE  /\ th'[t].list \cup th'[t].left \subseteq Within(b)
           /\ th'[t].got = th[t].got
           /\ \A p \in Files : ToCome(t, p) => ToCome(t, p)'
<1>1. /\ th'[t].list = th[t].list \ {d} /\ th'[t].got = th[t].got
      /\ th'[t].left = IF IsDir(d) THEN Children(d) ELSE {}
  BY ThreadSoundIn DEF ThreadSound, Places
<1>2. Children(d) \subseteq Within(b)
  BY ChildWithin
<1>3. ASSUME NEW p \in Files, ToCome(t, p) PROVE ToCome(t, p)'
  <2>1. CASE p \in th[t].got
    BY <1>1, <2>1 DEF ToCome
  <2>2. CASE \E x \in Above(p) \cup {<<>>} : x \in th[t].list /\ x # d
    BY <1>1, <2>2 DEF ToCome
  <2>3. CASE d \in Above(p) \cup {<<>>}
    <3>1. IsDir(d) /\ \E e \in Children(d) : e \in Above(p) \cup {p}
      BY <2>3, NextDown DEF RInv, Files
    <3> QED
      BY <1>1, <3>1 DEF ToCome
  <2> QED
    BY <1>3, <2>1, <2>2, <2>3 DEF ToCome
<1> QED
  BY <1>1, <1>2, <1>3

\* To look at an entry yields it, or puts it where it will be listed.
LEMMA EntryWalks ==
    ASSUME IInv, RInv, NEW t \in Threads, NEW b \in Seq(STRING), b # None, NEW e \in th[t].left,
           th[t].list \cup th[t].left \subseteq Within(b),
           th'[t] = [th[t] EXCEPT
               !.left = @ \ {e},
               !.got = IF IsFile(e) THEN @ \cup {e} ELSE @,
               !.list = IF IsDir(e) THEN @ \cup {e} ELSE @]
    PROVE  /\ th'[t].list \cup th'[t].left \subseteq Within(b)
           /\ th'[t].got \subseteq th[t].got \cup (Files \cap Below(b))
           /\ \A p \in Files : ToCome(t, p) => ToCome(t, p)'
<1>1. /\ th'[t].left = th[t].left \ {e}
      /\ th'[t].got = IF IsFile(e) THEN th[t].got \cup {e} ELSE th[t].got
      /\ th'[t].list = IF IsDir(e) THEN th[t].list \cup {e} ELSE th[t].list
  BY ThreadSoundIn DEF ThreadSound, Places
<1>2. IsFile(e) => e \in Files \cap Below(b)
  BY DEF IsFile, Files, Within, Below
<1>3. ASSUME NEW p \in Files, ToCome(t, p) PROVE ToCome(t, p)'
  <2>1. CASE p \in th[t].got \/ (p \in th[t].left /\ p # e)
    BY <1>1, <2>1 DEF ToCome
  <2>2. CASE p = e
    BY <1>1, <2>2 DEF ToCome, Files
  <2>3. CASE \E x \in Above(p) \cup {<<>>} : x \in th[t].list \/ (x \in th[t].left /\ x # e)
    BY <1>1, <2>3 DEF ToCome
  <2>4. CASE e \in Above(p) \cup {<<>>}
    <3>1. IsDir(e)
      BY <2>4, NextDown DEF RInv, Files
    <3> QED
      BY <1>1, <2>4, <3>1 DEF ToCome
  <2> QED
    BY <1>3, <2>1, <2>2, <2>3, <2>4 DEF ToCome
<1> QED
  BY <1>1, <1>2, <1>3

\* A step of a scan leaves covered what was.
LEMMA StepCovers ==
    ASSUME IInv, RInv, NEW t \in Threads, Step(t), Observe, Scanning(t)', call'[t].op = "scan"
    PROVE  Covered(t)'
<1> DEFINE b == Base(t)
           a == seen'[t].always
           v == seen'[t].ever
<1>1. call' = call /\ call[t].op = "scan" /\ call[t] # None /\ Covered(t) /\ th[t].pc # "idle"
  <2>1. call' = call
    BY StepFrame DEF IInv
  <2>2. th[t].pc # "idle"
    BY DEF Step, Refuse, MakeDir, OpenToWrite, Write, OpenToRead, Read, Unlink, Stat,
       ScanExists, ScanBase, ScanList, ScanEntry, Doing
  <2> QED
    BY <2>1, <2>2, InCall DEF RInv
<1>2. b \in Seq(STRING) /\ b # None
  <2>1. b \in Prefixes
    BY <1>1, InCall DEF Base
  <2>2. b # None
    BY <1>1, StepInductive DEF IInv, Placed, Scanning, Base
  <2> QED
    BY <2>1, <2>2, PathsAssumption
<1>3. a \subseteq Files' /\ Files' \subseteq v /\ a \subseteq seen[t].always /\ seen[t].ever \subseteq v
  BY <1>1, ScanNow
<1>4. ~ \E o : Finish(t, o)
  BY DEF Scanning, Finish, Outside, IInv, TypeOK
<1>5. \A r : Continues(t, r) => th'[t] = r
  BY DEF Continues, IInv, TypeOK
<1>6. Base(t)' = b
  BY <1>1 DEF Base
<1>7. Scanning(t) => /\ seen[t].always \subseteq Files
                     /\ th[t].pc = "list" =>
                           /\ th[t].list \cup th[t].left \subseteq Within(b)
                           /\ th[t].got \subseteq seen[t].ever \cap Below(b)
                           /\ \A p \in seen[t].always \cap Below(b) : ToCome(t, p)
  BY <1>1 DEF Covered
<1>8. ScanExists(t) \/ ScanBase(t) \/ ScanList(t) \/ ScanEntry(t) => Files' = Files
  BY DEF ScanExists, ScanBase, ScanList, ScanEntry, files, Files, IsFile
<1> HIDE DEF b, a, v
<1>9. CASE ScanExists(t)
  <2>1. th'[t] = [th[t] EXCEPT !.pc = "isfile"] /\ th[t].pc = "base"
    BY <1>4, <1>5, <1>9 DEF ScanExists, Goes, Doing
  <2>2. th'[t].pc = "isfile" /\ th'[t].left = {} /\ th'[t].got = {}
    BY <1>1, <2>1, ThreadSoundIn DEF Covered, ThreadSound, Places
  <2> QED
    BY <1>3, <2>2 DEF Covered, a, v
<1>10. CASE ScanBase(t)
  <2>1. /\ th'[t] = [th[t] EXCEPT !.pc = "list", !.list = {b}] /\ th[t].pc = "isfile"
        /\ ~ IsFile(b)
    BY <1>4, <1>5, <1>10 DEF ScanBase, Doing, b
  <2>2. th[t].left = {} /\ th[t].got = {}
    BY <1>1, <2>1 DEF Covered
  <2>3. /\ th'[t].list \cup th'[t].left \subseteq Within(b)
        /\ th'[t].got = {}
        /\ \A p \in Files \cap Below(b) : ToCome(t, p)'
    BY <1>2, <2>1, <2>2, BaseWalks
  <2>4. th'[t].pc = "list"
    BY <2>1, ThreadSoundIn DEF ThreadSound, Places
  <2> QED
    BY <1>3, <1>6, <1>8, <1>10, <2>3, <2>4 DEF Covered, a, v
<1>11. CASE ScanList(t)
  <2>1. PICK d \in th[t].list :
            th'[t] = [th[t] EXCEPT !.list = @ \ {d}, !.left = IF IsDir(d) THEN Children(d) ELSE {}]
    BY <1>4, <1>5, <1>11 DEF ScanList
  <2>2. th[t].left = {} /\ th[t].pc = "list" /\ Scanning(t)
    BY <1>11 DEF ScanList, Doing, Scanning
  <2>3. /\ th'[t].list \cup th'[t].left \subseteq Within(b)
        /\ th'[t].got = th[t].got
        /\ \A p \in Files : ToCome(t, p) => ToCome(t, p)'
    BY <1>2, <1>7, <2>1, <2>2, ListWalks
  <2>4. th'[t].pc = "list"
    BY <2>1, <2>2, ThreadSoundIn DEF ThreadSound, Places
  <2> QED
    BY <1>3, <1>6, <1>7, <2>2, <2>3, <2>4 DEF Covered, a, v
<1>12. CASE ScanEntry(t)
  <2>1. PICK e \in th[t].left :
            th'[t] = [th[t] EXCEPT
                !.left = @ \ {e},
                !.got = IF IsFile(e) THEN @ \cup {e} ELSE @,
                !.list = IF IsDir(e) THEN @ \cup {e} ELSE @]
    BY <1>5, <1>12 DEF ScanEntry
  <2>2. th[t].pc = "list" /\ Scanning(t)
    BY <1>12 DEF ScanEntry, Doing, Scanning
  <2>3. /\ th'[t].list \cup th'[t].left \subseteq Within(b)
        /\ th'[t].got \subseteq th[t].got \cup (Files \cap Below(b))
        /\ \A p \in Files : ToCome(t, p) => ToCome(t, p)'
    BY <1>2, <1>7, <2>1, <2>2, EntryWalks
  <2>4. th'[t].pc = "list"
    BY <2>1, <2>2, ThreadSoundIn DEF ThreadSound, Places
  <2> QED
    BY <1>3, <1>6, <1>7, <1>8, <1>12, <2>2, <2>3, <2>4 DEF Covered, a, v
<1>13. ScanExists(t) \/ ScanBase(t) \/ ScanList(t) \/ ScanEntry(t)
  BY <1>1, <1>4 DEF Step, Refuse, MakeDir, OpenToWrite, Write, OpenToRead, Read, Unlink, Stat,
     Doing
<1> QED
  BY <1>9, <1>10, <1>11, <1>12, <1>13

LEMMA CoveredKept ==
    ASSUME IInv, RInv, NEW t \in Threads, NEW u \in Threads, Acts(u), Observe
    PROVE  Covered(t)'
<1>1. IInv'
  BY NextInductive DEF Next, Acts
<1>2. Scanning(t)' => call'[t] # None /\ call'[t].op = "scan"
  BY <1>1 DEF IInv, Placed, OpAt, Scanning
<1>3. CASE th'[t] = th[t] /\ call'[t] = call[t]
  <2>1. Covered(t) /\ Base(t)' = Base(t)
    BY <1>3 DEF RInv, Base
  <2>2. Scanning(t)' => /\ seen'[t].always \subseteq Files' /\ Files' \subseteq seen'[t].ever
                        /\ seen'[t].always \subseteq seen[t].always
                        /\ seen[t].ever \subseteq seen'[t].ever
    BY <1>2, <1>3, ScanNow DEF Scanning
  <2>3. \A p : ToCome(t, p) => ToCome(t, p)'
    BY <1>3 DEF ToCome
  <2>4. Scanning(t)' = Scanning(t)
    BY <1>3 DEF Scanning
  <2> QED
    BY <1>3, <2>1, <2>2, <2>3, <2>4 DEF Covered
<1>4. CASE u = t /\ Step(t) /\ Scanning(t)'
  BY <1>2, <1>4, StepCovers
<1>5. CASE u = t /\ Step(t) /\ ~ Scanning(t)'
  <2>1. CASE MakeDir(t)
    <3>1. call[t].op = "put" /\ call' = call
      BY <1>5, <2>1, StepFrame DEF MakeDir, Doing, IInv
    <3> QED
      BY <1>5, <3>1 DEF Covered, Scanning
  <2> QED
    BY <1>5, <2>1, NoWayBack DEF Covered, Scanning
<1>6. CASE u = t /\ ~ Step(t) /\ th'[t] = Starts(call'[t]) /\ call'[t] \in Requests /\ th[t].pc = "idle"
  <2>1. th'[t].left = {} /\ th'[t].got = {}
    BY <1>6, StartForms
  <2>2. th'[t].pc # "list"
    BY <1>6, StartForms
  <2> QED
    BY <1>2, <2>1, <2>2, ScanNow DEF Covered
<1>7. CASE u = t /\ ~ Step(t) /\ th'[t].pc # "idle"
  BY <1>3, <1>6, <1>7, NewLine
<1>8. CASE th'[t].pc = "idle"
  BY <1>8 DEF Covered, Scanning
<1> QED
  BY <1>3, <1>4, <1>5, <1>7, <1>8, ActFrame

\* The step that ends a scan ends it with what has been found.
LEMMA StepScanned ==
    ASSUME IInv, RInv, NEW t \in Threads, Step(t), th'[t].pc = "done",
           ret'[t] \notin {Cancelled, Store!BlobError}, call[t].op = "scan"
    PROVE  /\ seen[t].always \cap Below(Base(t)) \subseteq ret'[t].keys
           /\ ret'[t].keys \subseteq seen[t].ever \cap Below(Base(t))
<1> DEFINE b == Base(t)
<1>1. /\ TypeOK /\ th[t] \in Places /\ Tree /\ Covered(t)
      /\ \A S : [keys |-> S].keys = S
  BY ThreadSoundIn DEF IInv, RInv, ThreadSound
<1>9. ~ Refuse(t)
  BY DEF Refuse, Finish, IInv, TypeOK
<1>2. b \in Seq(STRING) /\ b # None /\ Len(b) \in 0 .. Len(b)
  <2>1. th[t].pc \in {"base", "isfile", "list"}
    BY <1>9 DEF Step, MakeDir, OpenToWrite, Write, OpenToRead, Read, Unlink, Stat,
       ScanExists, ScanBase, ScanList, ScanEntry, Doing
  <2>2. b \in Prefixes /\ b # None
    BY <2>1, InCall DEF Base, IInv, Placed
  <2>3. b \in Seq(STRING)
    BY <2>2, PathsAssumption
  <2> QED
    BY <2>2, <2>3, LenProperties
<1>3. Scanning(t) => seen[t].always \subseteq Files /\ Files \subseteq seen[t].ever
  BY <1>1 DEF Covered
<1>4. ASSUME NEW S, Finish(t, [keys |-> S]) PROVE ret'[t].keys = S
  BY <1>1, <1>4, Returned
<1> HIDE DEF b
<1>5. CASE ScanExists(t)
  <2>1. Scanning(t)
    BY <1>5 DEF ScanExists, Doing, Scanning
  <2>2. ~ Goes(t, "isfile")
    <3>1. [th[t] EXCEPT !.pc = "isfile"].pc = "isfile"
      BY <1>1 DEF Places
    <3> QED
      BY <3>1 DEF Goes, Continues, IInv, TypeOK
  <2>3. ~ IsFile(b) /\ ~ IsDir(b) /\ Finish(t, [keys |-> {}])
    BY <1>5, <2>2 DEF ScanExists, b
  <2>4. Files \cap Below(b) = {}
    BY <1>1, <1>2, <2>3, BaseAbove DEF Files
  <2> QED
    BY <1>3, <1>4, <2>1, <2>3, <2>4 DEF b
<1>6. CASE ScanBase(t)
  <2>1. Scanning(t)
    BY <1>6 DEF ScanBase, Doing, Scanning
  <2>2. ~ Continues(t, [th[t] EXCEPT !.pc = "list", !.list = {Base(t)}])
    <3>1. [th[t] EXCEPT !.pc = "list", !.list = {Base(t)}].pc = "list"
      BY <1>1 DEF Places
    <3> QED
      BY <3>1 DEF Continues, IInv, TypeOK
  <2>3. IsFile(b) /\ Finish(t, [keys |-> {b}])
    BY <1>6, <2>2 DEF ScanBase, b
  <2>4. Files \cap Below(b) \subseteq {b}
    <3>1. ~ IsDir(b)
      BY <1>1, <2>3 DEF Tree, IsFile
    <3> QED
      BY <1>1, <1>2, <3>1, BaseAbove DEF Files
  <2>5. b \in Files \cap Below(b)
    <3>1. Prefix(b, Len(b)) = b /\ Len(b) <= Len(b)
      BY <1>2, PrefixForms
    <3> QED
      BY <1>2, <2>3, <3>1 DEF IsFile, Files, Below
  <2> QED
    BY <1>3, <1>4, <2>1, <2>3, <2>4, <2>5 DEF b
<1>7. CASE ScanList(t)
  <2>1. Scanning(t) /\ th[t].pc = "list" /\ th[t].left = {}
    BY <1>7 DEF ScanList, Doing, Scanning
  <2>2. \A l, m : ~ Continues(t, [th[t] EXCEPT !.list = l, !.left = m])
    <3> SUFFICES ASSUME NEW l, NEW m, Continues(t, [th[t] EXCEPT !.list = l, !.left = m])
                 PROVE  FALSE
      OBVIOUS
    <3>1. [th[t] EXCEPT !.list = l, !.left = m].pc = "list"
      BY <1>1, <2>1 DEF Places
    <3> QED
      BY <3>1 DEF Continues, IInv, TypeOK
  <2>3. th[t].list = {} /\ Finish(t, [keys |-> th[t].got])
    BY <1>7, <2>2 DEF ScanList
  <2>4. \A p \in seen[t].always \cap Below(b) : p \in th[t].got
    BY <1>1, <2>1, <2>3 DEF Covered, ToCome, b
  <2>5. th[t].got \subseteq seen[t].ever \cap Below(b)
    BY <1>1, <2>1 DEF Covered, b
  <2> QED
    BY <1>4, <2>3, <2>4, <2>5 DEF b
<1>8. CASE ScanEntry(t)
  <2>1. \A l, m, g : [th[t] EXCEPT !.left = l, !.got = m, !.list = g].pc = th[t].pc
    BY <1>1 DEF Places
  <2>2. \E l, m, g : Continues(t, [th[t] EXCEPT !.left = l, !.got = m, !.list = g])
    BY <1>8 DEF ScanEntry
  <2>3. th[t].pc = "list"
    BY <1>8 DEF ScanEntry, Doing
  <2> QED
    BY <2>1, <2>2, <2>3 DEF Continues, IInv, TypeOK
<1> QED
  BY <1>5, <1>6, <1>7, <1>8, <1>9 DEF Step, MakeDir, OpenToWrite, Write, OpenToRead, Read, Unlink,
     Stat, Doing

LEMMA ScansKept ==
    ASSUME IInv, RInv, NEW u \in Threads, Acts(u), Observe
    PROVE  ScanFaithful'
<1> SUFFICES ASSUME NEW t \in Threads, th'[t].pc = "done", call'[t].op = "scan",
                    ret'[t] \notin {Cancelled, Store!BlobError}
             PROVE  /\ seen'[t].always \cap Below(call'[t].prefix) \subseteq ret'[t].keys
                    /\ ret'[t].keys \subseteq seen'[t].ever \cap Below(call'[t].prefix)
  BY DEF ScanFaithful
<1>1. call'[t] = call[t] /\ seen'[t] = seen[t]
  BY JustDone
<1>2. CASE th[t].pc = "done" /\ ret'[t] = ret[t]
  BY <1>1, <1>2 DEF RInv, ScanFaithful
<1>3. CASE Step(t)
  BY <1>1, <1>3, StepScanned DEF Base
<1> QED
  BY <1>2, <1>3, JustDone

-----------------------------------------------------------------------------
(* The theorems. *)

LEMMA ReadsInductive == IInv /\ RInv /\ [Next]_vars => RInv'
<1> SUFFICES ASSUME IInv, RInv, [Next]_vars PROVE RInv'
  OBVIOUS
<1>1. CASE Next
  <2>1. PICK u \in Threads : Acts(u)
    BY <1>1 DEF Next, Acts
  <2>2. Observe
    BY <1>1 DEF Next
  <2> QED
    BY <2>1, <2>2, TreeKept, ParentFirstKept, NotedKept, CoveredKept, ReadsKept, ScansKept
    DEF RInv
<1>2. CASE UNCHANGED vars
  <2>1. UNCHANGED <<entry, dirs, content, th, call, ret, seen>>
    BY <1>2 DEF vars, files, callers
  <2>2. Tree'
    BY <2>1 DEF RInv, Tree, IsFile, IsDir
  <2>3. \A t \in Threads : ParentFirst(t)'
    BY <2>1 DEF RInv, ParentFirst, Doing, Path, IsDir
  <2>4. \A t \in Threads : Noted(t)'
    BY <2>1 DEF RInv, Noted, Reading, Doing, Path, Content, ContentIn
  <2>5. \A t \in Threads : Covered(t)'
    BY <2>1 DEF RInv, Covered, Scanning, Files, IsFile, ToCome, Base
  <2>6. ReadsRegular' /\ ScanFaithful'
    BY <2>1 DEF RInv, ReadsRegular, ScanFaithful, IsDir, Path
  <2> QED
    BY <2>2, <2>3, <2>4, <2>5, <2>6 DEF RInv
<1> QED
  BY <1>1, <1>2

LEMMA ReadsInitially == Init => RInv
<1> SUFFICES ASSUME Init PROVE RInv
  OBVIOUS
<1>1. /\ dirs = {} /\ \A p \in Paths : entry[p] = None
      /\ \A t \in Threads : th[t] = Outside
  BY DEF Init
<1>2. \A t \in Threads : th[t].pc = "idle"
  BY <1>1 DEF Outside
<1>3. Tree
  BY <1>1 DEF Tree, IsFile
<1>4. \A t \in Threads : ParentFirst(t) /\ Noted(t) /\ Covered(t)
  BY <1>2 DEF ParentFirst, Noted, Reading, Covered, Scanning, Doing
<1>5. ReadsRegular /\ ScanFaithful
  BY <1>2 DEF ReadsRegular, ScanFaithful
<1> QED
  BY <1>3, <1>4, <1>5 DEF RInv

\* Readers have noted what they could read, and walks have before them what
\* they have yet to find.
THEOREM ReadInvariance == Spec => []RInv
<1> QED
  BY Invariance, ReadsInitially, ReadsInductive, PTL DEF Spec

\* get(), exists() and delete() answer with what was true at some moment of
\* the call, in the middle of whatever others write and remove.
THEOREM ReadsAreRegular == Spec => []ReadsRegular
<1>1. RInv => ReadsRegular
  BY DEF RInv
<1> QED
  BY <1>1, ReadInvariance, PTL

\* scan() misses no file that was there all the time and yields none that
\* never was.
THEOREM ScanIsFaithful == Spec => []ScanFaithful
<1>1. RInv => ScanFaithful
  BY DEF RInv
<1> QED
  BY <1>1, ReadInvariance, PTL
==============================================================================
