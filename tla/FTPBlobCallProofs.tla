-------------------------- MODULE FTPBlobCallProofs --------------------------
(***************************************************************************)
(* FTPBlob, continued: what each thread and the server for it are at       *)
(* belongs to the call the thread is in, for every number of clients with  *)
(* an instance each, every key, prefix and value and every number of       *)
(* refusals, aborts and drops.  The commands a call sends are those of its *)
(* operation, with its own arguments; a listing is asked for of the root   *)
(* or of a directory; only the data connection of the call carries         *)
(* anything, and what it brings is of the kind the operation expects.      *)
(* With that the state has its types, as long as no reply is late and no   *)
(* task cancelled: after that a get() may return a listing.                *)
(***************************************************************************)
EXTENDS FTPBlobProofs

-----------------------------------------------------------------------------
(* The inductive invariant: what each thread, and the server for it, is at *)
(* belongs to the call the thread is in.  q is the request call[t].        *)

Calls == Store!Requests \cup [op : Lifecycle]
Reading == {"get", "exists", "scan"}
Busy(r) == r.pc \notin {"idle", "done"}

\* What a call goes through name by name, and the directory it is at.
Target(q) == IF q.op = "scan" THEN q.prefix ELSE q.key
Whole(q) ==
    CASE q.op = "put"                -> Parents(q.key)
      [] q.op \in {"exists", "scan"} -> Target(q)
      [] OTHER                       -> <<>>
Suffix(s, w) == \E j \in 0 .. Len(w) : s = SubSeq(w, j + 1, Len(w))
Where(q, r) == Prefix(Target(q), Len(Target(q)) - Len(r.rest))

\* A listing is asked for of the root, or of a directory that was listed.
Reached(q, r) == q.op \in {"exists", "scan"} => Where(q, r) \in AllDirs \cup {<<>>}

\* The commands of a call that are not transfers, and those that are.
Prepares(q, r, c) ==
    \/ q.op = "open"   /\ c = Command("open", None)
    \/ q.op = "close"  /\ c \in {Command("close", None), Command("QUIT", None)}
    \/ q.op = "put"    /\ r.rest # <<>> /\ c = Command("MKD", Head(r.rest))
    \/ q.op = "delete" /\ c = Command("DELE", q.key)
    \/ q.op = "exists" /\ c \in {Command("SIZE", q.key), Command("MLST", q.key)}
    \/ q.op \in {"exists", "scan"} /\ c = Command("FEAT", None)
    \/ /\ q.op \in Reading \cup {"put"} /\ c = Command("PASV", None) /\ Reached(q, r)
       /\ q.op = "put" => r.rest = <<>>

Moves(q, r, c) ==
    \/ q.op = "put" /\ c = Command("STOR", q.key) /\ r.rest = <<>>
    \/ q.op = "get" /\ c = Command("RETR", q.key)
    \/ q.op \in {"exists", "scan"} /\ c = Command("LIST", Where(q, r)) /\ Reached(q, r)

\* What thread t is at: a command, the login before it, or a transfer.
Asks(q, r) ==
    \/ r.pc \in {"send", "await"} /\ r.resume = None /\ r.port = None /\ Prepares(q, r, r.cmd)
    \/ r.pc \in {"send", "await"} /\ r.port = None /\ Prepares(q, r, r.resume)
       /\ r.cmd \in {Command(name, None) : name \in Logins}
    \/ /\ r.resume = None /\ r.port \in Ports
       /\ \/ r.pc = "dial" /\ Prepares(q, r, r.cmd) /\ r.cmd.name = "PASV"
          \/ r.pc \in {"send", "await"} /\ Moves(q, r, r.cmd)
          \/ r.pc = "data" /\ Moves(q, r, r.cmd) /\ q.op \in Reading
          \/ r.pc = "fill" /\ Moves(q, r, r.cmd) /\ q.op = "put"
          \/ r.pc = "await" /\ r.cmd \in {Command(name, None) : name \in Ends}
             /\ q.op \in Reading \cup {"put"} /\ Reached(q, r) /\ (q.op = "put" => r.rest = <<>>)

Follows(q, r) == q \in Calls /\ Asks(q, r) /\ r.got = {} /\ Suffix(r.rest, Whole(q))

\* Listings, and what the data connection may bring a call.
Lines == [path : Keys \cup AllDirs, isDir : BOOLEAN]
Listings == {d \in SUBSET Lines : \A e \in d : IF e.isDir THEN e.path \in AllDirs ELSE e.path \in Keys}

Fetches(q) ==
    CASE q.op = "get"                -> Values \cup {Torn}
      [] q.op \in {"exists", "scan"} -> Listings
      [] OTHER                       -> {}

\* Only the data connection of the thread is connected, or holds what came.
Carries(q, r, l) ==
    \A p \in Ports :
        /\ l.chan[p].state \in {"connected", "received"} => Busy(r) /\ p = r.port
        /\ l.chan[p].state = "received" => l.chan[p].data \in Fetches(q) \cup {Torn}

Serving(q, r, l) ==
    l.transfer # None =>
        /\ Moves(q, r, l.transfer.cmd) /\ l.transfer.port = r.port
        /\ q.op # "put" => l.transfer.data \in Fetches(q)

\* The port announced in reply to PASV.
Offers(r, l) ==
    r.pc = "await" /\ r.cmd.name = "PASV" =>
        \A p : OneReply(l, p) /\ p.code = 227 => p.info.port \in Ports

\* Until the transfer is over the client keeps its end of it open.
Begins(r, l) ==
    /\ r.cmd.name \in Transfers /\ l.sock = "open"
    /\ r.pc = "send" \/ l.inbox # <<>> \/ l.transfer # None

Holds(r, l) == Begins(r, l) => l.chan[r.port].state = "connected"

Fits(q, r, l) ==
    /\ r.pc \in {"idle", "send", "await", "dial", "data", "fill", "done"}
    /\ r.pc = "idle" => q = None /\ r = Outside
    /\ r.pc = "done" => q \in Calls /\ r = [Outside EXCEPT !.pc = "done"]
    /\ Busy(r) =>
          /\ Follows(q, r) /\ Serving(q, r, l) /\ Offers(r, l) /\ Holds(r, l)
          /\ r.cmd = Command("226", None) /\ q.op # "put" => r.data \in Fetches(q) \cup {Torn}
    /\ Carries(q, r, l)

LinkTyped(l) ==
    /\ l.flavour \in Flavours
    /\ \A p \in Ports :
          /\ l.chan[p].state \in States
          /\ l.chan[p].state = "sent" => l.chan[p].data \in Values \cup {Torn}

FilesTyped == files \in [Keys -> Values \cup {Torn, None}] /\ dirs \subseteq AllDirs

HistoryTyped ==
    /\ call = [t \in Threads |-> call[t]]
    /\ was = [t \in Threads |-> was[t]]
    /\ ret \in [Threads -> Store!Outcomes \cup {[value |-> Torn], Cancelled, None}]
    /\ known \in [Keys -> Values \cup {Unknown, None}]
    /\ alone \in [Threads -> BOOLEAN]

AllFit ==
    /\ FilesTyped /\ HistoryTyped
    /\ \A b \in Blobs : LinkTyped(link[b])
    /\ \A t \in Threads : Fits(call[t], th[t], Link(t))

CInv == faults \in 0 .. MaxFaults /\ (timeouts = 0 => AllFit)

-----------------------------------------------------------------------------
(* Sequences of names, and what is left of them. *)

LEMMA SuffixForms ==
    ASSUME NEW S, NEW w \in Seq(S)
    PROVE  /\ Suffix(w, w) /\ Suffix(<<>>, w)
           /\ \A s : Suffix(s, w) /\ s # <<>> =>
                 /\ Suffix(Tail(s), w) /\ Len(s) \in 1 .. Len(w) /\ Len(Tail(s)) = Len(s) - 1
                 /\ Head(s) = w[Len(w) - Len(s) + 1]
           /\ \A s : Suffix(s, w) => Len(s) \in 0 .. Len(w) /\ (s = <<>> <=> Len(s) = 0)
<1>0. Len(w) \in Nat
  BY LenProperties
<1>1. Suffix(w, w)
  <2>1. SubSeq(w, 0 + 1, Len(w)) = w
    BY SubSeqFull
  <2> QED
    BY <1>0, <2>1 DEF Suffix
<1>2. Suffix(<<>>, w)
  <2>1. SubSeq(w, Len(w) + 1, Len(w)) = <<>>
    BY <1>0, SubSeqEmpty
  <2> QED
    BY <1>0, <2>1 DEF Suffix
<1>3. ASSUME NEW j \in 0 .. Len(w)
      PROVE  LET s == SubSeq(w, j + 1, Len(w)) IN
             /\ s \in Seq(S) /\ Len(s) = Len(w) - j
             /\ \A i \in 1 .. Len(s) : s[i] = w[j + i]
  <2>1. CASE j = Len(w)
    <3>1. SubSeq(w, j + 1, Len(w)) = <<>>
      BY <1>0, <2>1, SubSeqEmpty
    <3> QED
      BY <1>0, <2>1, <3>1, EmptySeq
  <2>2. CASE j # Len(w)
    <3>1. j + 1 \in 1 .. Len(w) + 1 /\ Len(w) \in (j + 1) - 1 .. Len(w)
      BY <1>0, <2>2
    <3>2. DEFINE s == SubSeq(w, j + 1, Len(w))
    <3>3. /\ s \in Seq(S) /\ Len(s) = IF j + 1 <= Len(w) THEN Len(w) - (j + 1) + 1 ELSE 0
          /\ \A i \in 1 .. Len(w) - (j + 1) + 1 : s[i] = w[(j + 1) + i - 1]
      BY <1>0, <3>1, SubSeqProperties
    <3>4. Len(s) = Len(w) - j
      BY <1>0, <2>2, <3>3
    <3>5. \A i \in 1 .. Len(s) : (j + 1) + i - 1 = j + i /\ i \in 1 .. Len(w) - (j + 1) + 1
      BY <1>0, <2>2, <3>4
    <3> QED
      BY <3>3, <3>4, <3>5
  <2> QED
    BY <2>1, <2>2
<1>4. ASSUME NEW s, Suffix(s, w)
      PROVE  Len(s) \in 0 .. Len(w) /\ (s = <<>> <=> Len(s) = 0)
  <2>1. PICK j \in 0 .. Len(w) : s = SubSeq(w, j + 1, Len(w))
    BY <1>4 DEF Suffix
  <2>2. s \in Seq(S) /\ Len(s) = Len(w) - j
    BY <1>3, <2>1
  <2> QED
    BY <1>0, <2>2, EmptySeq
<1>5. ASSUME NEW s, Suffix(s, w), s # <<>>
      PROVE  /\ Suffix(Tail(s), w) /\ Len(s) \in 1 .. Len(w) /\ Len(Tail(s)) = Len(s) - 1
             /\ Head(s) = w[Len(w) - Len(s) + 1]
  <2>1. PICK j \in 0 .. Len(w) : s = SubSeq(w, j + 1, Len(w))
    BY <1>5 DEF Suffix
  <2>2. s \in Seq(S) /\ Len(s) = Len(w) - j /\ \A i \in 1 .. Len(s) : s[i] = w[j + i]
    BY <1>3, <2>1
  <2>3. Len(s) \in 1 .. Len(w) /\ j + 1 \in 0 .. Len(w)
    BY <1>0, <1>4, <1>5, <2>2
  <2>4. Head(s) = s[1] /\ s[1] = w[j + 1] /\ Len(w) - Len(s) + 1 = j + 1
    BY <1>0, <2>2, <2>3
  <2>5. Len(Tail(s)) = Len(s) - 1 /\ Tail(s) \in Seq(S) /\ \A i \in 1 .. Len(Tail(s)) : Tail(s)[i] = s[i + 1]
    BY <1>5, <2>2, HeadTailProperties
  <2> DEFINE u == SubSeq(w, (j + 1) + 1, Len(w))
  <2>6. u \in Seq(S) /\ Len(u) = Len(w) - (j + 1) /\ \A i \in 1 .. Len(u) : u[i] = w[(j + 1) + i]
    BY <1>3, <2>3
  <2> HIDE DEF u
  <2>7. Len(Tail(s)) = Len(u) /\ Len(u) \in Nat
    BY <1>0, <2>2, <2>3, <2>5, <2>6
  <2>8. \A i \in 1 .. Len(u) : Tail(s)[i] = u[i]
    <3> SUFFICES ASSUME NEW i \in 1 .. Len(u) PROVE Tail(s)[i] = u[i]
      OBVIOUS
    <3>1. Tail(s)[i] = s[i + 1] /\ i + 1 \in 1 .. Len(s)
      BY <2>3, <2>5, <2>7
    <3>2. s[i + 1] = w[j + (i + 1)] /\ u[i] = w[(j + 1) + i]
      BY <2>2, <2>6, <3>1
    <3>3. j + (i + 1) = (j + 1) + i
      BY <1>0, <2>7
    <3> QED
      BY <3>1, <3>2, <3>3
  <2>9. Tail(s) = u
    BY <2>5, <2>6, <2>7, <2>8, SeqEqual
  <2> QED
    BY <2>3, <2>4, <2>5, <2>9 DEF Suffix, u
<1> QED
  BY <1>1, <1>2, <1>4, <1>5

\* A prefix and the name after it are a prefix.
LEMMA PrefixNext ==
    ASSUME NEW S, NEW s \in Seq(S), NEW j \in 1 .. Len(s)
    PROVE  Append(Prefix(s, j - 1), s[j]) = Prefix(s, j)
<1> DEFINE a == Prefix(s, j - 1)
           b == Prefix(s, j)
<1>0. Len(s) \in Nat /\ s[j] \in S
  BY LenProperties, ElementOfSeq
<1>1. b \in Seq(S) /\ Len(b) = j /\ \A i \in 1 .. j : b[i] = s[i]
  <2>1. /\ b \in Seq(S) /\ Len(b) = IF 1 <= j THEN j - 1 + 1 ELSE 0
        /\ \A i \in 1 .. j - 1 + 1 : b[i] = s[1 + i - 1]
    BY <1>0, SubSeqProperties DEF Prefix
  <2> QED
    BY <1>0, <2>1
<1>2. a \in Seq(S) /\ Len(a) = j - 1 /\ \A i \in 1 .. j - 1 : a[i] = s[i]
  <2>1. CASE j = 1
    <3>1. a = <<>>
      BY <2>1, SubSeqEmpty DEF Prefix
    <3>2. a \in Seq(S) /\ Len(a) = 0
      BY ONLY <3>1, EmptySeq
    <3>3. 1 .. j - 1 = {} /\ j - 1 = 0
      BY ONLY <2>1
    <3> QED
      BY <3>2, <3>3
  <2>2. CASE j # 1
    <3>1. /\ a \in Seq(S) /\ Len(a) = IF 1 <= j - 1 THEN (j - 1) - 1 + 1 ELSE 0
          /\ \A i \in 1 .. (j - 1) - 1 + 1 : a[i] = s[1 + i - 1]
      BY <1>0, <2>2, SubSeqProperties DEF Prefix
    <3> QED
      BY <1>0, <2>2, <3>1
  <2> QED
    BY <2>1, <2>2
<1> HIDE DEF a, b
<1> DEFINE c == Append(a, s[j])
<1>3. c \in Seq(S) /\ Len(c) = Len(a) + 1 /\ c[Len(a) + 1] = s[j]
      /\ \A i \in 1 .. Len(a) : c[i] = a[i]
  BY <1>0, <1>2, AppendProperties
<1> HIDE DEF c
<1>4. Len(c) = Len(b) /\ \A i \in 1 .. Len(c) : c[i] = b[i]
  BY <1>0, <1>1, <1>2, <1>3
<1>5. c = b
  BY <1>1, <1>3, <1>4, SeqEqual
<1> QED
  BY <1>5 DEF a, b, c

LEMMA ParentsForm ==
    ASSUME NEW k \in Keys
    PROVE  /\ k \in Seq(STRING) /\ Len(k) \in Nat \ {0}
           /\ Parents(k) \in Seq(AllDirs) /\ Len(Parents(k)) = Len(k) - 1
           /\ \A i \in 1 .. Len(k) - 1 : Parents(k)[i] = Prefix(k, i) /\ Prefix(k, i) \in AllDirs
<1>1. k \in Seq(STRING) /\ k # <<>>
  BY PathsAssumption
<1>2. Len(k) \in Nat \ {0}
  BY <1>1, EmptySeq
<1>3. \A i \in 1 .. Len(k) - 1 : Prefix(k, i) \in AllDirs
  BY DEF AllDirs
<1>4. Parents(k) \in [1 .. Len(k) - 1 -> AllDirs]
  BY <1>3 DEF Parents
<1>5. Len(k) - 1 \in Nat
  BY <1>2
<1>6. Parents(k) \in Seq(AllDirs) /\ Len(Parents(k)) = Len(k) - 1
  BY <1>4, <1>5
<1>7. \A i \in 1 .. Len(k) - 1 : Parents(k)[i] = Prefix(k, i)
  BY DEF Parents
<1> QED
  BY <1>1, <1>2, <1>3, <1>6, <1>7

LEMMA WholeForm ==
    ASSUME NEW q \in Calls
    PROVE  \E S : Whole(q) \in Seq(S)
<1>1. CASE q.op = "put"
  <2>1. q.key \in Keys
    BY <1>1 DEF Calls, Store!Requests, Lifecycle
  <2> QED
    BY <1>1, <2>1, ParentsForm DEF Whole
<1>2. CASE q.op \in {"exists", "scan"}
  <2>1. Target(q) \in Seq(STRING)
    BY <1>2, PathsAssumption DEF Calls, Store!Requests, Lifecycle, Target
  <2> QED
    BY <1>2, <2>1 DEF Whole
<1>3. CASE q.op \notin {"put", "exists", "scan"}
  <2>1. Whole(q) = <<>>
    BY <1>3 DEF Whole
  <2> QED
    BY <2>1, EmptySeq
<1> QED
  BY <1>1, <1>2, <1>3

\* Where a call that lists is, before and after a step down.
LEMMA WhereForms ==
    ASSUME NEW q \in Calls, q.op \in {"exists", "scan"}
    PROVE  /\ Target(q) \in Seq(STRING) /\ Whole(q) = Target(q)
           /\ \A r : r.rest = Target(q) => Where(q, r) = <<>>
           /\ \A r : r.rest = <<>> => Where(q, r) = Target(q)
           /\ \A r, s : Suffix(r.rest, Target(q)) /\ r.rest # <<>> /\ s.rest = Tail(r.rest) =>
                 Where(q, s) = Append(Where(q, r), Head(r.rest))
<1> DEFINE w == Target(q)
<1>1. w \in Seq(STRING) /\ Whole(q) = w
  BY PathsAssumption DEF Calls, Store!Requests, Lifecycle, Target, Whole
<1>2. Len(w) \in Nat /\ Len(<<>>) = 0
  BY <1>1, LenProperties, EmptySeq
<1> HIDE DEF w
<1>3. ASSUME NEW r, r.rest = w PROVE Where(q, r) = <<>>
  <2>1. Where(q, r) = SubSeq(w, 1, 0)
    BY <1>2, <1>3 DEF Where, Prefix, w
  <2> QED
    BY <2>1, SubSeqEmpty
<1>4. ASSUME NEW r, r.rest = <<>> PROVE Where(q, r) = w
  <2>1. Where(q, r) = SubSeq(w, 1, Len(w))
    BY <1>2, <1>4 DEF Where, Prefix, w
  <2> QED
    BY <1>1, <2>1, SubSeqFull
<1>5. ASSUME NEW r, NEW s, Suffix(r.rest, w), r.rest # <<>>, s.rest = Tail(r.rest)
      PROVE  Where(q, s) = Append(Where(q, r), Head(r.rest))
  <2>1. /\ Len(r.rest) \in 1 .. Len(w) /\ Len(Tail(r.rest)) = Len(r.rest) - 1
        /\ Head(r.rest) = w[Len(w) - Len(r.rest) + 1]
    BY <1>1, <1>5, SuffixForms
  <2> DEFINE j == Len(w) - Len(r.rest) + 1
  <2>2. j \in 1 .. Len(w) /\ j - 1 = Len(w) - Len(r.rest) /\ j = Len(w) - Len(s.rest)
    <3>1. Len(s.rest) = Len(r.rest) - 1
      BY <1>5, <2>1
    <3>2. \A m \in 1 .. Len(w) : Len(w) - m + 1 \in 1 .. Len(w)
      BY <1>2
    <3> QED
      BY <1>2, <2>1, <3>1, <3>2
  <2>3. Where(q, r) = Prefix(w, j - 1) /\ Where(q, s) = Prefix(w, j)
    BY <2>2 DEF Where, w
  <2> HIDE DEF j
  <2>4. Append(Prefix(w, j - 1), w[j]) = Prefix(w, j)
    BY <1>1, <2>2, PrefixNext
  <2> QED
    BY <2>1, <2>3, <2>4 DEF j
<1> QED
  BY <1>1, <1>3, <1>4, <1>5 DEF w

-----------------------------------------------------------------------------
(* Records. *)

LEMMA SendsFields ==
    ASSUME NEW r, IsPlace(r), NEW name, NEW arg
    PROVE  LET s == Sends(r, name, arg) IN
           /\ s.pc = "send" /\ s.cmd = Command(name, arg)
           /\ s.resume = r.resume /\ s.port = r.port /\ s.rest = r.rest /\ s.got = r.got
           /\ s.data = r.data
<1> DEFINE c == Command(name, arg)
<1> HIDE DEF c
<1>1. LET s == [r EXCEPT !.pc = "send", !.cmd = c] IN
      /\ s.pc = "send" /\ s.cmd = c /\ s.resume = r.resume /\ s.port = r.port
      /\ s.rest = r.rest /\ s.got = r.got /\ s.data = r.data
  BY DEF IsPlace
<1> QED
  BY <1>1 DEF Sends, c

LEMMA ExpectsFields ==
    ASSUME NEW r, IsPlace(r), NEW name
    PROVE  LET s == Expects(r, name) IN
           /\ s.pc = "await" /\ s.cmd = Command(name, None)
           /\ s.resume = r.resume /\ s.port = r.port /\ s.rest = r.rest /\ s.got = r.got
           /\ s.data = r.data
<1> DEFINE c == Command(name, None)
<1> HIDE DEF c
<1>1. LET s == [r EXCEPT !.pc = "await", !.cmd = c] IN
      /\ s.pc = "await" /\ s.cmd = c /\ s.resume = r.resume /\ s.port = r.port
      /\ s.rest = r.rest /\ s.got = r.got /\ s.data = r.data
  BY DEF IsPlace
<1> QED
  BY <1>1 DEF Expects, c

LEMMA OutsideFields ==
    /\ Outside.rest = <<>> /\ Outside.resume = None /\ Outside.port = None /\ Outside.got = {}
    /\ Outside.cmd = None
    /\ LET s == [Outside EXCEPT !.pc = "done"] IN
       s.pc = "done" /\ s.rest = <<>> /\ s.resume = None /\ s.port = None /\ s.got = {} /\ s.cmd = None
BY DEF Outside

\* What the name of its command says a thread is at.
LEMMA AsksByName ==
    ASSUME NEW q, NEW r, Asks(q, r), r.pc \in {"send", "await"}
    PROVE  /\ r.cmd.name \in Logins =>
                 /\ Prepares(q, r, r.resume) /\ r.port = None /\ r.cmd = Command(r.cmd.name, None)
           /\ r.cmd.name \in Transfers =>
                 /\ Moves(q, r, r.cmd) /\ r.resume = None /\ r.port \in Ports
           /\ r.cmd.name \in Ends =>
                 /\ r.pc = "await" /\ r.resume = None /\ r.cmd = Command(r.cmd.name, None)
                 /\ q.op \in Reading \cup {"put"} /\ Reached(q, r) /\ (q.op = "put" => r.rest = <<>>)
                 /\ r.port \in Ports
           /\ Plain(r.cmd.name) => Prepares(q, r, r.cmd) /\ r.resume = None /\ r.port = None
<1>1. \A c : Prepares(q, r, c) => Plain(c.name)
  <2>1. \A c : Prepares(q, r, c) =>
          c.name \in {"open", "close", "QUIT", "MKD", "DELE", "SIZE", "MLST", "FEAT", "PASV"}
    BY DEF Prepares, Command
  <2>2. \A name \in {"open", "close", "QUIT", "MKD", "DELE", "SIZE", "MLST", "FEAT", "PASV"} :
          Plain(name)
    BY DEF Plain, Logins, Transfers, Ends
  <2> QED
    BY <2>1, <2>2
<1>2. \A c : Moves(q, r, c) => c.name \in Transfers
  BY DEF Moves, Command, Transfers
<1>3. \A name : Command(name, None).name = name
  BY DEF Command
<1>4. Transfers \cap Logins = {} /\ Transfers \cap Ends = {} /\ Logins \cap Ends = {}
  BY DEF Transfers, Logins, Ends
<1> QED
  BY <1>1, <1>2, <1>3, <1>4 DEF Asks, Plain

-----------------------------------------------------------------------------
(* The parts of a step. *)

LEMMA OneFits ==
    ASSUME Own, AllFit, NEW t \in Threads, FilesTyped', HistoryTyped',
           \A u \in Threads \ {t} : th'[u] = th[u] /\ call'[u] = call[u],
           \A b \in Blobs \ {Uses[t]} : link'[b] = link[b],
           LinkTyped(link'[Uses[t]]), Fits(call'[t], th'[t], link'[Uses[t]])
    PROVE  AllFit'
<1>1. Uses[t] \in Blobs /\ \A u \in Threads : Uses[u] \in Blobs
  BY UsesAssumption
<1>2. \A u \in Threads \ {t} : Uses[u] # Uses[t]
  BY DEF Own
<1>3. \A u \in Threads : Fits(call'[u], th'[u], link'[Uses[u]])
  BY <1>1, <1>2 DEF AllFit, Link
<1>4. \A b \in Blobs : LinkTyped(link'[b])
  BY <1>1 DEF AllFit
<1> QED
  BY <1>3, <1>4 DEF AllFit, Link

LEMMA ServerFits ==
    ASSUME Own, AllInStep, AllFit, NEW b \in Blobs, link[b].sock = "open" \/ link[b].transfer # None,
           NEW m, UNCHANGED <<th, callers>>, link' = [link EXCEPT ![b] = m],
           FilesTyped', LinkTyped(m),
           \A t \in Threads : Uses[t] = b /\ InStep(th[t], link[b]) /\ Fits(call[t], th[t], link[b])
                                => Fits(call[t], th[t], m)
    PROVE  AllFit'
<1>1. PICK t \in Threads : Uses[t] = b
  BY DEF AllInStep, Unused, AtRest, NoWork
<1>2. link'[Uses[t]] = m /\ \A d \in Blobs \ {Uses[t]} : link'[d] = link[d]
  BY <1>1 DEF AllInStep
<1>3. HistoryTyped'
  BY DEF AllFit, HistoryTyped, callers
<1>4. Fits(call[t], th[t], m)
  BY <1>1 DEF AllInStep, AllFit, Link
<1> QED
  BY <1>2, <1>3, <1>4, OneFits DEF callers

LEMMA ContinuesFits ==
    ASSUME Own, AllInStep, AllFit, NEW t \in Threads, NEW r, NEW m, Continues(t, r, m),
           LinkTyped(m), Fits(call[t], r, m)
    PROVE  AllFit'
<1>1. Uses[t] \in Blobs
  BY UsesAssumption
<1>2. /\ th'[t] = r /\ link'[Uses[t]] = m
      /\ \A u \in Threads \ {t} : th'[u] = th[u]
      /\ \A b \in Blobs \ {Uses[t]} : link'[b] = link[b]
      /\ UNCHANGED <<server, callers>>
  BY <1>1 DEF AllInStep, Continues
<1>3. FilesTyped' /\ HistoryTyped'
  BY <1>2 DEF AllFit, FilesTyped, HistoryTyped, server, callers
<1> QED
  BY <1>2, <1>3, OneFits DEF callers

\* A data connection that is closed, or was none.
LEMMA CloseDataFits ==
    ASSUME NEW l, IsLink(l), NEW port \in Ports \cup {None}, LinkTyped(l)
    PROVE  LET m == CloseData(l, port) IN
           /\ LinkTyped(m)
           /\ \A p \in Ports : p # port => m.chan[p] = l.chan[p]
           /\ port \in Ports => m.chan[port].state \notin {"connected", "received"}
<1>1. CASE port = None
  BY <1>1, PortsAssumption DEF CloseData
<1>2. CASE port \in Ports
  <2>0. port # None
    BY <1>2, PortsAssumption
  <2> DEFINE c == CASE l.chan[port].state = "connected"       -> Chan("cut", None)
                    [] l.chan[port].state \in {"sent", "cut"} -> l.chan[port]
                    [] OTHER                                  -> Free
             m == [l EXCEPT !.chan[port] = c]
  <2>1. CloseData(l, port) = m
    BY <2>0 DEF CloseData
  <2>2. /\ c.state \in States /\ c.state \notin {"connected", "received"}
        /\ c.state = "sent" => c.data \in Values \cup {Torn}
    BY <1>2 DEF Chan, Free, States, LinkTyped
  <2> HIDE DEF c
  <2>3. m.flavour = l.flavour /\ \A p \in Ports : m.chan[p] = IF p = port THEN c ELSE l.chan[p]
    BY <1>2 DEF IsLink
  <2> HIDE DEF m
  <2>4. LinkTyped(m)
    BY <2>2, <2>3 DEF LinkTyped
  <2> QED
    BY <1>2, <2>1, <2>2, <2>3, <2>4
<1> QED
  BY <1>1, <1>2

LEMMA HangUpFits ==
    ASSUME NEW l, LinkTyped(l)
    PROVE  LET m == HangUp(l) IN
           /\ LinkTyped(m) /\ m.flavour = l.flavour
           /\ \A p \in Ports : m.chan[p].state = "free"
<1> DEFINE d == Disconnected(l.flavour)
<1>1. IsLink(d) /\ d.flavour = l.flavour /\ \A p \in Ports : d.chan[p] = Free
  BY DEF Disconnected, IsLink
<1> HIDE DEF d
<1>2. LET m == [d EXCEPT !.buffer = l.buffer, !.left = l.left, !.features = l.features] IN
      m.flavour = l.flavour /\ \A p \in Ports : m.chan[p] = Free
  BY <1>1 DEF IsLink
<1>3. HangUp(l) = [d EXCEPT !.buffer = l.buffer, !.left = l.left, !.features = l.features]
  BY DEF HangUp, d
<1> QED
  BY <1>2, <1>3 DEF LinkTyped, Free, Chan, States

\* What a call may end with.
Results == Store!Outcomes \cup {[value |-> Torn], Cancelled}

LEMMA FinishFits ==
    ASSUME Own, AllInStep, AllFit, NEW t \in Threads, Busy(th[t]), NEW o \in Results, NEW l,
           Finish(t, o, l), IsLink(l), LinkTyped(l),
           \A p \in Ports : l.chan[p].state \in {"connected", "received"} => p = th[t].port
    PROVE  AllFit'
<1> DEFINE r == [Outside EXCEPT !.pc = "done"]
           m == CloseData(l, th[t].port)
<1>1. Uses[t] \in Blobs
  BY UsesAssumption
<1>2. /\ th'[t] = r /\ link'[Uses[t]] = m
      /\ \A u \in Threads \ {t} : th'[u] = th[u]
      /\ \A b \in Blobs \ {Uses[t]} : link'[b] = link[b]
      /\ UNCHANGED <<server, call, was, alone>>
  BY <1>1 DEF AllInStep, Finish
<1>3. /\ call[t] \in Calls
      /\ \A k \in {call[t].key} : call[t].op \in Mutators => k \in Keys
      /\ call[t].op = "put" => call[t].data \in Values
  <2>1. call[t] \in Calls
    BY DEF AllFit, Fits, Follows
  <2> QED
    BY <2>1 DEF Calls, Store!Requests, Lifecycle, Mutators
<1>4. Learned(t, o) \in Values \cup {Unknown, None} \/ call[t].op \notin Mutators
  BY <1>3 DEF Learned, Mutators
<1>5. known' \in [Keys -> Values \cup {Unknown, None}]
  BY <1>4 DEF Finish, AllFit, HistoryTyped
<1>6. ret' \in [Threads -> Store!Outcomes \cup {[value |-> Torn], Cancelled, None}]
  BY DEF Finish, AllFit, HistoryTyped, Results
<1>7. FilesTyped' /\ HistoryTyped'
  BY <1>2, <1>5, <1>6 DEF AllFit, FilesTyped, HistoryTyped, server
<1>8. /\ LinkTyped(m) /\ \A p \in Ports : m.chan[p].state \notin {"connected", "received"}
  <2>1. th[t].port \in Ports \cup {None}
    BY DEF AllFit, Fits, Follows, Asks
  <2> QED
    BY <2>1, CloseDataFits
<1>9. r.pc = "done" /\ ~ Busy(r)
  BY OutsideForm DEF Busy
<1> HIDE DEF r, m
<1>10. Fits(call[t], r, m)
  BY <1>3, <1>8, <1>9 DEF Fits, Carries, r
<1> QED
  BY <1>2, <1>7, <1>8, <1>10, OneFits

-----------------------------------------------------------------------------
(* Replies. *)

\* There is no reply under way, or one, or two, and which they are is certain.
LEMMA RepliesApart ==
    ASSUME NEW l
    PROVE  /\ \A p : OneReply(l, p) => ~ Silent(l)
           /\ \A p, q : OneReply(l, p) /\ OneReply(l, q) => p = q
           /\ \A p, q, s : OneReply(l, p) => ~ TwoReplies(l, q, s)
           /\ \A p, q, s, u : TwoReplies(l, p, s) /\ TwoReplies(l, q, u) => p = q /\ s = u
           /\ \A q, s : TwoReplies(l, q, s) => ~ Silent(l)
<1>1. \A x : <<x>> # <<>> /\ Head(<<x>>) = x /\ Len(<<x>>) = 1
  BY SequencesOfOne
<1>2. \A x, y : /\ <<x, y>> # <<>> /\ Head(<<x, y>>) = x /\ Tail(<<x, y>>) = <<y>>
                /\ Len(<<x, y>>) = 2
  BY SequencesOfTwo
<1>3. \A x, y : <<x>> = <<y>> => x = y
  BY <1>1
<1>4. \A x, y, z : <<x>> # <<y, z>>
  BY <1>1, <1>2
<1>5. \A x, y, z, v : <<x, y>> = <<z, v>> => x = z /\ y = v
  BY <1>2, <1>3
<1>6. \A p : OneReply(l, p) => ~ Silent(l)
  BY <1>1 DEF OneReply, Silent
<1>7. \A p, q : OneReply(l, p) /\ OneReply(l, q) => p = q
  BY <1>1, <1>3 DEF OneReply
<1>8. \A p, q, s : OneReply(l, p) => ~ TwoReplies(l, q, s)
  BY <1>1, <1>2, <1>4 DEF OneReply, TwoReplies
<1>9. \A p, q, s, u : TwoReplies(l, p, s) /\ TwoReplies(l, q, u) => p = q /\ s = u
  BY <1>1, <1>2, <1>3, <1>4, <1>5 DEF TwoReplies
<1>10. \A q, s : TwoReplies(l, q, s) => ~ Silent(l)
  BY <1>1, <1>2 DEF TwoReplies, Silent
<1> QED
  BY <1>6, <1>7, <1>8, <1>9, <1>10

\* What a reply means does not change on its way.
LEMMA RecvReplies ==
    ASSUME NEW r, NEW l, NEW m, NEW n \in 1 .. Len(l.wire),
           InStep(r, l), r.pc = "await", l.buffer = <<>>,
           m.buffer = SubSeq(l.wire, 1, n), m.wire = SubSeq(l.wire, n + 1, Len(l.wire))
    PROVE  /\ \A p : OneReply(m, p) => OneReply(l, p)
           /\ \A p, s : TwoReplies(m, p, s) => TwoReplies(l, p, s)
           /\ ~ Silent(m)
<1>1. ASSUME NEW q, OneReply(l, q) PROVE OneReply(m, q)
  <2>1. l.wire = <<q>>
    BY <1>1, SequencesOfOne DEF OneReply
  <2>2. n = 1 /\ Len(l.wire) = 1
    BY <2>1, SequencesOfOne
  <2>3. m.buffer = <<q>> /\ m.wire = <<>>
    BY <2>1, <2>2, SequencesOfOne
  <2> QED
    BY <2>3 DEF OneReply
<1>2. ASSUME NEW q, NEW s, TwoReplies(l, q, s) PROVE TwoReplies(m, q, s)
  <2>1. l.wire = <<q, s>>
    BY <1>2, SequencesOfOne, SequencesOfTwo DEF TwoReplies
  <2>2. (n = 1 \/ n = 2) /\ Len(l.wire) = 2
    BY <2>1, SequencesOfTwo
  <2>3. CASE n = 1
    <3>1. m.buffer = SubSeq(<<q, s>>, 1, 1) /\ m.wire = SubSeq(<<q, s>>, 2, 2)
      BY <2>1, <2>2, <2>3
    <3>2. m.buffer = <<q>> /\ m.wire = <<s>>
      BY <3>1, SequencesOfTwo
    <3> QED
      BY <3>2 DEF TwoReplies
  <2>4. CASE n = 2
    <3>1. m.buffer = SubSeq(<<q, s>>, 1, 2) /\ m.wire = SubSeq(<<q, s>>, 3, 2)
      BY <2>1, <2>2, <2>4
    <3>2. m.buffer = <<q, s>> /\ m.wire = <<>>
      BY <3>1, SequencesOfTwo
    <3> QED
      BY <3>2 DEF TwoReplies
  <2> QED
    BY <2>2, <2>3, <2>4
<1>3. ~ Silent(l)
  <2>1. Len(<<>>) = 0
    OBVIOUS
  <2> QED
    BY <2>1 DEF Silent
<1>4. (\E q : OneReply(l, q)) \/ \E q, s : TwoReplies(l, q, s)
  BY <1>3 DEF InStep, Between, ToSend, ToDial, Asking, Lost, AskingTransfer, Moving, Ending, Asked, Gone,
              AtRest, Answering
<1>5. CASE \E q : OneReply(l, q)
  <2>1. PICK q : OneReply(l, q)
    BY <1>5
  <2>2. OneReply(m, q)
    BY <1>1, <2>1
  <2> QED
    BY <2>1, <2>2, RepliesApart
<1>6. CASE \E q, s : TwoReplies(l, q, s)
  <2>1. PICK q, s : TwoReplies(l, q, s)
    BY <1>6
  <2>2. TwoReplies(m, q, s)
    BY <1>2, <2>1
  <2> QED
    BY <2>1, <2>2, RepliesApart
<1> QED
  BY <1>4, <1>5, <1>6

\* The reply a client takes is the only one, or the first of a transfer.
LEMMA TakenReply ==
    ASSUME NEW r, NEW l, InStep(r, l), r.pc = "await", l.buffer # <<>>
    PROVE  OneReply(l, Head(l.buffer)) \/ \E s : TwoReplies(l, Head(l.buffer), s)
<1>1. ~ Silent(l)
  BY DEF Silent
<1>2. (\E q : OneReply(l, q)) \/ \E q, s : TwoReplies(l, q, s)
  BY <1>1 DEF InStep, Between, ToSend, ToDial, Asking, Lost, AskingTransfer, Moving, Ending, Asked, Gone,
              AtRest, Answering
<1>3. ASSUME NEW q, OneReply(l, q) PROVE Head(l.buffer) = q
  BY <1>3, SequencesOfOne DEF OneReply
<1>4. ASSUME NEW q, NEW s, TwoReplies(l, q, s) PROVE Head(l.buffer) = q
  <2>1. l.buffer = <<q>> \/ l.buffer = <<q, s>>
    BY <1>4 DEF TwoReplies
  <2> QED
    BY <2>1, SequencesOfOne, SequencesOfTwo
<1> QED
  BY <1>2, <1>3, <1>4

\* Outside transfers it is the only one.
LEMMA OnlyReply ==
    ASSUME NEW r, NEW l, InStep(r, l), r.pc = "await", l.buffer # <<>>, r.cmd.name \notin Transfers
    PROVE  OneReply(l, Head(l.buffer))
<1>1. ASSUME NEW q, NEW s, TwoReplies(l, q, s) PROVE FALSE
  <2>1. \A p : ~ OneReply(l, p)
    BY <1>1, RepliesApart
  <2>2. ~ Silent(l)
    BY <1>1, RepliesApart
  <2> QED
    BY <2>1, <2>2 DEF InStep, Between, ToSend, ToDial, Asking, Lost, AskingTransfer, Moving, Ending, Asked,
                      Gone, AtRest, Answering
<1> QED
  BY <1>1, TakenReply

-----------------------------------------------------------------------------
(* The steps of the server. *)

\* The answer to a command, which begins no transfer.
LEMMA AnswerFits ==
    ASSUME NEW q, NEW r, NEW l, NEW m, NEW a, InStep(r, l), Fits(q, r, l),
           l.sock = "open", l.transfer = None, l.inbox # <<>>,
           m.transfer = None, m.inbox = <<>>, m.buffer = l.buffer, m.wire = Append(l.wire, a),
           a.code = 227 => a.info.port \in Ports, Carries(q, r, m)
    PROVE  Fits(q, r, m)
<1>1. r.pc = "await" /\ Silent(l)
  BY PendingIsAsked DEF Asked
<1>2. OneReply(m, a)
  BY <1>1, SequencesOfOne DEF Silent, OneReply
<1>3. Offers(r, m)
  BY <1>2, RepliesApart DEF Offers
<1>4. Serving(q, r, m) /\ Holds(r, m)
  BY <1>1 DEF Serving, Holds, Begins
<1> QED
  BY <1>1, <1>3, <1>4 DEF Fits

\* Data connections that stay, are closed, or are cut short.
LEMMA CarriesOn ==
    ASSUME NEW q, NEW r, NEW l, NEW m, Carries(q, r, l),
           \A p \in Ports : \/ m.chan[p] = l.chan[p]
                            \/ m.chan[p].state \notin {"connected", "received"}
                            \/ l.chan[p].state = "connected" /\ m.chan[p] = Chan("received", Torn)
    PROVE  Carries(q, r, m)
BY DEF Carries, Chan

LEMMA PlainAnswersFit ==
    ASSUME Own, AllInStep, AllFit, NEW b \in Blobs, Pending(b), UNCHANGED <<th, callers>>,
           FilesTyped', NEW code, code # 227, NEW info, NEW in, AnswersAs(b, code, info, in)
    PROVE  AllFit'
<1> DEFINE l == link[b]
           a == Reply(code, info)
           m == [l EXCEPT !.inbox = Tail(@), !.wire = Append(@, a), !.loggedIn = in]
<1>1. link' = [link EXCEPT ![b] = m]
  BY DEF AllInStep, AnswersAs
<1>2. IsLink(l) /\ l.sock = "open" /\ l.transfer = None /\ l.inbox # <<>> /\ LinkTyped(l)
  BY DEF AllInStep, Pending, AllFit
<1>3. /\ m.transfer = None /\ m.inbox = Tail(l.inbox) /\ m.buffer = l.buffer /\ m.chan = l.chan
      /\ m.wire = Append(l.wire, a) /\ m.flavour = l.flavour
  BY <1>2 DEF IsLink
<1>4. a.code # 227
  BY DEF Reply
<1> HIDE DEF m, l, a
<1>5. LinkTyped(m)
  BY <1>2, <1>3 DEF LinkTyped
<1>6. ASSUME NEW t \in Threads, InStep(th[t], l), Fits(call[t], th[t], l)
      PROVE  Fits(call[t], th[t], m)
  <2>1. Carries(call[t], th[t], m)
    BY <1>3, <1>6 DEF Fits, Carries
  <2>2. m.inbox = <<>>
    BY <1>2, <1>3, <1>6, PendingIsAsked
  <2> QED
    BY <1>2, <1>3, <1>4, <1>6, <2>1, <2>2, AnswerFits
<1> QED
  BY <1>1, <1>2, <1>5, <1>6, ServerFits DEF l

LEMMA AnswersFit ==
    ASSUME Own, AllInStep, AllFit, NEW b \in Blobs, Pending(b), UNCHANGED <<th, callers>>,
           FilesTyped', NEW code, code # 227, NEW info, Answers(b, code, info)
    PROVE  AllFit'
<1>1. AnswersAs(b, code, info, link[b].loggedIn)
  BY DEF AllInStep, Answers, AnswersAs, IsLink
<1> QED
  BY <1>1, PlainAnswersFit

\* The end of a connection.
LEMMA EndedFits ==
    ASSUME NEW l, IsLink(l), LinkTyped(l)
    PROVE  LET m == Ended(l) IN
           /\ LinkTyped(m)
           /\ \A p \in Ports : \/ m.chan[p] = l.chan[p]
                               \/ m.chan[p].state \notin {"connected", "received"}
                               \/ l.chan[p].state = "connected" /\ m.chan[p] = Chan("received", Torn)
<1> DEFINE c == [p \in Ports |->
                  CASE l.chan[p].state = "received"  -> l.chan[p]
                    [] l.chan[p].state = "connected" -> Chan("received", Torn)
                    [] OTHER                         -> Free]
           m == [l EXCEPT !.sock = "dropped", !.inbox = <<>>, !.transfer = None, !.listen = None,
                          !.chan = c]
<1>1. Ended(l) = m
  BY DEF Ended, IsLink
<1>2. m.flavour = l.flavour /\ m.chan = c
  BY DEF IsLink
<1>3. \A p \in Ports : c[p] = CASE l.chan[p].state = "received"  -> l.chan[p]
                                [] l.chan[p].state = "connected" -> Chan("received", Torn)
                                [] OTHER                         -> Free
  OBVIOUS
<1> HIDE DEF m, c
<1>4. \A p \in Ports : \/ l.chan[p].state = "received" /\ m.chan[p] = l.chan[p]
                       \/ l.chan[p].state = "connected" /\ m.chan[p] = Chan("received", Torn)
                       \/ m.chan[p] = Free
  BY <1>2, <1>3
<1>5. /\ Chan("received", Torn).state = "received" /\ "received" \in States
      /\ Free.state = "free" /\ "free" \in States
  BY DEF Chan, Free, States
<1>6. LinkTyped(m)
  BY <1>2, <1>4, <1>5 DEF LinkTyped
<1>7. \A p \in Ports : \/ m.chan[p] = l.chan[p]
                       \/ m.chan[p].state \notin {"connected", "received"}
                       \/ l.chan[p].state = "connected" /\ m.chan[p] = Chan("received", Torn)
  BY <1>4, <1>5
<1> QED
  BY <1>1, <1>6, <1>7

LEMMA DropFits ==
    ASSUME Own, AllInStep, AllFit, NEW b \in Blobs, Drop(b)
    PROVE  AllFit'
<1> DEFINE l == link[b]
           e == Ended(l)
<1>0. PICK bye \in {None, "421", "part"} : link' = [link EXCEPT ![b] = [e EXCEPT !.bye = bye]]
  BY DEF Drop
<1> DEFINE m == [e EXCEPT !.bye = bye]
<1>1. /\ IsLink(l) /\ LinkTyped(l) /\ l.sock = "open" /\ link' = [link EXCEPT ![b] = m]
      /\ UNCHANGED <<th, callers>> /\ FilesTyped'
  BY <1>0 DEF AllInStep, AllFit, FilesTyped, Drop, server
<1>2. /\ m.sock = "dropped" /\ m.transfer = None /\ m.buffer = l.buffer /\ m.wire = l.wire
      /\ m.chan = e.chan /\ m.flavour = e.flavour
  <2>1. /\ IsLink(m) /\ m.sock = "dropped" /\ m.inbox = <<>> /\ m.transfer = None
        /\ m.buffer = l.buffer /\ m.wire = l.wire /\ m.listen = None /\ m.left = l.left
        /\ m.chan = Ended(l).chan /\ m.flavour = Ended(l).flavour
    BY <1>1, DroppedForm
  <2> QED
    BY <2>1
<1>3. /\ LinkTyped(m)
      /\ \A p \in Ports : \/ m.chan[p] = l.chan[p]
                          \/ m.chan[p].state \notin {"connected", "received"}
                          \/ l.chan[p].state = "connected" /\ m.chan[p] = Chan("received", Torn)
  <2>1. /\ LinkTyped(e)
        /\ \A p \in Ports : \/ e.chan[p] = l.chan[p]
                            \/ e.chan[p].state \notin {"connected", "received"}
                            \/ l.chan[p].state = "connected" /\ e.chan[p] = Chan("received", Torn)
    BY <1>1, EndedFits
  <2> HIDE DEF m, e, l
  <2> QED
    BY <1>2, <2>1 DEF LinkTyped
<1> HIDE DEF m, e, l
<1>4. ASSUME NEW t \in Threads, Fits(call[t], th[t], l) PROVE Fits(call[t], th[t], m)
  <2>1. Carries(call[t], th[t], m)
    BY <1>3, <1>4, CarriesOn DEF Fits
  <2>2. Serving(call[t], th[t], m) /\ Holds(th[t], m)
    BY <1>2 DEF Serving, Holds, Begins
  <2>3. \A p : OneReply(m, p) => OneReply(l, p)
    BY <1>2 DEF OneReply
  <2>4. Offers(th[t], l) => Offers(th[t], m)
    BY <2>3 DEF Offers
  <2> QED
    BY <1>4, <2>1, <2>2, <2>4 DEF Fits
<1> QED
  BY <1>1, <1>3, <1>4, ServerFits DEF l

LEMMA QuitFits ==
    ASSUME Own, AllInStep, AllFit, NEW b \in Blobs, ServeQuit(b)
    PROVE  AllFit'
<1> DEFINE l == link[b]
           a == Reply(221, None)
           e == [l EXCEPT !.wire = Append(@, a)]
           m == Ended(e)
<1>1. /\ IsLink(l) /\ LinkTyped(l) /\ l.sock = "open" /\ l.transfer = None /\ l.inbox # <<>>
      /\ UNCHANGED <<th, callers>> /\ FilesTyped'
  BY DEF AllInStep, AllFit, FilesTyped, ServeQuit, Serves, Pending, server
<1>2. link' = [link EXCEPT ![b] = m]
  BY DEF ServeQuit
<1>3. /\ IsLink(e) /\ e.wire = Append(l.wire, a) /\ e.buffer = l.buffer /\ e.chan = l.chan
      /\ e.flavour = l.flavour
  BY <1>1 DEF IsLink
<1>4. LinkTyped(e)
  BY <1>1, <1>3 DEF LinkTyped
<1> HIDE DEF e
<1>5. /\ m.sock = "dropped" /\ m.inbox = <<>> /\ m.transfer = None
      /\ m.buffer = l.buffer /\ m.wire = Append(l.wire, a)
  BY <1>3, EndedForm
<1>6. /\ LinkTyped(m)
      /\ \A p \in Ports : \/ m.chan[p] = l.chan[p]
                          \/ m.chan[p].state \notin {"connected", "received"}
                          \/ l.chan[p].state = "connected" /\ m.chan[p] = Chan("received", Torn)
  BY <1>3, <1>4, EndedFits
<1>7. a.code # 227
  BY DEF Reply
<1> HIDE DEF m, a, l
<1>8. ASSUME NEW t \in Threads, InStep(th[t], l), Fits(call[t], th[t], l)
      PROVE  Fits(call[t], th[t], m)
  <2>1. Carries(call[t], th[t], m)
    BY <1>6, <1>8, CarriesOn DEF Fits
  <2> QED
    BY <1>1, <1>5, <1>7, <1>8, <2>1, AnswerFits
<1> QED
  BY <1>1, <1>2, <1>6, <1>8, ServerFits DEF l

LEMMA PasvFits ==
    ASSUME Own, AllInStep, AllFit, NEW b \in Blobs, ServePasv(b)
    PROVE  AllFit'
<1> DEFINE l == link[b]
<1>1. PICK p \in Ports :
        link' = [link EXCEPT
            ![b].inbox = Tail(@),
            ![b].wire = Append(@, Reply(227, [port |-> p])),
            ![b].listen = p,
            ![b].chan = [q \in Ports |->
                IF q = p THEN Chan("listen", None)
                ELSE IF @[q].state \in {"listen", "cut"} THEN Free ELSE @[q]]]
  BY DEF ServePasv
<1> DEFINE c == [q \in Ports |->
                IF q = p THEN Chan("listen", None)
                ELSE IF l.chan[q].state \in {"listen", "cut"} THEN Free ELSE l.chan[q]]
           a == Reply(227, [port |-> p])
           m == [l EXCEPT !.inbox = Tail(@), !.wire = Append(@, a), !.listen = p, !.chan = c]
<1>2. /\ IsLink(l) /\ LinkTyped(l) /\ l.sock = "open" /\ l.transfer = None /\ l.inbox # <<>>
      /\ UNCHANGED <<th, callers>> /\ FilesTyped'
  BY DEF AllInStep, AllFit, FilesTyped, ServePasv, Serves, Pending, server
<1>3. link' = [link EXCEPT ![b] = m]
  BY <1>1
<1>4. \A q \in Ports : c[q] \in {Chan("listen", None), Free, l.chan[q]}
  OBVIOUS
<1>5. a.info.port = p
  BY DEF Reply
<1> HIDE DEF c, a
<1>6. /\ m.transfer = None /\ m.inbox = Tail(l.inbox) /\ m.flavour = l.flavour
      /\ m.buffer = l.buffer /\ m.wire = Append(l.wire, a) /\ m.chan = c
  BY <1>2 DEF IsLink
<1> HIDE DEF m
<1>7. /\ Chan("listen", None).state = "listen" /\ "listen" \in States
      /\ Free.state = "free" /\ "free" \in States
  BY DEF Chan, Free, States
<1>8. LinkTyped(m)
  BY <1>2, <1>4, <1>6, <1>7 DEF LinkTyped
<1>9. \A q \in Ports : m.chan[q] = l.chan[q] \/ m.chan[q].state \notin {"connected", "received"}
  BY <1>4, <1>6, <1>7
<1> HIDE DEF l
<1>10. ASSUME NEW t \in Threads, InStep(th[t], l), Fits(call[t], th[t], l)
       PROVE  Fits(call[t], th[t], m)
  <2>1. Carries(call[t], th[t], m)
    BY <1>9, <1>10, CarriesOn DEF Fits
  <2>2. m.inbox = <<>>
    BY <1>2, <1>6, <1>10, PendingIsAsked
  <2> QED
    BY <1>2, <1>5, <1>6, <1>10, <2>1, <2>2, AnswerFits
<1> QED
  BY <1>2, <1>3, <1>8, <1>10, ServerFits DEF l

LEMMA ListingTyped ==
    ASSUME FilesTyped, NEW p
    PROVE  Listing(p) \in Listings
<1>1. ASSUME NEW e \in Listing(p)
      PROVE  e \in Lines /\ IF e.isDir THEN e.path \in AllDirs ELSE e.path \in Keys
  <2>1. PICK k \in Keys \cup AllDirs :
          (IsFile(k) \/ k \in dirs) /\ e = [path |-> k, isDir |-> k \in dirs]
    BY <1>1 DEF Listing
  <2>2. e.path = k /\ e.isDir = (k \in dirs) /\ e \in Lines
    BY <2>1 DEF Lines
  <2>3. k \in dirs => k \in AllDirs
    BY DEF FilesTyped
  <2>4. k \notin dirs => k \in Keys
    BY <2>1 DEF IsFile
  <2> QED
    BY <2>2, <2>3, <2>4
<1> QED
  BY <1>1 DEF Listings

\* What the server reads for a call is what the call is to have.
LEMMA ContentFetched ==
    ASSUME FilesTyped, NEW q, NEW r, NEW c, Moves(q, r, c), q.op # "put", q \in Calls,
           Transferable(c.name, c.arg) \/ Content(c.name, c.arg) # None
    PROVE  c.name \in {"RETR", "LIST"} /\ Content(c.name, c.arg) \in Fetches(q)
<1>1. CASE q.op = "get"
  <2>1. c.name = "RETR" /\ c.arg = q.key
    BY <1>1 DEF Moves, Command
  <2>2. q.key \in Keys
    BY <1>1 DEF Calls, Store!Requests, Lifecycle
  <2>3. files[q.key] # None
    BY <2>1 DEF Transferable, Content, IsFile
  <2>4. files[q.key] \in Values \cup {Torn}
    BY <2>2, <2>3 DEF FilesTyped
  <2> QED
    BY <1>1, <2>1, <2>4 DEF Content, Fetches
<1>2. CASE q.op \in {"exists", "scan"}
  <2>1. c.name = "LIST"
    BY <1>2 DEF Moves, Command
  <2> QED
    BY <1>2, <2>1, ListingTyped DEF Content, Fetches
<1> QED
  BY <1>1, <1>2 DEF Moves

LEMMA StartFits ==
    ASSUME Own, NoneIsNoRecord, AllInStep, AllFit, NEW b \in Blobs, NEW name \in Transfers,
           StartTransfer(b, name)
    PROVE  AllFit'
<1> DEFINE l == link[b]
           tr == [cmd |-> Head(l.inbox), port |-> l.listen, data |-> Content(name, Told(b))]
           a == Reply(150, None)
           m == [l EXCEPT !.inbox = Tail(@), !.wire = Append(@, a), !.transfer = tr]
<1>1. /\ IsLink(l) /\ LinkTyped(l) /\ l.sock = "open" /\ l.transfer = None /\ l.inbox # <<>>
      /\ Head(l.inbox).name = name /\ Told(b) = Head(l.inbox).arg /\ Pending(b)
      /\ UNCHANGED <<th, callers>>
  BY DEF AllInStep, AllFit, StartTransfer, Serves, Pending, Told
<1>2. FilesTyped'
  BY DEF AllFit, FilesTyped, StartTransfer
<1>3. CASE Transferable(name, Told(b)) /\ Attached(b)
  <2>1. link' = [link EXCEPT ![b] = m]
    BY <1>1, <1>3 DEF AllInStep, StartTransfer
  <2>2. tr.cmd = Head(l.inbox) /\ tr.port = l.listen /\ tr.data = Content(name, Told(b))
    OBVIOUS
  <2> HIDE DEF tr, a
  <2>3. /\ m.transfer = tr /\ m.inbox = Tail(l.inbox) /\ m.flavour = l.flavour /\ m.chan = l.chan
        /\ m.buffer = l.buffer /\ m.wire = Append(l.wire, a) /\ m.sock = l.sock
    BY <1>1 DEF IsLink
  <2> HIDE DEF m
  <2>4. LinkTyped(m)
    BY <1>1, <2>3 DEF LinkTyped
  <2>5. ASSUME NEW t \in Threads, InStep(th[t], l), Fits(call[t], th[t], l)
        PROVE  Fits(call[t], th[t], m)
    <3> DEFINE q == call[t]
               r == th[t]
    <3>1. /\ r.pc = "await" /\ Head(l.inbox) = r.cmd /\ r.cmd.name \in Transfers
          /\ l.listen = r.port
      <4>1. name \notin Logins \cup Ends
        BY DEF Transfers, Logins, Ends
      <4> QED
        BY <1>1, <2>5, <4>1, PendingIsAsked
    <3>2. Busy(r) /\ Follows(q, r) /\ Holds(r, l)
      BY <2>5, <3>1 DEF Fits, Busy
    <3>3. Moves(q, r, r.cmd) /\ q \in Calls
      BY <3>1, <3>2, AsksByName DEF Follows
    <3> HIDE DEF q, r
    <3>4. q.op # "put" => tr.data \in Fetches(q)
      <4>1. Transferable(r.cmd.name, r.cmd.arg)
        BY <1>1, <1>3, <3>1
      <4>2. FilesTyped
        BY DEF AllFit
      <4>3. tr.data = Content(r.cmd.name, r.cmd.arg)
        BY <1>1, <2>2, <3>1
      <4> QED
        BY <3>3, <4>1, <4>2, <4>3, ContentFetched
    <3>5. Serving(q, r, m)
      BY <2>2, <2>3, <3>1, <3>3, <3>4 DEF Serving
    <3>6. Offers(r, m)
      BY <3>1 DEF Offers, Transfers
    <3>7. Holds(r, m)
      BY <1>1, <2>3, <3>1, <3>2 DEF Holds, Begins
    <3>8. Carries(q, r, m)
      BY <2>3, <2>5 DEF Fits, Carries, q, r
    <3> QED
      BY <2>5, <3>1, <3>5, <3>6, <3>7, <3>8 DEF Fits, q, r
  <2> QED
    BY <1>1, <1>2, <2>1, <2>4, <2>5, ServerFits
<1>4. CASE ~ (Transferable(name, Told(b)) /\ Attached(b))
  <2>1. Answers(b, IF Transferable(name, Told(b)) THEN 425 ELSE 550, None)
    BY <1>4 DEF StartTransfer
  <2>2. (IF Transferable(name, Told(b)) THEN 425 ELSE 550) # 227
    OBVIOUS
  <2> QED
    BY <1>1, <1>2, <2>1, <2>2, AnswersFit
<1> QED
  BY <1>3, <1>4

\* Where the server is in a transfer, and what the client is at then.
LEMMA InTransfer ==
    ASSUME NEW q, NEW r, NEW l, InStep(r, l), Fits(q, r, l), l.transfer # None
    PROVE  /\ r.pc \in {"await", "data", "fill"} /\ l.inbox = <<>> /\ Busy(r)
           /\ r.cmd.name \in Transfers \cup Ends /\ l.sock = "open"
           /\ Moves(q, r, l.transfer.cmd) /\ l.transfer.port = r.port /\ r.port \in Ports
           /\ q.op # "put" => l.transfer.data \in Fetches(q)
           /\ Follows(q, r)
<1>1. /\ r.pc \in {"await", "data", "fill"} /\ l.inbox = <<>> /\ l.sock = "open"
      /\ r.cmd.name \in Transfers \cup Ends
  BY DEF InStep, Between, ToSend, ToDial, Asking, Lost, AskingTransfer, Moving, Ending, Asked, AtRest,
         Gone, NoWork, Running, Finishing
<1>2. Busy(r) /\ Follows(q, r) /\ Serving(q, r, l)
  BY <1>1 DEF Fits, Busy
<1>3. r.port \in Ports
  <2>1. r.pc = "await" => r.port \in Ports
    BY <1>1, <1>2, AsksByName DEF Follows
  <2> QED
    BY <1>1, <1>2, <2>1 DEF Follows, Asks
<1> QED
  BY <1>1, <1>2, <1>3 DEF Serving

LEMMA EndsFit ==
    ASSUME Own, AllInStep, AllFit, NEW b \in Blobs, link[b].transfer # None, NEW code, NEW c,
           EndsTransfer(b, code, c), UNCHANGED <<th, callers>>, FilesTyped',
           c.state \in {"free", "received"},
           \A t \in Threads : Uses[t] = b /\ c.state = "received" => c.data \in Fetches(call[t]) \cup {Torn}
    PROVE  AllFit'
<1> DEFINE l == link[b]
           a == Reply(code, None)
           m == [l EXCEPT !.transfer = None, !.wire = Append(@, a), !.chan[l.transfer.port] = c]
<1>1. IsLink(l) /\ LinkTyped(l) /\ link' = [link EXCEPT ![b] = m]
  BY DEF AllInStep, AllFit, EndsTransfer
<1>2. /\ m.transfer = None /\ m.inbox = l.inbox /\ m.flavour = l.flavour
      /\ m.chan = [l.chan EXCEPT ![l.transfer.port] = c]
  BY <1>1 DEF IsLink
<1>3. \A p \in Ports : m.chan[p] = IF p = l.transfer.port THEN c ELSE l.chan[p]
  BY <1>1, <1>2 DEF IsLink
<1> HIDE DEF m, a
<1>4. LinkTyped(m)
  BY <1>1, <1>2, <1>3 DEF LinkTyped, States
<1>5. ASSUME NEW t \in Threads, Uses[t] = b, InStep(th[t], l), Fits(call[t], th[t], l)
      PROVE  Fits(call[t], th[t], m)
  <2> DEFINE q == call[t]
             r == th[t]
  <2>1. /\ r.pc \in {"await", "data", "fill"} /\ l.inbox = <<>> /\ Busy(r)
        /\ r.cmd.name \in Transfers \cup Ends /\ l.transfer.port = r.port
    BY <1>5, InTransfer
  <2>2. c.state = "received" => c.data \in Fetches(q) \cup {Torn}
    BY <1>5
  <2> HIDE DEF q, r, l
  <2>3. Carries(q, r, m)
    BY <1>3, <1>5, <2>1, <2>2 DEF Fits, Carries, q, r
  <2>4. Serving(q, r, m) /\ Holds(r, m)
    BY <1>2, <2>1 DEF Serving, Holds, Begins
  <2>5. Offers(r, m)
    BY <2>1 DEF Offers, Transfers, Ends
  <2> QED
    BY <1>5, <2>1, <2>3, <2>4, <2>5 DEF Fits, q, r
<1> QED
  BY <1>1, <1>4, <1>5, ServerFits

LEMMA EndStorFits ==
    ASSUME Own, AllInStep, AllFit, NEW b \in Blobs, EndStor(b)
    PROVE  AllFit'
<1> DEFINE l == link[b]
           d == Channel(b).data
<1>1. /\ l.transfer # None /\ UNCHANGED <<th, callers>> /\ EndsTransfer(b, 226, Free)
      /\ dirs' = dirs /\ FilesTyped
  BY DEF EndStor, AllFit
<1>2. PICK t \in Threads : Uses[t] = b
  BY <1>1 DEF AllInStep, Unused, AtRest, NoWork
<1>3. l.transfer.port \in Ports
  <2>1. InStep(th[t], l) /\ Fits(call[t], th[t], l)
    BY <1>2 DEF AllInStep, AllFit, Link
  <2> QED
    BY <1>1, <2>1, InTransfer
<1>4. Channel(b).state = "sent" => d \in Values \cup {Torn}
  BY <1>3 DEF Channel, AllFit, LinkTyped
<1>5. FilesTyped'
  <2>1. CASE UNCHANGED files
    BY <1>1, <2>1 DEF FilesTyped
  <2>2. CASE /\ Channel(b).state = "sent"
             /\ files' = [files EXCEPT ![l.transfer.cmd.arg] = IF @ = None THEN None ELSE d]
    <3>1. d \in Values \cup {Torn}
      BY <1>4, <2>2
    <3> HIDE DEF d
    <3> QED
      BY <1>1, <2>2, <3>1 DEF FilesTyped
  <2> QED
    BY <2>1, <2>2 DEF EndStor
<1>6. Free.state = "free"
  BY DEF Free, Chan
<1> QED
  BY <1>1, <1>5, <1>6, EndsFit

LEMMA EndRetrFits ==
    ASSUME Own, AllInStep, AllFit, NEW b \in Blobs, EndRetr(b)
    PROVE  AllFit'
<1> DEFINE l == link[b]
           tr == l.transfer
<1>1. /\ tr # None /\ UNCHANGED <<th, callers>> /\ UNCHANGED server /\ tr.cmd.name \in {"RETR", "LIST"}
  BY DEF EndRetr
<1>2. FilesTyped /\ FilesTyped'
  BY <1>1 DEF AllFit, FilesTyped, server
<1>3. CASE EndsTransfer(b, 426, Free)
  <2>1. Free.state = "free"
    BY DEF Free, Chan
  <2> QED
    BY <1>1, <1>2, <1>3, <2>1, EndsFit
<1>4. ASSUME NEW d \in {tr.data, Content(tr.cmd.name, tr.cmd.arg)} \ {None},
             EndsTransfer(b, 226, Chan("received", d))
      PROVE  AllFit'
  <2>1. Chan("received", d).state = "received" /\ Chan("received", d).data = d
    BY DEF Chan
  <2>2. ASSUME NEW t \in Threads, Uses[t] = b PROVE d \in Fetches(call[t])
    <3>1. InStep(th[t], l) /\ Fits(call[t], th[t], l)
      BY <2>2 DEF AllInStep, AllFit, Link
    <3>2. /\ Moves(call[t], th[t], tr.cmd) /\ call[t] \in Calls
          /\ call[t].op # "put" => tr.data \in Fetches(call[t])
      BY <1>1, <3>1, InTransfer DEF Follows
    <3>3. call[t].op # "put"
      BY <1>1, <3>2 DEF Moves, Command
    <3>4. d # tr.data => d \in Fetches(call[t])
      BY <1>2, <1>4, <3>2, <3>3, ContentFetched
    <3> QED
      BY <3>2, <3>3, <3>4
  <2> QED
    BY <1>1, <1>2, <1>4, <2>1, <2>2, EndsFit
<1>5. \/ EndsTransfer(b, 426, Free)
      \/ \E d \in {tr.data, Content(tr.cmd.name, tr.cmd.arg)} \ {None} :
            EndsTransfer(b, 226, Chan("received", d))
  BY DEF EndRetr
<1> QED
  BY <1>3, <1>4, <1>5

LEMMA AbortFits ==
    ASSUME Own, AllInStep, AllFit, NEW b \in Blobs, AbortTransfer(b)
    PROVE  AllFit'
<1> DEFINE c == IF Channel(b).state = "connected" THEN Chan("received", Torn) ELSE Free
<1>1. /\ link[b].transfer # None /\ UNCHANGED <<th, callers>> /\ EndsTransfer(b, 426, c) /\ FilesTyped'
  BY DEF AbortTransfer, AllFit, FilesTyped, server
<1>2. c.state \in {"free", "received"} /\ (c.state = "received" => c.data = Torn)
  BY DEF Free, Chan
<1> HIDE DEF c
<1> QED
  BY <1>1, <1>2, EndsFit

LEMMA MkdFits ==
    ASSUME Own, AllInStep, AllFit, NEW b \in Blobs, ServeMkd(b)
    PROVE  AllFit'
<1> DEFINE l == link[b]
<1>1. /\ l.sock = "open" /\ l.transfer = None /\ l.inbox # <<>> /\ Head(l.inbox).name = "MKD"
      /\ Pending(b) /\ UNCHANGED <<th, callers, files>> /\ dirs' \in {dirs, dirs \cup {Told(b)}}
      /\ \E code \in {257, 550} : Answers(b, code, None)
  BY DEF ServeMkd, Serves, Pending
<1>2. PICK t \in Threads : Uses[t] = b
  BY <1>1 DEF AllInStep, Unused
<1>3. Told(b) \in AllDirs
  <2>1. InStep(th[t], l) /\ Fits(call[t], th[t], l)
    BY <1>2 DEF AllInStep, AllFit, Link
  <2>2. th[t].pc = "await" /\ Head(l.inbox) = th[t].cmd
    BY <1>1, <2>1, PendingIsAsked
  <2>3. Follows(call[t], th[t])
    BY <2>1, <2>2 DEF Fits, Busy
  <2>4. Prepares(call[t], th[t], th[t].cmd)
    <3>1. Plain("MKD")
      BY DEF Plain, Transfers, Logins, Ends
    <3> QED
      BY <1>1, <2>2, <2>3, <3>1, AsksByName DEF Follows
  <2>5. call[t].op = "put" /\ th[t].rest # <<>> /\ Told(b) = Head(th[t].rest)
    BY <1>1, <2>2, <2>4 DEF Prepares, Command, Told
  <2>6. call[t].key \in Keys
    BY <2>3, <2>5 DEF Follows, Calls, Store!Requests, Lifecycle
  <2> DEFINE w == Parents(call[t].key)
  <2>7. w \in Seq(AllDirs) /\ Suffix(th[t].rest, w)
    BY <2>3, <2>5, <2>6, ParentsForm DEF Follows, Whole
  <2> HIDE DEF w
  <2>8. /\ Len(th[t].rest) \in 1 .. Len(w)
        /\ Head(th[t].rest) = w[Len(w) - Len(th[t].rest) + 1]
    BY <2>5, <2>7, SuffixForms
  <2>9. Len(w) - Len(th[t].rest) + 1 \in 1 .. Len(w)
    BY <2>7, <2>8, LenProperties
  <2> QED
    BY <2>5, <2>7, <2>8, <2>9, ElementOfSeq
<1>4. FilesTyped'
  BY <1>1, <1>3 DEF AllFit, FilesTyped
<1> QED
  BY <1>1, <1>4, AnswersFit

LEMMA ServerStepFits ==
    ASSUME Own, NoneIsNoRecord, AllInStep, AllFit, NEW b \in Blobs, Server(b) \/ Faulty(b)
    PROVE  AllFit'
<1>0. UNCHANGED server => FilesTyped'
  BY DEF AllFit, FilesTyped, server
<1>1. CASE ServeLogin(b)
  <2>1. UNCHANGED <<th, callers>> /\ Pending(b) /\ FilesTyped'
    BY <1>0, <1>1 DEF ServeLogin, Serves
  <2>2. CASE Answers(b, 331, None) \/ Answers(b, 530, None)
    BY <2>1, <2>2, AnswersFit
  <2>3. CASE AnswersAs(b, 230, None, TRUE)
    <3>1. \E in : AnswersAs(b, 230, None, in)
      BY <2>3, Zenon
    <3> QED
      BY <2>1, <3>1, PlainAnswersFit
  <2> QED
    BY <1>1, <2>2, <2>3 DEF ServeLogin, AnswersAs
<1>2. CASE ServeSession(b)
  <2>1. UNCHANGED <<th, callers>> /\ Pending(b) /\ FilesTyped'
    BY <1>0, <1>2 DEF ServeSession, Serves
  <2>2. \E code \in {250, 200, 211, 213, 550} : \E info : Answers(b, code, info)
    BY <1>2 DEF ServeSession
  <2> QED
    BY <2>1, <2>2, AnswersFit
<1>3. CASE ServeDele(b)
  <2>1. UNCHANGED <<th, callers>> /\ Pending(b) /\ FilesTyped'
    BY <1>3 DEF ServeDele, Serves, AllFit, FilesTyped
  <2>2. \E code \in {250, 550} : Answers(b, code, None)
    BY <1>3 DEF ServeDele
  <2> QED
    BY <2>1, <2>2, AnswersFit
<1>4. CASE Refuse(b)
  <2>1. UNCHANGED <<th, callers>> /\ Pending(b) /\ FilesTyped'
    BY <1>0, <1>4 DEF Refuse, Serves
  <2>2. PICK code \in Refusals : Answers(b, code, None)
    BY <1>4 DEF Refuse
  <2>3. code # 227
    BY RefusalsAssumption
  <2> QED
    BY <2>1, <2>2, <2>3, AnswersFit
<1>5. CASE \E name \in {"RETR", "LIST", "STOR"} : StartTransfer(b, name)
  BY <1>5, StartFits DEF Transfers
<1> QED
  BY <1>1, <1>2, <1>3, <1>4, <1>5, QuitFits, PasvFits, MkdFits, EndStorFits, EndRetrFits, AbortFits,
     DropFits
  DEF Server, Faulty

-----------------------------------------------------------------------------
(* The steps of a client. *)

\* What a call is at depends on its record by the rest of its path alone.
LEMMA SameRest ==
    ASSUME NEW q, NEW r, NEW s, r.rest = s.rest
    PROVE  /\ Where(q, r) = Where(q, s) /\ (Reached(q, r) <=> Reached(q, s))
           /\ \A c : (Prepares(q, r, c) <=> Prepares(q, s, c)) /\ (Moves(q, r, c) <=> Moves(q, s, c))
<1>1. Where(q, r) = Where(q, s)
  BY DEF Where
<1>2. Reached(q, r) <=> Reached(q, s)
  BY <1>1 DEF Reached
<1> QED
  BY <1>1, <1>2 DEF Prepares, Moves

\* What is known of the call of the thread that moves.
LEMMA CallOfThread ==
    ASSUME AllInStep, AllFit, NEW t \in Threads
    PROVE  /\ IsPlace(th[t]) /\ IsLink(Link(t)) /\ InStep(th[t], Link(t))
           /\ LinkTyped(Link(t)) /\ Fits(call[t], th[t], Link(t))
           /\ th[t].pc \notin {"idle", "done"} =>
                 /\ Busy(th[t]) /\ Follows(call[t], th[t]) /\ call[t] \in Calls
                 /\ Asks(call[t], th[t])
                 /\ \A p \in Ports : p # th[t].port =>
                       Link(t).chan[p].state \notin {"connected", "received"}
           /\ Taken(t).chan = Link(t).chan /\ Taken(t).flavour = Link(t).flavour
           /\ Taken(t).transfer = Link(t).transfer /\ Taken(t).inbox = Link(t).inbox
           /\ Taken(t).sock = Link(t).sock /\ LinkTyped(Taken(t)) /\ IsLink(Taken(t))
<1>1. IsPlace(th[t]) /\ IsLink(Link(t)) /\ InStep(th[t], Link(t))
  BY PlaceOfThread
<1>2. LinkTyped(Link(t)) /\ Fits(call[t], th[t], Link(t))
  BY UsesAssumption DEF AllFit, Link
<1>3. /\ Taken(t).chan = Link(t).chan /\ Taken(t).flavour = Link(t).flavour
      /\ Taken(t).transfer = Link(t).transfer /\ Taken(t).inbox = Link(t).inbox
      /\ Taken(t).sock = Link(t).sock /\ IsLink(Taken(t))
  BY <1>1 DEF Taken, IsLink
<1>4. LinkTyped(Taken(t))
  BY <1>2, <1>3 DEF LinkTyped
<1>5. th[t].pc \notin {"idle", "done"} =>
        /\ Busy(th[t]) /\ Follows(call[t], th[t])
        /\ \A p \in Ports : p # th[t].port =>
              Link(t).chan[p].state \notin {"connected", "received"}
  BY <1>2 DEF Fits, Busy, Carries
<1> QED
  BY <1>1, <1>2, <1>3, <1>4, <1>5 DEF Follows

\* A command that is no transfer, on a connection with no data connection in use.
LEMMA GoesOnFits ==
    ASSUME Own, AllInStep, AllFit, NEW t \in Threads, NEW r, NEW m, Continues(t, r, m),
           r.pc = "send", r.cmd.name \notin Transfers \cup Ends, Follows(call[t], r),
           LinkTyped(m), m.transfer = None,
           \A p \in Ports : m.chan[p].state \notin {"connected", "received"}
    PROVE  AllFit'
<1>1. r.cmd # Command("226", None)
  <2>1. Command("226", None).name = "226"
    BY DEF Command
  <2> QED
    BY <2>1 DEF Ends
<1>2. Fits(call[t], r, m)
  BY <1>1 DEF Fits, Busy, Serving, Offers, Holds, Begins, Carries
<1> QED
  BY <1>2, ContinuesFits

LEMMA FailsFits ==
    ASSUME Own, AllInStep, AllFit, NEW t \in Threads, Busy(th[t]), NEW l,
           Fails(t, l), IsLink(l), LinkTyped(l),
           \A p \in Ports : l.chan[p].state \in {"connected", "received"} => p = th[t].port
    PROVE  AllFit'
<1>1. Store!Done \in Results /\ Store!BlobError \in Results
  BY DEF Results, Store!Outcomes
<1> QED
  BY <1>1, FinishFits DEF Fails

LEMMA BreaksFits ==
    ASSUME Own, AllInStep, AllFit, NEW t \in Threads, Busy(th[t]), Breaks(t)
    PROVE  AllFit'
<1> DEFINE l == IF HangsUp(t) THEN HangUp(Link(t)) ELSE Link(t)
<1>1. Fails(t, l)
  BY DEF Breaks
<1>2. /\ IsLink(Link(t)) /\ LinkTyped(Link(t))
      /\ \A p \in Ports : Link(t).chan[p].state \in {"connected", "received"} => p = th[t].port
  BY CallOfThread DEF Busy
<1>3. /\ IsLink(HangUp(Link(t))) /\ LinkTyped(HangUp(Link(t)))
      /\ \A p \in Ports : HangUp(Link(t)).chan[p].state = "free"
  BY <1>2, HangUpForm, HangUpFits
<1>4. /\ IsLink(l) /\ LinkTyped(l)
      /\ \A p \in Ports : l.chan[p].state \in {"connected", "received"} => p = th[t].port
  BY <1>2, <1>3
<1> QED
  BY <1>1, <1>4, FailsFits

\* The first command of a call.
LEMMA MakesParents ==
    ASSUME NEW q \in Calls, q.op = "put", NEW r, IsPlace(r), r.resume = None, r.port = None,
           r.got = {}, NEW s, Suffix(s, Parents(q.key))
    PROVE  Follows(q, MakeParents(r, s))
<1> DEFINE u == [r EXCEPT !.rest = s]
           v == MakeParents(r, s)
<1>1. IsPlace(u) /\ u.resume = None /\ u.port = None /\ u.got = {} /\ u.rest = s
  BY DEF IsPlace
<1>2. v = IF s = <<>> THEN Sends(u, "PASV", None) ELSE Sends(u, "MKD", Head(s))
  BY DEF MakeParents
<1> HIDE DEF u, v
<1>3. /\ v.pc = "send" /\ v.resume = None /\ v.port = None /\ v.got = {} /\ v.rest = s
      /\ v.cmd = IF s = <<>> THEN Command("PASV", None) ELSE Command("MKD", Head(s))
  BY <1>1, <1>2, SendsFields
<1>4. Prepares(q, v, v.cmd)
  BY <1>3 DEF Prepares, Reached
<1>5. Suffix(v.rest, Whole(q))
  BY <1>3 DEF Whole
<1> QED
  BY <1>3, <1>4, <1>5 DEF Follows, Asks, v

LEMMA Probes ==
    ASSUME NEW q \in Calls, q.op \in {"exists", "scan"}, NEW r, IsPlace(r), r.resume = None,
           r.port = None, r.got = {}, Suffix(r.rest, Whole(q)), NEW features
    PROVE  Follows(q, Probe(r, q, features))
<1> DEFINE u == [r EXCEPT !.rest = IF q.op = "scan" THEN q.prefix ELSE q.key]
           Good(v) == Follows(q, v)
<1>1. /\ IsPlace(u) /\ u.resume = None /\ u.port = None /\ u.got = {} /\ u.rest = Target(q)
  BY DEF IsPlace, Target
<1> HIDE DEF u
<1>2. q.op = "exists" => Good(Sends(r, "SIZE", q.key)) /\ Good(Sends(r, "MLST", q.key))
  <2> SUFFICES ASSUME q.op = "exists", NEW name \in {"SIZE", "MLST"}
               PROVE  Good(Sends(r, name, q.key))
    OBVIOUS
  <2> DEFINE v == Sends(r, name, q.key)
  <2>1. /\ v.pc = "send" /\ v.resume = None /\ v.port = None /\ v.got = {} /\ v.rest = r.rest
        /\ v.cmd = Command(name, q.key)
    BY SendsFields
  <2> HIDE DEF v
  <2>2. Prepares(q, v, v.cmd)
    BY <2>1 DEF Prepares
  <2> QED
    BY <2>1, <2>2 DEF Follows, Asks, v
<1>3. Good(Sends(u, "PASV", None))
  <2> DEFINE v == Sends(u, "PASV", None)
  <2>1. /\ v.pc = "send" /\ v.resume = None /\ v.port = None /\ v.got = {} /\ v.rest = Target(q)
        /\ v.cmd = Command("PASV", None)
    BY <1>1, SendsFields
  <2> HIDE DEF v
  <2>2. Target(q) \in Seq(STRING) /\ Whole(q) = Target(q) /\ Where(q, v) = <<>>
    BY <2>1, WhereForms
  <2>3. Suffix(v.rest, Whole(q))
    BY <2>1, <2>2, SuffixForms
  <2>4. Prepares(q, v, v.cmd)
    BY <2>1, <2>2 DEF Prepares, Reached, Reading
  <2> QED
    BY <2>1, <2>3, <2>4 DEF Follows, Asks, v
<1> HIDE DEF Good
<1>4. \/ q.op = "exists" /\ Probe(r, q, features) \in {Sends(r, "SIZE", q.key), Sends(r, "MLST", q.key)}
      \/ Probe(r, q, features) = Sends(u, "PASV", None)
  BY DEF Probe, u
<1>5. Good(Probe(r, q, features))
  BY <1>2, <1>3, <1>4
<1> QED
  BY <1>5 DEF Good

LEMMA StartsCall ==
    ASSUME NEW q \in Calls, NEW l
    PROVE  Follows(q, Starts(q, l))
<1> DEFINE closing == IF l.flavour = "aio" THEN "close" ELSE "QUIT"
<1>1. \E S : Whole(q) \in Seq(S)
  BY WholeForm
<1>2. Suffix(<<>>, Whole(q)) /\ Suffix(Whole(q), Whole(q))
  BY <1>1, SuffixForms
<1>3. IsPlace(Outside) /\ Outside.rest = <<>> /\ Outside.resume = None /\ Outside.port = None
      /\ Outside.got = {}
  BY OutsideForm, OutsideFields
<1>4. ASSUME NEW name, NEW arg, Prepares(q, Outside, Command(name, arg))
      PROVE  Follows(q, Sends(Outside, name, arg))
  <2> DEFINE v == Sends(Outside, name, arg)
  <2>1. /\ v.pc = "send" /\ v.resume = None /\ v.port = None /\ v.got = {} /\ v.rest = <<>>
        /\ v.cmd = Command(name, arg)
    BY <1>3, SendsFields
  <2> HIDE DEF v
  <2>2. Prepares(q, v, v.cmd)
    BY <1>3, <1>4, <2>1, SameRest
  <2> QED
    BY <1>2, <2>1, <2>2 DEF Follows, Asks, v
<1>5. CASE q.op = "open"
  <2>1. Starts(q, l) = Sends(Outside, "open", None)
    BY <1>5 DEF Starts
  <2> QED
    BY <1>4, <1>5, <2>1 DEF Prepares
<1>6. CASE q.op = "close"
  <2>1. Starts(q, l) = Sends(Outside, closing, None)
    BY <1>6 DEF Starts
  <2>2. Prepares(q, Outside, Command(closing, None))
    BY <1>6 DEF Prepares
  <2> QED
    BY <1>4, <2>1, <2>2
<1>7. CASE q.op = "put"
  <2>1. Starts(q, l) = MakeParents(Outside, Parents(q.key))
    BY <1>7 DEF Starts
  <2>2. Suffix(Parents(q.key), Parents(q.key))
    BY <1>2, <1>7 DEF Whole
  <2> QED
    BY <1>3, <1>7, <2>1, <2>2, MakesParents
<1>8. CASE q.op = "get"
  <2>1. Starts(q, l) = Sends(Outside, "PASV", None)
    BY <1>8 DEF Starts
  <2> QED
    BY <1>4, <1>8, <2>1 DEF Prepares, Reading, Reached
<1>9. CASE q.op = "delete"
  <2>1. Starts(q, l) = Sends(Outside, "DELE", q.key)
    BY <1>9 DEF Starts
  <2> QED
    BY <1>4, <1>9, <2>1 DEF Prepares
<1>10. CASE q.op \in {"exists", "scan"}
  <2>1. Starts(q, l) \in {Sends(Outside, "FEAT", None), Probe(Outside, q, l.features)}
    BY <1>10 DEF Starts
  <2>2. Follows(q, Sends(Outside, "FEAT", None))
    BY <1>4, <1>10 DEF Prepares
  <2>3. Follows(q, Probe(Outside, q, l.features))
    BY <1>2, <1>3, <1>10, Probes
  <2> QED
    BY <2>1, <2>2, <2>3
<1> QED
  BY <1>5, <1>6, <1>7, <1>8, <1>9, <1>10 DEF Calls, Store!Requests, Lifecycle

LEMMA InvokeFits ==
    ASSUME Own, AllInStep, AllFit, NEW t \in Threads, Invoke(t)
    PROVE  AllFit'
<1>1. PICK q \in Calls :
        /\ call' = [call EXCEPT ![t] = q]
        /\ th' = [th EXCEPT ![t] = Starts(q, Link(t))]
        /\ was' = [was EXCEPT ![t] = known]
        /\ known' = IF q.op \in Mutators THEN [known EXCEPT ![q.key] = Unknown] ELSE known
        /\ alone' = [u \in Threads |->
              IF u = t THEN ~ \E w \in Threads \ {t} : Clash(q, call[w])
              ELSE alone[u] /\ ~ Clash(q, call[u])]
  BY DEF Invoke, Calls
<1> DEFINE r == Starts(q, Link(t))
<1>2. th[t].pc = "idle" /\ UNCHANGED <<server, link, ret>>
  BY DEF Invoke
<1>3. /\ IsLink(Link(t)) /\ AtRest(Link(t)) /\ LinkTyped(Link(t))
      /\ Fits(call[t], th[t], Link(t)) /\ link'[Uses[t]] = Link(t)
  BY <1>2, PlaceOfThread, CallOfThread DEF Link
<1>4. r.pc = "send" /\ Plain(r.cmd.name) /\ Follows(q, r)
  BY StartsForm, StartsCall
<1> HIDE DEF r
<1>5. r.cmd # Command("226", None) /\ r.cmd.name \notin Transfers
  <2>1. Command("226", None).name = "226"
    BY DEF Command
  <2> QED
    BY <1>4, <2>1 DEF Plain, Ends
<1>6. Carries(q, r, Link(t))
  BY <1>2, <1>3 DEF Fits, Carries, Busy
<1>7. Fits(q, r, Link(t))
  BY <1>3, <1>4, <1>5, <1>6 DEF Fits, Busy, Serving, Offers, Holds, Begins, AtRest, NoWork
<1>8. /\ th'[t] = r /\ call'[t] = q
      /\ \A u \in Threads \ {t} : th'[u] = th[u] /\ call'[u] = call[u]
  BY <1>1 DEF AllInStep, AllFit, HistoryTyped, r
<1>9. FilesTyped'
  BY <1>2 DEF AllFit, FilesTyped, server
<1>10. HistoryTyped'
  <2>1. /\ call' = [u \in Threads |-> call'[u]] /\ was' = [u \in Threads |-> was'[u]]
        /\ ret' \in [Threads -> Store!Outcomes \cup {[value |-> Torn], Cancelled, None}]
    BY <1>1, <1>2 DEF AllFit, HistoryTyped
  <2>2. known' \in [Keys -> Values \cup {Unknown, None}]
    BY <1>1 DEF AllFit, HistoryTyped
  <2>3. alone' \in [Threads -> BOOLEAN]
    BY <1>1 DEF AllFit, HistoryTyped
  <2> QED
    BY <2>1, <2>2, <2>3 DEF HistoryTyped
<1> QED
  BY <1>2, <1>3, <1>7, <1>8, <1>9, <1>10, OneFits

LEMMA ReturnFits ==
    ASSUME Own, AllInStep, AllFit, NEW t \in Threads, Return(t)
    PROVE  AllFit'
<1>1. th[t].pc = "done" /\ UNCHANGED <<server, link, known>>
  BY DEF Return
<1>2. /\ th'[t] = Outside /\ call'[t] = None
      /\ \A u \in Threads \ {t} : th'[u] = th[u] /\ call'[u] = call[u]
  BY DEF Return, AllInStep, AllFit, HistoryTyped
<1>3. HistoryTyped'
  BY DEF Return, AllFit, HistoryTyped
<1>4. FilesTyped'
  BY <1>1 DEF AllFit, FilesTyped, server
<1>5. LinkTyped(Link(t)) /\ Fits(call[t], th[t], Link(t)) /\ link'[Uses[t]] = Link(t)
  BY <1>1, CallOfThread DEF Link
<1>6. Outside.pc = "idle"
  BY OutsideForm
<1>7. Fits(None, Outside, Link(t))
  BY <1>1, <1>5, <1>6 DEF Fits, Carries, Busy
<1> QED
  BY <1>1, <1>2, <1>3, <1>4, <1>5, <1>7, OneFits

LEMMA OpenAndCloseFit ==
    ASSUME Own, AllInStep, AllFit, NEW t \in Threads,
           CloseNothing(t) \/ OpenDone(t) \/ ConnectFails(t)
    PROVE  AllFit'
<1>1. th[t].pc = "send" /\ Busy(th[t])
  BY DEF CloseNothing, OpenDone, ConnectFails, Connecting, Ready, Busy
<1>2. /\ IsLink(Link(t)) /\ LinkTyped(Link(t))
      /\ \A p \in Ports : Link(t).chan[p].state \in {"connected", "received"} => p = th[t].port
  BY <1>1, CallOfThread
<1>3. CASE CloseNothing(t) \/ OpenDone(t)
  <2>1. Finish(t, Store!Done, Link(t)) /\ Store!Done \in Results
    BY <1>3 DEF CloseNothing, OpenDone, Results, Store!Outcomes
  <2> QED
    BY <1>1, <1>2, <2>1, FinishFits
<1>4. CASE ConnectFails(t)
  <2>1. Fails(t, HangUp(Link(t)))
    BY <1>4 DEF ConnectFails
  <2>2. /\ IsLink(HangUp(Link(t))) /\ LinkTyped(HangUp(Link(t)))
        /\ \A p \in Ports : HangUp(Link(t)).chan[p].state = "free"
    BY <1>2, HangUpForm, HangUpFits
  <2> QED
    BY <1>1, <2>1, <2>2, FailsFits
<1> QED
  BY <1>3, <1>4

LEMMA ConnectFits ==
    ASSUME Own, AllInStep, AllFit, NEW t \in Threads, Connect(t)
    PROVE  AllFit'
<1> DEFINE q == call[t]
           u == [th[t] EXCEPT !.resume = Wanted(t)]
           r == Expects(u, "220")
           h == HangUp(Link(t))
           m == [h EXCEPT !.sock = "open", !.wire = <<Reply(220, None)>>]
<1>1. Continues(t, r, m) /\ Connecting(t) /\ th[t].pc = "send"
  BY DEF Connect, Connecting
<1>2. /\ IsPlace(th[t]) /\ IsLink(Link(t)) /\ InStep(th[t], Link(t)) /\ LinkTyped(Link(t))
      /\ Follows(q, th[t])
  BY <1>1, CallOfThread
<1>3. Plain(th[t].cmd.name)
  <2>1. Plain("close")
    BY DEF Plain, Transfers, Logins, Ends
  <2> QED
    BY <1>1, <1>2, <2>1 DEF Connecting, InStep, Between, ToSend, ToDial, Asking, AskingTransfer,
       Moving, Ending
<1>4. Prepares(q, th[t], th[t].cmd) /\ th[t].resume = None /\ th[t].port = None
  BY <1>1, <1>2, <1>3, AsksByName DEF Follows
<1>5. Prepares(q, th[t], Wanted(t))
  <2>1. CASE th[t].cmd.name = "close"
    BY <1>4, <2>1 DEF Prepares, Wanted, Command
  <2>2. CASE th[t].cmd.name # "close"
    BY <1>4, <2>2 DEF Wanted
  <2> QED
    BY <2>1, <2>2
<1>6. /\ IsPlace(u) /\ u.resume = Wanted(t) /\ u.port = None /\ u.rest = th[t].rest
      /\ u.got = th[t].got
  BY <1>2, <1>4 DEF IsPlace
<1> HIDE DEF u
<1>7. /\ r.pc = "await" /\ r.cmd = Command("220", None) /\ r.resume = Wanted(t) /\ r.port = None
      /\ r.rest = th[t].rest /\ r.got = th[t].got
  BY <1>6, ExpectsFields
<1>8. /\ IsLink(h) /\ LinkTyped(h) /\ h.transfer = None /\ \A p \in Ports : h.chan[p].state = "free"
  BY <1>2, HangUpForm, HangUpFits DEF NoWork
<1> HIDE DEF h, r
<1>9. m.chan = h.chan /\ m.flavour = h.flavour /\ m.transfer = None
  BY <1>8 DEF IsLink
<1> HIDE DEF m
<1>10. Follows(q, r)
  <2>1. Prepares(q, r, r.resume)
    BY <1>5, <1>7, SameRest
  <2>2. r.cmd \in {Command(name, None) : name \in Logins}
    BY <1>7 DEF Logins
  <2> QED
    BY <1>2, <1>7, <2>1, <2>2 DEF Follows, Asks
<1>11. r.cmd.name = "220" /\ r.cmd # Command("226", None)
  <2>1. Command("220", None).name = "220" /\ Command("226", None).name = "226"
    BY DEF Command
  <2> QED
    BY <1>7, <2>1
<1>12. Fits(q, r, m)
  BY <1>7, <1>8, <1>9, <1>10, <1>11 DEF Fits, Busy, Serving, Offers, Holds, Begins, Carries, Transfers
<1>13. LinkTyped(m)
  BY <1>8, <1>9 DEF LinkTyped
<1> QED
  BY <1>1, <1>12, <1>13, ContinuesFits

LEMMA SendFits ==
    ASSUME Own, AllInStep, AllFit, NEW t \in Threads, Send(t)
    PROVE  AllFit'
<1> DEFINE q == call[t]
           l == Link(t)
           r == [th[t] EXCEPT !.pc = "await"]
           m == IF l.sock = "open" THEN [l EXCEPT !.inbox = Append(@, th[t].cmd)] ELSE l
<1>1. Continues(t, r, m) /\ th[t].pc = "send"
  BY DEF Send, Sending, Ready
<1>2. /\ IsPlace(th[t]) /\ IsLink(l) /\ AtRest(l) /\ LinkTyped(l) /\ Fits(q, th[t], l)
      /\ Follows(q, th[t])
  BY <1>1, PlaceOfThread, CallOfThread
<1>3. /\ r.pc = "await" /\ r.cmd = th[t].cmd /\ r.resume = th[t].resume /\ r.port = th[t].port
      /\ r.rest = th[t].rest /\ r.got = th[t].got /\ r.data = th[t].data
  BY <1>2 DEF IsPlace
<1>4. /\ m.chan = l.chan /\ m.flavour = l.flavour /\ m.transfer = l.transfer /\ m.sock = l.sock
      /\ m.wire = l.wire /\ m.buffer = l.buffer
  BY <1>2 DEF IsLink
<1> HIDE DEF r, m, l, q
<1>5. Follows(q, r)
  <2>1. \A c : (Prepares(q, r, c) <=> Prepares(q, th[t], c)) /\ (Moves(q, r, c) <=> Moves(q, th[t], c))
    BY <1>3, SameRest
  <2>2. Asks(q, r)
    BY <1>1, <1>2, <1>3, <2>1 DEF Follows, Asks
  <2> QED
    BY <1>2, <1>3, <2>2 DEF Follows
<1>6. Offers(r, m)
  <2>1. \A p : ~ OneReply(m, p)
    BY <1>2, <1>4, RepliesApart DEF AtRest, Silent
  <2> QED
    BY <2>1 DEF Offers
<1>7. Serving(q, r, m)
  BY <1>2, <1>4 DEF Serving, AtRest, NoWork
<1>8. Holds(r, m)
  BY <1>1, <1>2, <1>3, <1>4 DEF Fits, Busy, Holds, Begins
<1>9. Carries(q, r, m)
  BY <1>1, <1>2, <1>3, <1>4 DEF Fits, Busy, Carries
<1>10. Fits(q, r, m)
  BY <1>1, <1>2, <1>3, <1>5, <1>6, <1>7, <1>8, <1>9 DEF Fits, Busy
<1>11. LinkTyped(m)
  BY <1>2, <1>4 DEF LinkTyped
<1> QED
  BY <1>1, <1>10, <1>11, ContinuesFits DEF q

LEMMA RecvFits ==
    ASSUME Own, AllInStep, AllFit, NEW t \in Threads, Recv(t)
    PROVE  AllFit'
<1> DEFINE q == call[t]
           r == th[t]
           l == Link(t)
<1>1. PICK n \in 1 .. Len(l.wire), rest \in {None, l.bye} :
        Continues(t, r, [l EXCEPT
            !.buffer = SubSeq(l.wire, 1, n),
            !.wire = SubSeq(l.wire, n + 1, Len(l.wire)),
            !.left = rest,
            !.bye = IF rest = None THEN @ ELSE None])
  BY DEF Recv
<1> DEFINE m == [l EXCEPT !.buffer = SubSeq(l.wire, 1, n),
                          !.wire = SubSeq(l.wire, n + 1, Len(l.wire)),
                          !.left = rest,
                          !.bye = IF rest = None THEN @ ELSE None]
<1>2. /\ IsLink(l) /\ InStep(r, l) /\ LinkTyped(l) /\ Fits(q, r, l)
      /\ r.pc = "await" /\ l.buffer = <<>>
  BY CallOfThread DEF Recv, Reads
<1>3. /\ m.sock = l.sock /\ m.transfer = l.transfer /\ m.inbox = l.inbox
      /\ m.flavour = l.flavour /\ m.chan = l.chan
      /\ m.buffer = SubSeq(l.wire, 1, n) /\ m.wire = SubSeq(l.wire, n + 1, Len(l.wire))
  BY <1>2 DEF IsLink
<1>4. Continues(t, r, m)
  BY <1>1
<1> HIDE DEF m, l, r, q
<1>5. \A p : OneReply(m, p) => OneReply(l, p)
  BY <1>2, <1>3, RecvReplies
<1>6. Fits(q, r, m)
  <2>1. Busy(r)
    BY <1>2 DEF Busy
  <2>2. Serving(q, r, m) /\ Offers(r, m) /\ Holds(r, m)
    BY <1>2, <1>3, <1>5, <2>1 DEF Fits, Serving, Offers, Holds, Begins
  <2>3. Carries(q, r, m)
    BY <1>2, <1>3 DEF Fits, Carries
  <2> QED
    BY <1>2, <2>2, <2>3 DEF Fits
<1>7. LinkTyped(m)
  BY <1>2, <1>3 DEF LinkTyped
<1> QED
  BY <1>4, <1>6, <1>7, ContinuesFits DEF q

LEMMA RecvRestFits ==
    ASSUME Own, AllInStep, AllFit, NEW t \in Threads, RecvRest(t)
    PROVE  AllFit'
<1> DEFINE q == call[t]
           r == th[t]
           l == Link(t)
           m == [l EXCEPT !.left = l.bye, !.bye = None]
<1>1. Continues(t, r, m) /\ r.pc = "await"
  BY DEF RecvRest, Reads
<1>2. IsLink(l) /\ LinkTyped(l) /\ Fits(q, r, l)
  BY CallOfThread
<1>3. /\ m.sock = l.sock /\ m.transfer = l.transfer /\ m.inbox = l.inbox
      /\ m.flavour = l.flavour /\ m.chan = l.chan /\ m.buffer = l.buffer /\ m.wire = l.wire
  BY <1>2 DEF IsLink
<1> HIDE DEF m, l, r, q
<1>4. \A p : OneReply(m, p) <=> OneReply(l, p)
  BY <1>3 DEF OneReply
<1>5. Fits(q, r, m)
  BY <1>2, <1>3, <1>4 DEF Fits, Serving, Offers, Holds, Begins, Carries
<1>6. LinkTyped(m)
  BY <1>2, <1>3 DEF LinkTyped
<1> QED
  BY <1>1, <1>5, <1>6, ContinuesFits DEF q

LEMMA RecvJoinsFits ==
    ASSUME Own, AllInStep, AllTrail, AllFit, NEW t \in Threads, RecvJoins(t)
    PROVE  AllFit'
<1> DEFINE q == call[t]
           r == th[t]
           l == Link(t)
<1>1. PICK read \in {<<>>} \cup {<<Reply(code, None)>> : code \in {220, 250, 500}} :
        Continues(t, r, [l EXCEPT !.buffer = read, !.wire = Tail(@), !.left = None])
  BY DEF RecvJoins
<1> DEFINE m == [l EXCEPT !.buffer = read, !.wire = Tail(@), !.left = None]
<1>2. /\ IsLink(l) /\ LinkTyped(l) /\ Fits(q, r, l) /\ r.pc = "await"
      /\ Trails(r, l) /\ l.left # None
  BY CallOfThread, ValuesAssumption DEF RecvJoins, Reads, AllTrail
<1>3. /\ m.sock = l.sock /\ m.transfer = l.transfer /\ m.inbox = l.inbox
      /\ m.flavour = l.flavour /\ m.chan = l.chan
  BY <1>2 DEF IsLink
<1>4. Continues(t, r, m)
  BY <1>1
<1>5. r.cmd.name = "220"
  BY <1>2 DEF RecvJoins, Trails
<1> HIDE DEF m, l, r, q
<1>6. r.cmd.name # "PASV" /\ r.cmd.name \notin Transfers
  BY <1>5 DEF Transfers
<1>7. Fits(q, r, m)
  <2>1. Offers(r, m) /\ Holds(r, m)
    BY <1>6 DEF Offers, Holds, Begins
  <2> QED
    BY <1>2, <1>3, <2>1 DEF Fits, Serving, Carries
<1>8. LinkTyped(m)
  BY <1>2, <1>3 DEF LinkTyped
<1> QED
  BY <1>4, <1>7, <1>8, ContinuesFits DEF q

\* The link once the only reply is taken, and no data connection in use.
LEMMA TakesPlain ==
    ASSUME AllInStep, AllFit, NEW t \in Threads, NEW names, Awaits(t, names),
           names \cap (Transfers \cup Ends) = {}
    PROVE  /\ th[t].pc = "await" /\ Busy(th[t]) /\ th[t].port = None
           /\ IsLink(Taken(t)) /\ LinkTyped(Taken(t)) /\ Taken(t).transfer = None
           /\ \A p \in Ports : Taken(t).chan[p].state \notin {"connected", "received"}
<1>1. /\ th[t].pc = "await" /\ th[t].cmd.name \in names /\ Link(t).buffer # <<>>
      /\ th[t].cmd.name \notin Transfers \cup Ends
  BY DEF Awaits
<1>2. /\ IsLink(Taken(t)) /\ LinkTyped(Taken(t)) /\ Busy(th[t]) /\ Asks(call[t], th[t])
      /\ Taken(t).chan = Link(t).chan
      /\ \A p \in Ports : p # th[t].port => Link(t).chan[p].state \notin {"connected", "received"}
  BY <1>1, CallOfThread
<1>3. th[t].port = None
  BY <1>1, <1>2, AsksByName DEF Plain
<1>4. Taken(t).transfer = None
  BY <1>1, TakenForm DEF AtRest, NoWork
<1> QED
  BY <1>1, <1>2, <1>3, <1>4, PortsAssumption

LEMMA LoginFits ==
    ASSUME Own, AllInStep, AllFit, NEW t \in Threads, TakeLogin(t)
    PROVE  AllFit'
<1> DEFINE q == call[t]
           name == th[t].cmd.name
           next == LoginNext(name, Code(t))
           l == Taken(t)
<1>1. Awaits(t, Logins) /\ name \in Logins
  BY DEF TakeLogin, Logins, Awaits
<1>2. Logins \cap (Transfers \cup Ends) = {}
  BY DEF Logins, Transfers, Ends
<1>3. /\ th[t].pc = "await" /\ Busy(th[t]) /\ IsLink(l) /\ LinkTyped(l) /\ l.transfer = None
      /\ \A p \in Ports : l.chan[p].state \notin {"connected", "received"}
  BY <1>1, <1>2, TakesPlain
<1>4. /\ IsPlace(th[t]) /\ Follows(q, th[t])
  BY <1>3, CallOfThread DEF Busy
<1>5. Prepares(q, th[t], th[t].resume) /\ th[t].port = None
  BY <1>1, <1>3, <1>4, AsksByName DEF Follows
<1>6. Plain(th[t].resume.name)
  BY <1>1, <1>2, TakenForm DEF Awaits
<1>7. next \in (Logins \ {"220"}) \cup {"done", "failed"}
  BY DEF LoginNext, Logins
<1> HIDE DEF next
<1>8. CASE next = "failed"
  <2>1. Fails(t, HangUp(l))
    BY <1>8 DEF TakeLogin, next
  <2>2. /\ IsLink(HangUp(l)) /\ LinkTyped(HangUp(l)) /\ \A p \in Ports : HangUp(l).chan[p].state = "free"
    BY <1>3, HangUpForm, HangUpFits
  <2> QED
    BY <1>3, <2>1, <2>2, FailsFits
<1>9. CASE next = "done"
  <2> DEFINE r == [th[t] EXCEPT !.pc = "send", !.cmd = th[t].resume, !.resume = None]
  <2>1. Continues(t, r, l)
    BY <1>9 DEF TakeLogin, next
  <2>2. /\ r.pc = "send" /\ r.cmd = th[t].resume /\ r.resume = None /\ r.port = None
        /\ r.rest = th[t].rest /\ r.got = th[t].got
    BY <1>4, <1>5 DEF IsPlace
  <2> HIDE DEF r, l
  <2>3. Prepares(q, r, r.cmd)
    BY <1>5, <2>2, SameRest
  <2>4. Follows(q, r)
    BY <1>4, <2>2, <2>3 DEF Follows, Asks
  <2> QED
    BY <1>3, <1>6, <2>1, <2>2, <2>4, GoesOnFits DEF Plain
<1>10. CASE next \in Logins \ {"220"}
  <2> DEFINE r == Sends(th[t], next, None)
  <2>1. Continues(t, r, l)
    <3>1. next # "failed" /\ next # "done"
      BY <1>10 DEF Logins
    <3> QED
      BY <3>1 DEF TakeLogin, next
  <2>2. /\ r.pc = "send" /\ r.cmd = Command(next, None) /\ r.resume = th[t].resume /\ r.port = None
        /\ r.rest = th[t].rest /\ r.got = th[t].got
    BY <1>4, <1>5, SendsFields
  <2> HIDE DEF r, l
  <2>3. Prepares(q, r, r.resume)
    BY <1>5, <2>2, SameRest
  <2>4. Follows(q, r)
    BY <1>4, <1>10, <2>2, <2>3 DEF Follows, Asks
  <2>5. r.cmd.name \notin Transfers \cup Ends
    BY <1>2, <1>10, <2>2 DEF Command
  <2> QED
    BY <1>3, <2>1, <2>2, <2>4, <2>5, GoesOnFits
<1> QED
  BY <1>7, <1>8, <1>9, <1>10

LEMMA QuitReplyFits ==
    ASSUME Own, AllInStep, AllFit, NEW t \in Threads, TakeQuit(t)
    PROVE  AllFit'
<1> DEFINE l == IF HangsUp(t) THEN HangUp(Taken(t)) ELSE Taken(t)
<1>1. Finish(t, Store!Done, l) /\ Awaits(t, {"QUIT"}) /\ Store!Done \in Results
  BY DEF TakeQuit, Results, Store!Outcomes
<1>2. /\ Busy(th[t]) /\ IsLink(Taken(t)) /\ LinkTyped(Taken(t))
      /\ \A p \in Ports : Taken(t).chan[p].state \notin {"connected", "received"}
  <2>1. {"QUIT"} \cap (Transfers \cup Ends) = {}
    BY DEF Transfers, Ends
  <2> QED
    BY <1>1, <2>1, TakesPlain
<1>3. /\ IsLink(HangUp(Taken(t))) /\ LinkTyped(HangUp(Taken(t)))
      /\ \A p \in Ports : HangUp(Taken(t)).chan[p].state = "free"
  BY <1>2, HangUpForm, HangUpFits
<1>4. /\ IsLink(l) /\ LinkTyped(l) /\ \A p \in Ports : l.chan[p].state \notin {"connected", "received"}
  BY <1>2, <1>3
<1> QED
  BY <1>1, <1>2, <1>4, FinishFits

LEMMA FeatReplyFits ==
    ASSUME Own, AllInStep, AllFit, NEW t \in Threads, TakeFeat(t)
    PROVE  AllFit'
<1> DEFINE q == call[t]
           f == IF Code(t) = 211 THEN Info(t) ELSE {}
           r == Probe(th[t], q, f)
           m == [Taken(t) EXCEPT !.features = f]
<1>1. Continues(t, r, m) /\ Awaits(t, {"FEAT"})
  BY DEF TakeFeat
<1>2. Plain("FEAT")
  BY DEF Plain, Transfers, Logins, Ends
<1>3. /\ th[t].pc = "await" /\ Busy(th[t]) /\ th[t].port = None /\ Taken(t).transfer = None
      /\ IsLink(Taken(t)) /\ LinkTyped(Taken(t)) /\ th[t].cmd.name = "FEAT"
      /\ \A p \in Ports : Taken(t).chan[p].state \notin {"connected", "received"}
  <2>1. {"FEAT"} \cap (Transfers \cup Ends) = {}
    BY DEF Transfers, Ends
  <2> QED
    BY <1>1, <2>1, TakesPlain DEF Awaits
<1>4. IsPlace(th[t]) /\ Follows(q, th[t])
  BY <1>3, CallOfThread DEF Busy
<1>5. Prepares(q, th[t], th[t].cmd) /\ th[t].resume = None
  BY <1>2, <1>3, <1>4, AsksByName DEF Follows
<1>6. q.op \in {"exists", "scan"}
  BY <1>3, <1>5 DEF Prepares, Command
<1>7. Follows(q, r)
  BY <1>3, <1>4, <1>5, <1>6, Probes DEF Follows
<1>8. r.pc = "send" /\ Plain(r.cmd.name)
  BY <1>4, ProbeForm
<1>9. m.chan = Taken(t).chan /\ m.flavour = Taken(t).flavour /\ m.transfer = None
  BY <1>3 DEF IsLink
<1> HIDE DEF r, m
<1>10. LinkTyped(m)
  BY <1>3, <1>9 DEF LinkTyped
<1> QED
  BY <1>1, <1>3, <1>7, <1>8, <1>9, <1>10, GoesOnFits DEF Plain

LEMMA MkdReplyFits ==
    ASSUME Own, AllInStep, AllFit, NEW t \in Threads, TakeMkd(t)
    PROVE  AllFit'
<1> DEFINE q == call[t]
           r == MakeParents(th[t], Tail(th[t].rest))
<1>1. (Continues(t, r, Taken(t)) \/ Fails(t, Taken(t))) /\ Awaits(t, {"MKD"})
  BY DEF TakeMkd
<1>2. Plain("MKD")
  BY DEF Plain, Transfers, Logins, Ends
<1>3. /\ th[t].pc = "await" /\ Busy(th[t]) /\ th[t].port = None /\ Taken(t).transfer = None
      /\ IsLink(Taken(t)) /\ LinkTyped(Taken(t)) /\ th[t].cmd.name = "MKD"
      /\ \A p \in Ports : Taken(t).chan[p].state \notin {"connected", "received"}
  <2>1. {"MKD"} \cap (Transfers \cup Ends) = {}
    BY DEF Transfers, Ends
  <2> QED
    BY <1>1, <2>1, TakesPlain DEF Awaits
<1>4. IsPlace(th[t]) /\ Follows(q, th[t]) /\ q \in Calls
  BY <1>3, CallOfThread DEF Busy
<1>5. Prepares(q, th[t], th[t].cmd) /\ th[t].resume = None
  BY <1>2, <1>3, <1>4, AsksByName DEF Follows
<1>6. q.op = "put" /\ th[t].rest # <<>>
  BY <1>3, <1>5 DEF Prepares, Command
<1>7. Suffix(Tail(th[t].rest), Parents(q.key))
  <2>1. q.key \in Keys
    BY <1>4, <1>6 DEF Calls, Store!Requests, Lifecycle
  <2>2. Parents(q.key) \in Seq(AllDirs)
    BY <2>1, ParentsForm
  <2>3. Suffix(th[t].rest, Parents(q.key))
    BY <1>4, <1>6 DEF Follows, Whole
  <2> QED
    BY <1>6, <2>2, <2>3, SuffixForms
<1>8. Follows(q, r)
  BY <1>3, <1>4, <1>5, <1>6, <1>7, MakesParents DEF Follows
<1>9. r.pc = "send" /\ Plain(r.cmd.name)
  BY <1>4, MakeParentsForm
<1> HIDE DEF r
<1> QED
  BY <1>1, <1>3, <1>8, <1>9, GoesOnFits, FailsFits DEF Plain

LEMMA DeleReplyFits ==
    ASSUME Own, AllInStep, AllFit, NEW t \in Threads, TakeDele(t)
    PROVE  AllFit'
<1>1. Awaits(t, {"DELE"}) /\ {"DELE"} \cap (Transfers \cup Ends) = {}
  BY DEF TakeDele, Transfers, Ends
<1>2. \E o \in Results : Finish(t, o, Taken(t))
  <2>1. {Store!KeyError, Store!Done, Store!BlobError} \subseteq Results
    BY DEF Results, Store!Outcomes
  <2> QED
    BY <2>1 DEF TakeDele
<1> QED
  BY <1>1, <1>2, TakesPlain, FinishFits

LEMMA ProbeReplyFits ==
    ASSUME Own, AllInStep, AllFit, NEW t \in Threads, TakeProbe(t)
    PROVE  AllFit'
<1> DEFINE q == call[t]
<1>1. Awaits(t, {"SIZE", "MLST"})
  BY DEF TakeProbe
<1>2. /\ th[t].pc = "await" /\ Busy(th[t]) /\ th[t].port = None /\ Taken(t).transfer = None
      /\ IsLink(Taken(t)) /\ LinkTyped(Taken(t)) /\ th[t].cmd.name \in {"SIZE", "MLST"}
      /\ \A p \in Ports : Taken(t).chan[p].state \notin {"connected", "received"}
  <2>1. {"SIZE", "MLST"} \cap (Transfers \cup Ends) = {}
    BY DEF Transfers, Ends
  <2> QED
    BY <1>1, <2>1, TakesPlain DEF Awaits
<1>3. IsPlace(th[t]) /\ Follows(q, th[t]) /\ q \in Calls
  BY <1>2, CallOfThread DEF Busy
<1>4. Prepares(q, th[t], th[t].cmd) /\ th[t].resume = None
  <2>1. Plain("SIZE") /\ Plain("MLST")
    BY DEF Plain, Transfers, Logins, Ends
  <2> QED
    BY <1>2, <1>3, <2>1, AsksByName DEF Follows
<1>5. q.op = "exists"
  BY <1>2, <1>4 DEF Prepares, Command
<1>6. ASSUME NEW f, Continues(t, Probe(th[t], q, f), Taken(t)) PROVE AllFit'
  <2> DEFINE r == Probe(th[t], q, f)
  <2>1. Follows(q, r)
    BY <1>2, <1>3, <1>4, <1>5, Probes DEF Follows
  <2>2. r.pc = "send" /\ Plain(r.cmd.name)
    BY <1>3, ProbeForm
  <2> HIDE DEF r
  <2> QED
    BY <1>2, <1>6, <2>1, <2>2, GoesOnFits DEF Plain, r
<1>7. ASSUME NEW yes \in BOOLEAN, Finish(t, [found |-> yes], Taken(t)) PROVE AllFit'
  <2>1. [found |-> yes] \in Results
    BY DEF Results, Store!Outcomes
  <2> QED
    BY <1>2, <1>7, <2>1, FinishFits
<1>8. \/ \E f : Continues(t, Probe(th[t], q, f), Taken(t))
      \/ \E yes \in BOOLEAN : Finish(t, [found |-> yes], Taken(t))
  BY DEF TakeProbe
<1> QED
  BY <1>6, <1>7, <1>8

LEMMA PasvReplyFits ==
    ASSUME Own, AllInStep, AllFit, NEW t \in Threads, TakePasv(t)
    PROVE  AllFit'
<1> DEFINE q == call[t]
           m == Taken(t)
           r == [th[t] EXCEPT !.pc = "dial", !.port = Info(t).port]
<1>1. Awaits(t, {"PASV"}) /\ th[t].cmd.name = "PASV" /\ Link(t).buffer # <<>>
  BY DEF TakePasv, Awaits
<1>2. Plain("PASV")
  BY DEF Plain, Transfers, Logins, Ends
<1>3. /\ th[t].pc = "await" /\ Busy(th[t]) /\ m.transfer = None /\ IsLink(m) /\ LinkTyped(m)
      /\ \A p \in Ports : m.chan[p].state \notin {"connected", "received"}
  <2>1. {"PASV"} \cap (Transfers \cup Ends) = {}
    BY DEF Transfers, Ends
  <2> QED
    BY <1>1, <2>1, TakesPlain
<1>4. IsPlace(th[t]) /\ InStep(th[t], Link(t)) /\ Follows(q, th[t]) /\ Offers(th[t], Link(t))
  BY <1>3, CallOfThread DEF Busy, Fits
<1>5. Prepares(q, th[t], th[t].cmd) /\ th[t].resume = None
  BY <1>1, <1>2, <1>3, <1>4, AsksByName DEF Follows
<1>6. CASE Code(t) = 227
  <2>1. Continues(t, r, m)
    BY <1>6 DEF TakePasv
  <2>2. OneReply(Link(t), Head(Link(t).buffer))
    BY <1>1, <1>3, <1>4, OnlyReply DEF Transfers
  <2>3. Info(t).port \in Ports
    BY <1>1, <1>3, <1>4, <1>6, <2>2 DEF Offers, Code, Info
  <2>4. /\ r.pc = "dial" /\ r.port = Info(t).port /\ r.resume = None /\ r.cmd = th[t].cmd
        /\ r.rest = th[t].rest /\ r.got = th[t].got
    BY <1>4, <1>5 DEF IsPlace
  <2> HIDE DEF r, m
  <2>5. Prepares(q, r, r.cmd)
    BY <1>5, <2>4, SameRest
  <2>6. Follows(q, r)
    BY <1>1, <1>4, <2>3, <2>4, <2>5 DEF Follows, Asks
  <2>7. r.cmd # Command("226", None) /\ r.cmd.name \notin Transfers
    <3>1. Command("226", None).name = "226"
      BY DEF Command
    <3> QED
      BY <1>1, <2>4, <3>1 DEF Transfers
  <2>8. Fits(q, r, m)
    BY <1>3, <2>4, <2>6, <2>7 DEF Fits, Busy, Serving, Offers, Holds, Begins, Carries
  <2> QED
    BY <1>3, <2>1, <2>8, ContinuesFits
<1>7. CASE Code(t) # 227
  <2>1. Fails(t, m)
    BY <1>7 DEF TakePasv
  <2> QED
    BY <1>3, <2>1, FailsFits
<1> QED
  BY <1>6, <1>7

LEMMA DialFits ==
    ASSUME Own, AllInStep, AllFit, NEW t \in Threads, Dial(t)
    PROVE  AllFit'
<1> DEFINE q == call[t]
           l == Link(t)
           c == Chan("connected", None)
           m == [l EXCEPT !.chan[th[t].port] = c]
           r == CASE q.op = "put" -> Sends(th[t], "STOR", q.key)
                  [] q.op = "get" -> Sends(th[t], "RETR", q.key)
                  [] OTHER        -> Sends(th[t], "LIST", Path(t))
<1>1. Continues(t, r, m) /\ th[t].pc = "dial"
  BY DEF Dial
<1>2. /\ IsPlace(th[t]) /\ IsLink(l) /\ LinkTyped(l) /\ AtRest(l) /\ Follows(q, th[t])
      /\ \A p \in Ports : p # th[t].port => l.chan[p].state \notin {"connected", "received"}
  BY <1>1, PlaceOfThread, CallOfThread
<1>3. /\ Prepares(q, th[t], Command("PASV", None)) /\ th[t].resume = None /\ th[t].port \in Ports
  <2>1. Prepares(q, th[t], th[t].cmd) /\ th[t].cmd.name = "PASV"
        /\ th[t].resume = None /\ th[t].port \in Ports
    BY <1>1, <1>2 DEF Follows, Asks
  <2>2. th[t].cmd = Command("PASV", None)
    BY <2>1 DEF Prepares, Command
  <2> QED
    BY <2>1, <2>2
<1>4. q.op \in Reading \cup {"put"} /\ Reached(q, th[t]) /\ (q.op = "put" => th[t].rest = <<>>)
  BY <1>3 DEF Prepares, Command
<1>5. PICK name, arg : /\ r = Sends(th[t], name, arg) /\ name \in Transfers
                       /\ Moves(q, th[t], Command(name, arg))
  <2>1. Path(t) = Where(q, th[t])
    BY DEF Path, Where, Target
  <2>2. CASE q.op = "put"
    BY <1>4, <2>2 DEF Moves, Transfers
  <2>3. CASE q.op = "get"
    BY <2>3 DEF Moves, Transfers
  <2>4. CASE q.op \in {"exists", "scan"}
    BY <1>4, <2>1, <2>4 DEF Moves, Transfers
  <2> QED
    BY <1>4, <2>2, <2>3, <2>4 DEF Reading
<1>6. /\ r.pc = "send" /\ r.resume = None /\ r.port = th[t].port /\ r.rest = th[t].rest
      /\ r.got = th[t].got /\ r.cmd = Command(name, arg)
  BY <1>2, <1>3, <1>5, SendsFields
<1> HIDE DEF r
<1>7. Follows(q, r)
  <2>1. Moves(q, r, r.cmd)
    BY <1>5, <1>6, SameRest
  <2> QED
    BY <1>2, <1>3, <1>6, <2>1 DEF Follows, Asks
<1>8. c.state = "connected" /\ "connected" \in States
  BY DEF Chan, States
<1> HIDE DEF c
<1>9. /\ m.transfer = None /\ m.flavour = l.flavour
      /\ \A p \in Ports : m.chan[p] = IF p = th[t].port THEN c ELSE l.chan[p]
  BY <1>2 DEF IsLink, AtRest, NoWork
<1> HIDE DEF m
<1>10. LinkTyped(m)
  BY <1>2, <1>8, <1>9 DEF LinkTyped
<1>11. Carries(q, r, m)
  BY <1>2, <1>6, <1>8, <1>9 DEF Carries, Busy
<1>12. Holds(r, m)
  BY <1>3, <1>6, <1>8, <1>9 DEF Holds
<1>13. r.cmd # Command("226", None)
  BY <1>5, <1>6 DEF Command, Transfers
<1>14. Fits(q, r, m)
  BY <1>6, <1>7, <1>9, <1>11, <1>12, <1>13 DEF Fits, Busy, Serving, Offers
<1> QED
  BY <1>1, <1>10, <1>14, ContinuesFits

LEMMA DialFailsFits ==
    ASSUME Own, AllInStep, AllFit, NEW t \in Threads, DialRefused(t) \/ DialFails(t)
    PROVE  AllFit'
<1>1. Fails(t, Link(t)) /\ th[t].pc = "dial"
  BY DEF DialRefused, DialFails
<1>2. Busy(th[t])
  BY <1>1 DEF Busy
<1> QED
  BY <1>1, <1>2, CallOfThread, FailsFits

\* The keys that a call which lists has found.
LEMMA YieldedFits ==
    ASSUME Own, AllInStep, AllFit, NEW t \in Threads, th[t].pc = "await", NEW ks, ks \subseteq Keys,
           Yielded(t, ks, Taken(t))
    PROVE  AllFit'
<1>1. [keys |-> ks] \in Results /\ [found |-> call[t].key \in ks] \in Results
  BY DEF Results, Store!Outcomes
<1>2. \E o \in Results : Finish(t, o, Taken(t))
  BY <1>1 DEF Yielded
<1>3. /\ Busy(th[t]) /\ IsLink(Taken(t)) /\ LinkTyped(Taken(t))
      /\ \A p \in Ports : Taken(t).chan[p].state \in {"connected", "received"} => p = th[t].port
  BY CallOfThread
<1> QED
  BY <1>2, <1>3, FinishFits

LEMMA TransferReplyFits ==
    ASSUME Own, AllInStep, AllFit, NEW t \in Threads, TakeTransfer(t)
    PROVE  AllFit'
<1> DEFINE q == call[t]
           l == Link(t)
           m == Taken(t)
           r == [th[t] EXCEPT !.pc = IF th[t].cmd.name = "STOR" THEN "fill" ELSE "data"]
<1>1. th[t].pc = "await" /\ th[t].cmd.name \in Transfers
  BY DEF TakeTransfer, Awaits, Transfers
<1>2. /\ IsPlace(th[t]) /\ Fits(q, th[t], l) /\ Busy(th[t]) /\ Follows(q, th[t])
      /\ m.chan = l.chan /\ m.transfer = l.transfer /\ m.inbox = l.inbox /\ m.sock = l.sock
      /\ IsLink(m) /\ LinkTyped(m)
      /\ \A p \in Ports : m.chan[p].state \in {"connected", "received"} => p = th[t].port
  BY <1>1, CallOfThread
<1>3. Moves(q, th[t], th[t].cmd) /\ th[t].resume = None /\ th[t].port \in Ports
  BY <1>1, <1>2, AsksByName DEF Follows
<1>4. CASE Code(t) \in {125, 150}
  <2>1. Continues(t, r, m)
    BY <1>4 DEF TakeTransfer
  <2>2. /\ r.pc = IF th[t].cmd.name = "STOR" THEN "fill" ELSE "data"
        /\ r.cmd = th[t].cmd /\ r.port = th[t].port /\ r.resume = None
        /\ r.rest = th[t].rest /\ r.got = th[t].got /\ r.data = th[t].data
    BY <1>2, <1>3 DEF IsPlace
  <2> HIDE DEF r, m, l, q
  <2>3. \A c : Moves(q, r, c) <=> Moves(q, th[t], c)
    BY <2>2, SameRest
  <2>4. IF th[t].cmd.name = "STOR" THEN q.op = "put" ELSE q.op \in Reading
    BY <1>3 DEF Moves, Command, Reading
  <2>5. Follows(q, r)
    BY <1>2, <1>3, <2>2, <2>3, <2>4 DEF Follows, Asks
  <2>6. Serving(q, r, m)
    BY <1>2, <2>2, <2>3 DEF Fits, Serving
  <2>7. Holds(r, m)
    BY <1>1, <1>2, <2>2 DEF Fits, Holds, Begins
  <2>8. Carries(q, r, m) /\ Offers(r, m) /\ Busy(r)
    BY <1>2, <2>2 DEF Fits, Carries, Offers, Busy
  <2>9. r.cmd # Command("226", None)
    <3>1. Command("226", None).name = "226"
      BY DEF Command
    <3> QED
      BY <1>1, <2>2, <3>1 DEF Transfers
  <2>10. Fits(q, r, m)
    BY <2>2, <2>5, <2>6, <2>7, <2>8, <2>9 DEF Fits
  <2> QED
    BY <1>2, <2>1, <2>10, ContinuesFits DEF q
<1>5. CASE Code(t) \notin {125, 150}
  <2>1. \/ Finish(t, Store!KeyError, m)
        \/ Yielded(t, th[t].got, m)
        \/ Fails(t, m)
    BY <1>5 DEF TakeTransfer
  <2>2. Store!KeyError \in Results
    BY DEF Results, Store!Outcomes
  <2>3. th[t].got \subseteq Keys
    BY <1>2 DEF Follows
  <2> QED
    BY <1>1, <1>2, <2>1, <2>2, <2>3, FinishFits, FailsFits, YieldedFits
<1> QED
  BY <1>4, <1>5

\* At the end of the data: r is where the thread then is, m its link.
LEMMA AwaitEndFits ==
    ASSUME Own, AllInStep, AllFit, NEW t \in Threads, th[t].pc \in {"data", "fill"},
           NEW r, NEW m, Continues(t, r, m), NEW name \in Ends, r.pc = "await",
           r.cmd = Command(name, None), r.resume = th[t].resume, r.port = th[t].port,
           r.rest = th[t].rest, r.got = th[t].got,
           name = "226" /\ call[t].op # "put" => r.data \in Fetches(call[t]) \cup {Torn},
           LinkTyped(m), m.transfer = Link(t).transfer,
           \A p \in Ports : \/ m.chan[p] = Link(t).chan[p]
                            \/ m.chan[p].state \notin {"connected", "received"}
    PROVE  AllFit'
<1> DEFINE q == call[t]
           l == Link(t)
<1>1. Fits(q, th[t], l) /\ Busy(th[t]) /\ Follows(q, th[t])
  BY CallOfThread
<1>2. /\ Moves(q, th[t], th[t].cmd) /\ th[t].resume = None /\ th[t].port \in Ports
      /\ q.op \in Reading \cup {"put"}
  BY <1>1 DEF Follows, Asks
<1>3. Reached(q, th[t]) /\ (q.op = "put" => th[t].rest = <<>>)
  BY <1>2 DEF Moves, Reached
<1>4. r.cmd.name = name /\ name \notin Transfers /\ name # "PASV"
  <2>1. Command(name, None).name = name
    BY DEF Command
  <2> QED
    BY <2>1 DEF Ends, Transfers
<1>5. r.cmd = Command("226", None) => name = "226"
  BY DEF Command
<1> HIDE DEF q, l
<1>6. /\ \A c : Moves(q, r, c) <=> Moves(q, th[t], c)
      /\ Reached(q, r) <=> Reached(q, th[t])
  BY SameRest
<1>7. Follows(q, r)
  BY <1>1, <1>2, <1>3, <1>6 DEF Follows, Asks
<1>8. Serving(q, r, m)
  BY <1>1, <1>6 DEF Fits, Serving, l
<1>9. Holds(r, m) /\ Offers(r, m) /\ Busy(r)
  BY <1>4 DEF Holds, Begins, Offers, Busy
<1>10. Carries(q, r, m)
  BY <1>1, <1>9 DEF Fits, Carries, l
<1>11. Fits(q, r, m)
  BY <1>5, <1>7, <1>8, <1>9, <1>10 DEF Fits, q
<1> QED
  BY <1>11, ContinuesFits DEF q

LEMMA ReadDataFits ==
    ASSUME Own, AllInStep, AllFit, NEW t \in Threads, ReadData(t)
    PROVE  AllFit'
<1> DEFINE l == Link(t)
           d == IF MyChan(t).state = "received" THEN MyChan(t).data ELSE Torn
           e == Expects(th[t], "226")
           r == [e EXCEPT !.data = d]
<1>1. Continues(t, r, l) /\ th[t].pc = "data"
  BY DEF ReadData
<1>2. IsPlace(th[t]) /\ LinkTyped(l) /\ Fits(call[t], th[t], l) /\ Busy(th[t]) /\ Asks(call[t], th[t])
  BY <1>1, CallOfThread
<1>3. th[t].port \in Ports
  BY <1>1, <1>2 DEF Asks
<1>4. d \in Fetches(call[t]) \cup {Torn}
  BY <1>2, <1>3 DEF Fits, Carries, MyChan
<1>5. /\ e.pc = "await" /\ e.cmd = Command("226", None) /\ e.resume = th[t].resume
      /\ e.port = th[t].port /\ e.rest = th[t].rest /\ e.got = th[t].got /\ IsPlace(e)
  BY <1>2, ExpectsFields, ExpectsForm
<1> HIDE DEF e, d
<1>6. /\ r.pc = "await" /\ r.cmd = Command("226", None) /\ r.resume = th[t].resume
      /\ r.port = th[t].port /\ r.rest = th[t].rest /\ r.got = th[t].got /\ r.data = d
  BY <1>5 DEF IsPlace
<1> HIDE DEF r
<1> QED
  BY <1>1, <1>2, <1>4, <1>6, AwaitEndFits DEF Ends

LEMMA FillDataFits ==
    ASSUME Own, AllInStep, AllFit, NEW t \in Threads, FillData(t)
    PROVE  AllFit'
<1> DEFINE l == Link(t)
           r == Expects(th[t], "226")
<1>1. PICK d \in Leaving(t) :
        Continues(t, r, IF MyChan(t).state # "connected" THEN l
                        ELSE [l EXCEPT !.chan[th[t].port] = Chan("sent", d)])
  BY DEF FillData
<1> DEFINE s == [l EXCEPT !.chan[th[t].port] = Chan("sent", d)]
           m == IF MyChan(t).state # "connected" THEN l ELSE s
<1>2. /\ IsPlace(th[t]) /\ IsLink(l) /\ LinkTyped(l) /\ Asks(call[t], th[t]) /\ th[t].pc = "fill"
      /\ call[t] \in Calls
  BY CallOfThread DEF FillData
<1>3. call[t].op = "put" /\ th[t].port \in Ports
  BY <1>2 DEF Asks
<1>4. d \in Values \cup {Torn}
  <2>1. call[t].data \in Values
    BY <1>2, <1>3 DEF Calls, Store!Requests, Lifecycle
  <2> QED
    BY <2>1 DEF Leaving
<1>5. /\ s.transfer = l.transfer /\ s.flavour = l.flavour
      /\ \A p \in Ports : s.chan[p] = IF p = th[t].port THEN Chan("sent", d) ELSE l.chan[p]
  BY <1>2 DEF IsLink
<1>6. Chan("sent", d).state = "sent" /\ Chan("sent", d).data = d /\ "sent" \in States
  BY DEF Chan, States
<1> HIDE DEF s
<1>7. /\ LinkTyped(m) /\ m.transfer = l.transfer
      /\ \A p \in Ports : m.chan[p] = l.chan[p] \/ m.chan[p].state \notin {"connected", "received"}
  BY <1>2, <1>4, <1>5, <1>6 DEF LinkTyped
<1>8. /\ r.pc = "await" /\ r.cmd = Command("226", None) /\ r.resume = th[t].resume
      /\ r.port = th[t].port /\ r.rest = th[t].rest /\ r.got = th[t].got
  BY <1>2, ExpectsFields
<1>9. Continues(t, r, m)
  BY <1>1 DEF m, s
<1> HIDE DEF r, m
<1> QED
  BY <1>2, <1>3, <1>7, <1>8, <1>9, AwaitEndFits DEF Ends

LEMMA DataFailsFits ==
    ASSUME Own, AllInStep, AllFit, NEW t \in Threads, DataFails(t) \/ DataTimesOut(t)
    PROVE  AllFit'
<1> DEFINE l == Link(t)
           r == Expects(th[t], "226, failing")
<1>1. PICK m \in {l, CloseData(l, th[t].port)} : Continues(t, r, m)
  BY DEF DataFails, DataTimesOut
<1>2. th[t].pc \in {"data", "fill"}
  BY DEF DataFails, DataTimesOut
<1>3. IsPlace(th[t]) /\ IsLink(l) /\ LinkTyped(l) /\ Asks(call[t], th[t])
  BY <1>2, CallOfThread
<1>4. th[t].port \in Ports
  BY <1>2, <1>3 DEF Asks
<1>5. CloseData(l, th[t].port).transfer = l.transfer
  BY <1>3, CloseDataForm
<1>6. /\ LinkTyped(m) /\ m.transfer = l.transfer
      /\ \A p \in Ports : m.chan[p] = l.chan[p] \/ m.chan[p].state \notin {"connected", "received"}
  BY <1>3, <1>4, <1>5, CloseDataFits
<1>7. /\ r.pc = "await" /\ r.cmd = Command("226, failing", None) /\ r.resume = th[t].resume
      /\ r.port = th[t].port /\ r.rest = th[t].rest /\ r.got = th[t].got
  BY <1>3, ExpectsFields
<1> HIDE DEF r, l
<1> QED
  BY <1>1, <1>2, <1>6, <1>7, AwaitEndFits DEF Ends, l

\* The reply that ends a transfer is the only one.
LEMMA TakesEnd ==
    ASSUME AllInStep, AllFit, NEW t \in Threads, Awaits(t, Ends)
    PROVE  /\ th[t].pc = "await" /\ Busy(th[t]) /\ IsPlace(th[t]) /\ Follows(call[t], th[t])
           /\ IsLink(Taken(t)) /\ LinkTyped(Taken(t)) /\ Taken(t).transfer = None
           /\ \A p \in Ports : Taken(t).chan[p].state \in {"connected", "received"} => p = th[t].port
           /\ call[t].op \in Reading \cup {"put"} /\ Reached(call[t], th[t])
           /\ th[t].port \in Ports /\ th[t].resume = None
           /\ th[t].cmd.name = "226" /\ call[t].op # "put" =>
                 th[t].data \in Fetches(call[t]) \cup {Torn}
<1>1. th[t].pc = "await" /\ th[t].cmd.name \in Ends /\ Link(t).buffer # <<>>
  BY DEF Awaits
<1>2. /\ IsPlace(th[t]) /\ Fits(call[t], th[t], Link(t)) /\ Busy(th[t]) /\ Follows(call[t], th[t])
      /\ IsLink(Taken(t)) /\ LinkTyped(Taken(t))
      /\ \A p \in Ports : Taken(t).chan[p].state \in {"connected", "received"} => p = th[t].port
  BY <1>1, CallOfThread
<1>3. Taken(t).transfer = None
  <2>1. th[t].cmd.name \notin Transfers
    BY <1>1 DEF Ends, Transfers
  <2> QED
    BY <1>1, <2>1, TakenForm DEF AtRest, NoWork
<1>4. /\ call[t].op \in Reading \cup {"put"} /\ Reached(call[t], th[t])
      /\ th[t].port \in Ports /\ th[t].resume = None /\ th[t].cmd = Command(th[t].cmd.name, None)
  BY <1>1, <1>2, AsksByName DEF Follows
<1> QED
  BY <1>1, <1>2, <1>3, <1>4 DEF Fits

LEMMA DescendFits ==
    ASSUME Own, AllInStep, AllFit, NEW t \in Threads, Awaits(t, Ends), th[t].cmd.name = "226",
           call[t].op \notin {"put", "get"}, Descend(t)
    PROVE  AllFit'
<1> DEFINE q == call[t]
           l == Taken(t)
           lines == IF th[t].data \in Values \cup {Torn, None} THEN {} ELSE th[t].data
           match == {e \in lines : e.path = Append(Path(t), Head(th[t].rest))}
           files_ == {e.path : e \in {e \in lines : ~ e.isDir}}
           u == [th[t] EXCEPT !.rest = Tail(@), !.port = None]
           r == Sends(u, "PASV", None)
           m == CloseData(l, th[t].port)
<1>1. /\ th[t].pc = "await" /\ Busy(th[t]) /\ IsPlace(th[t]) /\ Follows(q, th[t])
      /\ IsLink(l) /\ LinkTyped(l) /\ l.transfer = None
      /\ \A p \in Ports : l.chan[p].state \in {"connected", "received"} => p = th[t].port
      /\ q.op \in {"exists", "scan"} /\ th[t].port \in Ports /\ th[t].resume = None
      /\ th[t].data \in Fetches(q) \cup {Torn}
  BY TakesEnd DEF Reading
<1>2. \A e \in lines : IF e.isDir THEN e.path \in AllDirs ELSE e.path \in Keys
  <2>1. th[t].data \in Listings \cup {Torn}
    BY <1>1 DEF Fetches
  <2> QED
    BY <2>1 DEF Listings
<1>3. Path(t) = Where(q, th[t])
  BY DEF Path, Where, Target
<1>4. th[t].got = {} /\ q \in Calls
  BY <1>1 DEF Follows
<1>5. \/ th[t].rest = <<>> /\ Yielded(t, th[t].got \cup files_, l)
      \/ th[t].rest # <<>> /\ (\E e \in match : e.isDir) /\ Continues(t, r, m)
      \/ th[t].rest # <<>> /\ ~ (\E e \in match : e.isDir)
         /\ Yielded(t, th[t].got \cup {e.path : e \in match}, l)
  BY DEF Descend
<1> HIDE DEF lines
<1>6. CASE Yielded(t, th[t].got \cup files_, l)
  <2>1. th[t].got \cup files_ \subseteq Keys
    BY <1>2, <1>4
  <2> QED
    BY <1>1, <1>6, <2>1, YieldedFits
<1>7. CASE /\ ~ (\E e \in match : e.isDir)
           /\ Yielded(t, th[t].got \cup {e.path : e \in match}, l)
  <2>1. th[t].got \cup {e.path : e \in match} \subseteq Keys
    BY <1>2, <1>4, <1>7
  <2> QED
    BY <1>1, <1>7, <2>1, YieldedFits
<1>8. CASE th[t].rest # <<>> /\ (\E e \in match : e.isDir) /\ Continues(t, r, m)
  <2>1. PICK e \in lines : e.path = Append(Where(q, th[t]), Head(th[t].rest)) /\ e.isDir
    BY <1>3, <1>8
  <2>2. e.path \in AllDirs
    BY <1>2, <2>1
  <2>3. /\ IsPlace(u) /\ u.rest = Tail(th[t].rest) /\ u.port = None /\ u.got = {}
        /\ u.resume = None
    BY <1>1, <1>4 DEF IsPlace
  <2> HIDE DEF u
  <2>4. /\ r.pc = "send" /\ r.cmd = Command("PASV", None) /\ r.rest = Tail(th[t].rest)
        /\ r.port = None /\ r.got = {} /\ r.resume = None
    BY <2>3, SendsFields
  <2> HIDE DEF r
  <2>5. Target(q) \in Seq(STRING) /\ Whole(q) = Target(q) /\ Suffix(th[t].rest, Target(q))
    BY <1>1, <1>4, WhereForms DEF Follows
  <2>6. Where(q, r) = Append(Where(q, th[t]), Head(th[t].rest))
    BY <1>1, <1>4, <1>8, <2>4, <2>5, WhereForms
  <2>7. Suffix(r.rest, Whole(q))
    BY <1>8, <2>4, <2>5, SuffixForms
  <2>8. Prepares(q, r, r.cmd)
    BY <1>1, <2>1, <2>2, <2>4, <2>6 DEF Prepares, Reached, Reading
  <2>9. Follows(q, r)
    BY <1>4, <2>4, <2>7, <2>8 DEF Follows, Asks
  <2>10. /\ LinkTyped(m) /\ m.transfer = None
         /\ \A p \in Ports : m.chan[p].state \notin {"connected", "received"}
    BY <1>1, CloseDataForm, CloseDataFits
  <2>11. r.cmd.name \notin Transfers \cup Ends
    <3>1. Command("PASV", None).name = "PASV"
      BY DEF Command
    <3> QED
      BY <2>4, <3>1 DEF Transfers, Ends
  <2> QED
    BY <1>8, <2>4, <2>9, <2>10, <2>11, GoesOnFits
<1> QED
  BY <1>5, <1>6, <1>7, <1>8

LEMMA DoneReplyFits ==
    ASSUME Own, AllInStep, AllFit, NEW t \in Threads, TakeDone(t) \/ TakeFailing(t)
    PROVE  AllFit'
<1>1. Awaits(t, Ends)
  BY DEF TakeDone, TakeFailing, Awaits, Ends
<1>2. /\ Busy(th[t]) /\ IsLink(Taken(t)) /\ LinkTyped(Taken(t))
      /\ \A p \in Ports : Taken(t).chan[p].state \in {"connected", "received"} => p = th[t].port
      /\ th[t].cmd.name = "226" /\ call[t].op # "put" =>
            th[t].data \in Fetches(call[t]) \cup {Torn}
  BY <1>1, TakesEnd
<1>3. CASE Fails(t, Taken(t))
  BY <1>2, <1>3, FailsFits
<1>4. CASE Finish(t, Store!Done, Taken(t))
  <2>1. Store!Done \in Results
    BY DEF Results, Store!Outcomes
  <2> QED
    BY <1>2, <1>4, <2>1, FinishFits
<1>5. CASE call[t].op = "get" /\ th[t].cmd.name = "226"
           /\ Finish(t, [value |-> th[t].data], Taken(t))
  <2>1. th[t].data \in Values \cup {Torn}
    BY <1>2, <1>5 DEF Fetches
  <2>2. [value |-> th[t].data] \in Results
    BY <2>1 DEF Results, Store!Outcomes
  <2> QED
    BY <1>2, <1>5, <2>2, FinishFits
<1>6. CASE th[t].cmd.name = "226" /\ call[t].op \notin {"put", "get"} /\ Descend(t)
  BY <1>1, <1>6, DescendFits
<1>7. TakeDone(t) => th[t].cmd.name = "226"
  BY DEF TakeDone, Awaits
<1> QED
  BY <1>3, <1>4, <1>5, <1>6, <1>7 DEF TakeDone, TakeFailing

\* A 421 that is read in place of the reply.
LEMMA FarewellFits ==
    ASSUME Own, AllInStep, AllTrail, AllFit, NEW t \in Threads, TakeFarewell(t)
    PROVE  AllFit'
<1> DEFINE q == call[t]
           name == th[t].cmd.name
           l == [Link(t) EXCEPT !.left = None]
           k == [l EXCEPT !.features = {}]
<1>1. /\ th[t].pc = "await" /\ IsLink(l)
      /\ l.flavour = Link(t).flavour /\ l.chan = Link(t).chan
      /\ \/ Finish(t, Store!Done, HangUp(l)) \/ Fails(t, HangUp(l))
         \/ Finish(t, Store!Done, l) \/ Fails(t, l)
         \/ name = "FEAT" /\ AtRest(l) /\ Continues(t, Probe(th[t], q, {}), k)
         \/ /\ name \in {"SIZE", "MLST"} /\ AtRest(l)
            /\ \E features : Continues(t, Probe(th[t], q, features), l)
  BY FarewellForm
<1>2. /\ IsPlace(th[t]) /\ LinkTyped(Link(t)) /\ Busy(th[t]) /\ Follows(q, th[t]) /\ q \in Calls
      /\ \A p \in Ports : p # th[t].port => Link(t).chan[p].state \notin {"connected", "received"}
  BY <1>1, CallOfThread
<1> HIDE DEF l
<1>3. /\ LinkTyped(l)
      /\ \A p \in Ports : l.chan[p].state \in {"connected", "received"} => p = th[t].port
  BY <1>1, <1>2 DEF LinkTyped
<1>4. /\ IsLink(HangUp(l)) /\ LinkTyped(HangUp(l))
      /\ \A p \in Ports : HangUp(l).chan[p].state = "free"
  BY <1>1, <1>3, HangUpForm, HangUpFits
<1>5. k.chan = l.chan /\ k.flavour = l.flavour /\ k.transfer = l.transfer
  BY <1>1 DEF IsLink
<1> HIDE DEF k
<1>6. LinkTyped(k)
  BY <1>3, <1>5 DEF LinkTyped
<1>7. CASE Finish(t, Store!Done, HangUp(l)) \/ Finish(t, Store!Done, l)
  <2>1. Store!Done \in Results
    BY DEF Results, Store!Outcomes
  <2> QED
    BY <1>1, <1>2, <1>3, <1>4, <1>7, <2>1, FinishFits
<1>8. CASE Fails(t, HangUp(l)) \/ Fails(t, l)
  BY <1>1, <1>2, <1>3, <1>4, <1>8, FailsFits
<1>9. ASSUME NEW m \in {k, l}, NEW features, name \in {"FEAT", "SIZE", "MLST"}, AtRest(l),
             Continues(t, Probe(th[t], q, features), m)
      PROVE  AllFit'
  <2> DEFINE r == Probe(th[t], q, features)
  <2>1. Plain(name)
    BY <1>9 DEF Plain, Transfers, Logins, Ends
  <2>2. Prepares(q, th[t], th[t].cmd) /\ th[t].resume = None /\ th[t].port = None
    BY <1>1, <1>2, <2>1, AsksByName DEF Follows
  <2>3. q.op \in {"exists", "scan"}
    BY <1>9, <2>2 DEF Prepares, Command
  <2>4. Follows(q, r)
    BY <1>2, <2>2, <2>3, Probes DEF Follows
  <2>5. r.pc = "send" /\ Plain(r.cmd.name)
    BY <1>2, ProbeForm
  <2>6. LinkTyped(m) /\ m.transfer = None /\ m.chan = l.chan
    BY <1>3, <1>5, <1>6, <1>9 DEF AtRest, NoWork
  <2>7. \A p \in Ports : m.chan[p].state \notin {"connected", "received"}
    BY <1>3, <2>2, <2>6, PortsAssumption
  <2> HIDE DEF r
  <2> QED
    BY <1>9, <2>4, <2>5, <2>6, <2>7, GoesOnFits DEF Plain, r
<1> QED
  BY <1>1, <1>7, <1>8, <1>9

LEMMA ClientStepFits ==
    ASSUME Own, AllInStep, AllTrail, AllFit, NEW t \in Threads, Client(t) \/ Unlucky(t)
    PROVE  AllFit'
<1>1. CASE RecvEnds(t) \/ SendFails(t)
  <2>1. Breaks(t) /\ Busy(th[t])
    BY <1>1 DEF RecvEnds, Reads, SendFails, Sending, Ready, Busy
  <2> QED
    BY <2>1, BreaksFits
<1> QED
  BY <1>1, OpenAndCloseFit, ConnectFits, SendFits, RecvFits, RecvRestFits, RecvJoinsFits, FarewellFits,
     LoginFits, QuitReplyFits, FeatReplyFits,
     MkdReplyFits, DeleReplyFits, ProbeReplyFits, PasvReplyFits, DialFits, DialFailsFits,
     TransferReplyFits, ReadDataFits, FillDataFits, DataFailsFits, DoneReplyFits
  DEF Client, Unlucky

LEMMA LateFits ==
    ASSUME Own, AllInStep, AllFit, timeouts' = 0, timeouts = 0, NEW t \in Threads,
           Late(t) \/ Cancel(t)
    PROVE  AllFit'
<1>1. ~ Cancel(t)
  BY DEF Cancel
<1>2. RecvTimesOut(t) => Breaks(t) /\ Busy(th[t])
  BY DEF RecvTimesOut, Reads, Busy
<1> QED
  BY <1>1, <1>2, BreaksFits, DataFailsFits DEF Late

-----------------------------------------------------------------------------
(* The theorems. *)

LEMMA InitFits ==
    ASSUME Init
    PROVE  AllFit
<1>1. \A f \in Flavours : LET d == Disconnected(f) IN
        d.flavour = f /\ \A p \in Ports : d.chan[p] = Free
  BY DEF Disconnected
<1>2. Free.state = "free" /\ "free" \in States
  BY DEF Free, Chan, States
<1>3. \A b \in Blobs : LinkTyped(link[b]) /\ \A p \in Ports : link[b].chan[p].state = "free"
  BY <1>1, <1>2 DEF Init, LinkTyped
<1>4. ASSUME NEW t \in Threads PROVE Fits(call[t], th[t], Link(t))
  <2>1. th[t] = Outside /\ call[t] = None /\ Outside.pc = "idle"
    BY OutsideForm DEF Init
  <2>2. \A p \in Ports : Link(t).chan[p].state = "free"
    BY <1>3, UsesAssumption DEF Link
  <2> QED
    BY <2>1, <2>2 DEF Fits, Busy, Carries
<1>5. FilesTyped /\ HistoryTyped
  BY DEF Init, FilesTyped, HistoryTyped
<1> QED
  BY <1>3, <1>4, <1>5 DEF AllFit

LEMMA NextFits ==
    ASSUME Own, NoneIsNoRecord, IInv, CInv, [Next]_vars
    PROVE  CInv'
<1>1. CASE UNCHANGED vars
  BY <1>1 DEF CInv, AllFit, FilesTyped, HistoryTyped, Link, vars, bounds, server, callers
<1>2. CASE Next
  <2>1. timeouts' = 0 => timeouts = 0
    BY <1>2, TimeoutsGrow DEF IInv
  <2>2. faults' \in 0 .. MaxFaults
    BY <1>2, FaultsGrow DEF CInv
  <2>3. ASSUME timeouts' = 0 PROVE AllFit'
    <3>1. timeouts = 0 /\ AllInStep /\ AllTrail /\ AllFit
      BY <2>1, <2>3 DEF IInv, CInv
    <3>2. ASSUME NEW t \in Threads, Invoke(t) \/ Return(t) PROVE AllFit'
      BY <3>1, <3>2, InvokeFits, ReturnFits
    <3>3. ASSUME NEW t \in Threads, Client(t) \/ Unlucky(t) PROVE AllFit'
      BY <3>1, <3>3, ClientStepFits
    <3>4. ASSUME NEW t \in Threads, Late(t) \/ Cancel(t) PROVE AllFit'
      BY <2>3, <3>1, <3>4, LateFits
    <3>5. ASSUME NEW b \in Blobs, Server(b) \/ Faulty(b) PROVE AllFit'
      BY <3>1, <3>5, ServerStepFits
    <3> QED
      BY <1>2, <3>2, <3>3, <3>4, <3>5 DEF Next
  <2> QED
    BY <2>2, <2>3 DEF CInv
<1> QED
  BY <1>1, <1>2

(***************************************************************************)
(* Where every thread has an instance of its own, each step of thread and  *)
(* server is a step of the call the thread is in: the arguments of the     *)
(* commands, the port, the directory of a listing and the data are those   *)
(* of the call, until a reply is late or a task is cancelled.              *)
(***************************************************************************)
THEOREM CallInvariance ==
    ASSUME Own, NoneIsNoRecord
    PROVE  Spec => []CInv
<1>1. Init => CInv
  BY InitFits, BoundsAssumption DEF Init, CInv
<1>2. IInv /\ CInv /\ [Next]_vars => CInv'
  BY NextFits
<1> QED
  BY <1>1, <1>2, Invariance, PTL DEF Spec

\* The commands of a call, with arguments of its own.
LEMMA CommandsTyped ==
    ASSUME NEW q \in Calls, NEW r, Suffix(r.rest, Whole(q)), NEW c,
           Prepares(q, r, c) \/ Moves(q, r, c)
    PROVE  c \in Commands
<1> DEFINE Args == Keys \cup AllDirs \cup Prefixes \cup {<<>>, None}
<1>1. ASSUME NEW name \in Names, NEW arg \in Args PROVE Command(name, arg) \in Commands
  BY DEF Commands, Command
<1>2. q.op \in {"put", "get", "delete", "exists"} => q.key \in Keys
  BY DEF Calls, Store!Requests, Lifecycle
<1>3. q.op = "put" /\ r.rest # <<>> => Head(r.rest) \in AllDirs
  <2> SUFFICES ASSUME q.op = "put", r.rest # <<>> PROVE Head(r.rest) \in AllDirs
    OBVIOUS
  <2>1. q.key \in Keys /\ Whole(q) = Parents(q.key)
    BY <1>2 DEF Whole
  <2> DEFINE w == Parents(q.key)
  <2>2. w \in Seq(AllDirs) /\ Len(w) \in Nat
    BY <2>1, ParentsForm, LenProperties
  <2> HIDE DEF w
  <2>3. Suffix(r.rest, w)
    BY <2>1 DEF w
  <2>4. Len(r.rest) \in 1 .. Len(w) /\ Head(r.rest) = w[Len(w) - Len(r.rest) + 1]
    BY <2>2, <2>3, SuffixForms
  <2>5. Len(w) - Len(r.rest) + 1 \in 1 .. Len(w)
    BY <2>2, <2>4
  <2> QED
    BY <2>2, <2>4, <2>5, ElementOfSeq
<1>4. {"open", "close", "QUIT", "FEAT", "PASV", "MKD", "DELE", "SIZE", "MLST", "STOR", "RETR", "LIST"}
          \subseteq Names
  BY DEF Names
<1>5. q.op \in {"exists", "scan"} /\ Reached(q, r) => Where(q, r) \in Args
  BY DEF Reached
<1> HIDE DEF Args
<1>6. None \in Args /\ AllDirs \subseteq Args /\ Keys \subseteq Args
  BY DEF Args
<1>7. CASE Prepares(q, r, c)
  BY <1>1, <1>2, <1>3, <1>4, <1>6, <1>7 DEF Prepares
<1>8. CASE Moves(q, r, c)
  BY <1>1, <1>2, <1>4, <1>5, <1>6, <1>8 DEF Moves
<1> QED
  BY <1>7, <1>8

LEMMA PlaceTyped ==
    ASSUME NEW q, NEW r, Follows(q, r)
    PROVE  /\ r.cmd \in Commands /\ r.resume \in Commands \cup {None}
           /\ r.port \in Ports \cup {None} /\ r.got = {}
<1>1. q \in Calls /\ Suffix(r.rest, Whole(q)) /\ Asks(q, r) /\ r.got = {}
  BY DEF Follows
<1>2. \A c : Prepares(q, r, c) \/ Moves(q, r, c) => c \in Commands
  BY <1>1, CommandsTyped
<1>3. \A name \in Logins \cup Ends : Command(name, None) \in Commands
  <2>1. Logins \cup Ends \subseteq Names
    BY DEF Logins, Ends, Names
  <2> QED
    BY <2>1 DEF Commands, Command
<1>4. CASE r.pc \in {"send", "await"} /\ r.resume = None /\ r.port = None /\ Prepares(q, r, r.cmd)
  BY <1>1, <1>2, <1>4
<1>5. CASE /\ r.pc \in {"send", "await"} /\ r.port = None /\ Prepares(q, r, r.resume)
           /\ r.cmd \in {Command(name, None) : name \in Logins}
  BY <1>1, <1>2, <1>3, <1>5
<1>6. CASE /\ r.resume = None /\ r.port \in Ports
           /\ \/ Prepares(q, r, r.cmd) \/ Moves(q, r, r.cmd)
              \/ r.cmd \in {Command(name, None) : name \in Ends}
  BY <1>1, <1>2, <1>3, <1>6
<1> QED
  BY <1>1, <1>4, <1>5, <1>6 DEF Asks

LEMMA InboxTyped ==
    ASSUME NEW q, NEW r, NEW l, InStep(r, l), Fits(q, r, l)
    PROVE  l.inbox \in Seq(Commands)
<1>1. l.inbox = <<>> \/ (l.inbox = <<r.cmd>> /\ r.pc = "await")
  BY DEF InStep, Between, ToSend, ToDial, Asking, Lost, AskingTransfer, Moving, Ending, AtRest, Gone, NoWork,
         Asked, Running, Finishing
<1>2. r.pc = "await" => r.cmd \in Commands
  BY PlaceTyped DEF Fits, Busy
<1>3. \A c \in Commands : <<c>> \in Seq(Commands)
  OBVIOUS
<1>4. <<>> \in Seq(Commands)
  OBVIOUS
<1> QED
  BY <1>1, <1>2, <1>3, <1>4

(***************************************************************************)
(* The state has its types: files hold values or torn ones, directories    *)
(* are those of keys, the server is asked commands of the protocol with    *)
(* paths for arguments, and calls return outcomes of their operations, or  *)
(* torn data; as long as no reply is late and no task cancelled.           *)
(***************************************************************************)
THEOREM TypeCorrect ==
    ASSUME Own, NoneIsNoRecord
    PROVE  Spec => [](timeouts = 0 => TypeOK)
<1>1. ASSUME IInv, CInv, timeouts = 0 PROVE TypeOK
  <2>1. AllInStep /\ AllFit /\ faults \in 0 .. MaxFaults /\ timeouts \in 0 .. MaxTimeouts
    BY <1>1 DEF IInv, CInv
  <2>2. /\ files \in [Keys -> Values \cup {Torn, None}] /\ dirs \subseteq AllDirs
        /\ ret \in [Threads -> Store!Outcomes \cup {[value |-> Torn], Cancelled, None}]
        /\ known \in [Keys -> Values \cup {Unknown, None}]
        /\ call = [t \in Threads |-> call[t]]
    BY <2>1 DEF AllFit, FilesTyped, HistoryTyped
  <2>3. ASSUME NEW b \in Blobs
        PROVE  /\ link[b].flavour \in Flavours
               /\ link[b].sock \in {"none", "open", "dropped"}
               /\ link[b].inbox \in Seq(Commands)
               /\ link[b].listen \in Ports \cup {None}
               /\ \A p \in Ports : link[b].chan[p].state \in States
    <3>1. LinkTyped(link[b]) /\ IsLink(link[b])
      BY <2>1 DEF AllFit, AllInStep
    <3>2. CASE \A t \in Threads : Uses[t] # b
      <4>1. link[b].inbox = <<>>
        BY <2>1, <3>2 DEF AllInStep, Unused, AtRest, NoWork
      <4>2. <<>> \in Seq(Commands)
        OBVIOUS
      <4> QED
        BY <3>1, <4>1, <4>2 DEF LinkTyped, IsLink
    <3>3. CASE \E t \in Threads : Uses[t] = b
      <4>1. PICK t \in Threads : Uses[t] = b
        BY <3>3
      <4>2. InStep(th[t], link[b]) /\ Fits(call[t], th[t], link[b])
        BY <2>1, <4>1, CallOfThread DEF Link
      <4>3. link[b].inbox \in Seq(Commands)
        BY <4>2, InboxTyped
      <4> QED
        BY <3>1, <4>3 DEF LinkTyped, IsLink
    <3> QED
      BY <3>2, <3>3
  <2>4. ASSUME NEW t \in Threads
        PROVE  /\ th[t].pc \in {"idle", "send", "await", "dial", "data", "fill", "done"}
               /\ th[t].cmd \in Commands \cup {None}
               /\ th[t].resume \in Commands \cup {None}
               /\ th[t].port \in Ports \cup {None}
               /\ th[t].got \subseteq Keys
               /\ call[t] \in Store!Requests \cup [op : Lifecycle] \cup {None}
    <3>1. Fits(call[t], th[t], Link(t))
      BY <2>1, CallOfThread
    <3>2. CASE ~ Busy(th[t])
      BY <3>1, <3>2, OutsideFields DEF Fits, Busy, Calls
    <3>3. CASE Busy(th[t])
      <4>1. Follows(call[t], th[t])
        BY <3>1, <3>3 DEF Fits
      <4>2. call[t] \in Calls
        BY <4>1 DEF Follows
      <4>3. th[t].pc \in {"idle", "send", "await", "dial", "data", "fill", "done"}
        BY <3>1 DEF Fits
      <4> QED
        BY <4>1, <4>2, <4>3, PlaceTyped DEF Calls
    <3> QED
      BY <3>2, <3>3
  <2>5. call \in [Threads -> Store!Requests \cup [op : Lifecycle] \cup {None}]
    BY <2>2, <2>4
  <2> QED
    BY <2>1, <2>2, <2>3, <2>4, <2>5 DEF TypeOK
<1> QED
  BY <1>1, Invariance, CallInvariance, PTL

=============================================================================
