-------------------------- MODULE FTPBlobTruthProofs --------------------------
(***************************************************************************)
(* FTPBlob, continued: what the server says to a call, and what a data     *)
(* connection carries to it, is true of the keys the call is about, for    *)
(* every number of clients with an instance each and every number of       *)
(* refusals, aborts and drops, as long as no other call changes one of     *)
(* those keys meanwhile, no reply is late and no task is cancelled.  It is *)
(* what the calls before it tell that is true: a key of which they tell    *)
(* nothing is left out.  So get(), exists(), delete() and scan() answer    *)
(* truthfully.  And where nothing is refused, aborted or dropped either,   *)
(* no call fails.                                                          *)
(***************************************************************************)
EXTENDS FTPBlobCallProofs

\* What is sent to be stored leaves whole (not so with a large value and the
\* asynchronous variant).
AllLeaves == Large = {} \/ "aio" \notin Flavours

\* 550, by which the client knows what is missing, means nothing else.
Unambiguous == 550 \notin Refusals

-----------------------------------------------------------------------------
(* The inductive invariant: what is said to the thread of a call, and what *)
(* is carried to it, is true.  q is the request, r the thread's record, l  *)
(* its link, w what was known when the call began, a whether it is alone   *)
(* on its keys, f the files.                                               *)

Sure(w, a, k) == a /\ w[k] # Unknown
Present(w, a, k) == Sure(w, a, k) => w[k] # None
Absent(w, a, k) == Sure(w, a, k) => w[k] = None

\* A file of which not all may have been stored is a file all the same.
Agrees(x, y) == x = y \/ (~ AllLeaves /\ x # None /\ y # None)

\* The server has dealt with DELE.
Deleting(q, r, l) == q.op = "delete" /\ r.pc = "await" /\ r.cmd.name = "DELE" /\ l.inbox = <<>>

Unchanged(q, w, a, f) ==
    q.op \in Reading \cup {"delete"} =>
        \A k \in KeysOf(q) : Sure(w, a, k) => Agrees(f[k], w[k])

Deleted(q, l, w, a, f) ==
    \A p : OneReply(l, p) =>
        /\ a /\ p.code \in {250, 550} => f[q.key] = None
        /\ p.code = 550 => Absent(w, a, q.key)
        /\ p.code = 250 => Present(w, a, q.key)

\* What a listing of the directory the call is at tells of its keys.
Tells(q, r, w, a, d) ==
    /\ d \in Listings
    /\ \A k \in KeysOf(q) : Sure(w, a, k) =>
        /\ \A e \in d : e.path = k => (e.isDir <=> w[k] = None)
        /\ w[k] # None /\ Parent(k) = Where(q, r) => [path |-> k, isDir |-> FALSE] \in d
        /\ w[k] # None => \A i \in 1 .. Len(k) - 1 :
              Parent(Prefix(k, i)) = Where(q, r) => [path |-> Prefix(k, i), isDir |-> TRUE] \in d

\* What the data carried to a call tells of its keys.
Brings(q, r, w, a, d) ==
    /\ q.op = "get" => Present(w, a, q.key) /\ (Sure(w, a, q.key) => Agrees(d, w[q.key]))
    /\ q.op \in {"exists", "scan"} => Tells(q, r, w, a, d)

\* Where there is nothing to list.
Nothing(q, w, a) ==
    \A k \in KeysOf(q) : (q.op = "scan" => Parent(k) = q.prefix) => Absent(w, a, k)

Said(q, r, l, w, a) ==
    \A p : OneReply(l, p) =>
        /\ r.cmd.name = "SIZE" /\ p.code = 213 => Present(w, a, q.key)
        /\ r.cmd.name = "MLST" /\ p.code = 250 =>
              IF p.info = [file |-> TRUE] THEN Present(w, a, q.key) ELSE Absent(w, a, q.key)
        /\ r.cmd.name \in {"SIZE", "MLST", "RETR"} /\ p.code = 550 => Absent(w, a, q.key)
        /\ r.cmd.name = "LIST" /\ p.code = 550 => Nothing(q, w, a)

\* s is the reply that ends the transfer, though the client is not there yet.
Closing(r, l, s) ==
    \/ r.pc = "await" /\ \E p : TwoReplies(l, p, s)
    \/ r.pc \in {"data", "fill"} /\ OneReply(l, s)

\* A transfer carries what it should.
Carried(q, r, l, w, a, f) ==
    l.transfer # None =>
        IF q.op = "put" THEN a => f[q.key] # None ELSE Brings(q, r, w, a, l.transfer.data)

\* It ends well only when it is complete, and put() has let go of it.
Completes(q, r, l, w, a) ==
    r.cmd.name \in Transfers => \A s : Closing(r, l, s) /\ s.code = 226 =>
        /\ q.op # "put" /\ l.chan[r.port].state = "received"
        /\ Brings(q, r, w, a, l.chan[r.port].data)

Completed(q, r, l, w, a, f) ==
    r.cmd.name = "226" =>
        /\ l.transfer # None =>
              /\ q.op = "put" /\ l.chan[r.port].state = "sent"
              /\ Agrees(l.chan[r.port].data, q.data)
        /\ \A s : OneReply(l, s) /\ s.code = 226 =>
              IF q.op = "put" THEN a => Agrees(f[q.key], q.data) ELSE Brings(q, r, w, a, r.data)

\* A call that lists has come down to its key only where that is a directory.
Lists(r) ==
    \/ r.pc \in {"dial", "data"}
    \/ r.cmd.name \in {"PASV", "LIST"} \cup Ends
    \/ r.cmd.name \in Logins /\ r.resume.name = "PASV"

Bottom(q, r, w, a) ==
    q.op = "exists" /\ r.rest = <<>> /\ Lists(r) => Absent(w, a, q.key)

Truthful(q, r, l, w, a, f) ==
    Busy(r) =>
        /\ IF Deleting(q, r, l) THEN Deleted(q, l, w, a, f) ELSE Unchanged(q, w, a, f)
        /\ r.pc = "await" => Said(q, r, l, w, a)
        /\ Carried(q, r, l, w, a, f) /\ Completes(q, r, l, w, a) /\ Completed(q, r, l, w, a, f)
        /\ Bottom(q, r, w, a)

Apart == \A t, u \in Threads : t # u /\ alone[t] => ~ Clash(call[t], call[u])

KnownTrue ==
    \A k \in Keys : known[k] # Unknown =>
        /\ Agrees(files[k], known[k])
        /\ \A t \in Threads : Busy(th[t]) /\ call[t].op \in Mutators => call[t].key # k

\* The directories a file or a directory is in are there.
Tree ==
    /\ \A d \in dirs : \A i \in 1 .. Len(d) - 1 : Prefix(d, i) \in dirs
    /\ \A k \in Keys : files[k] # None =>
          k \notin dirs /\ \A i \in 1 .. Len(k) - 1 : Prefix(k, i) \in dirs

\* What o, the outcome of q, says of the keys of the call.
Answer(q, o, w, a) ==
    /\ q.op \in {"get", "delete", "exists"} /\ Sure(w, a, q.key) =>
          /\ q.op = "get" =>
                IF w[q.key] = None THEN o = Store!KeyError ELSE AllLeaves => o = [value |-> w[q.key]]
          /\ q.op = "delete" => o = IF w[q.key] = None THEN Store!KeyError ELSE Store!Done
          /\ q.op = "exists" => o = [found |-> w[q.key] # None]
    /\ q.op = "scan" /\ a =>
          /\ \A k \in Keys : /\ w[k] # None /\ w[k] # Unknown /\ Parent(k) = q.prefix => k \in o.keys
          /\ \A k \in o.keys : w[k] # None

OutcomesTrue ==
    \A t \in Threads :
        th[t].pc = "done" /\ ret[t] \notin {Store!BlobError, Cancelled} =>
            Answer(call[t], ret[t], was[t], alone[t])

AllTrue ==
    /\ Tree /\ Apart /\ KnownTrue /\ OutcomesTrue
    /\ \A t \in Threads : Truthful(call[t], th[t], Link(t), was[t], alone[t], files)

TInv == timeouts = 0 /\ (Unambiguous \/ faults = 0) => AllTrue

-----------------------------------------------------------------------------
(* Paths, requests, and values that agree. *)

LEMMA PrefixForms ==
    ASSUME NEW S, NEW s \in Seq(S), NEW j \in 0 .. Len(s)
    PROVE  /\ Prefix(s, j) \in Seq(S) /\ Len(Prefix(s, j)) = j
           /\ \A i \in 1 .. j : Prefix(s, j)[i] = s[i]
<1>0. Len(s) \in Nat
  BY LenProperties
<1>1. CASE j = 0
  <2>1. Prefix(s, j) = <<>>
    BY <1>1, SubSeqEmpty DEF Prefix
  <2>2. Prefix(s, j) \in Seq(S) /\ Len(Prefix(s, j)) = 0
    BY ONLY <2>1, EmptySeq
  <2>3. 1 .. j = {}
    BY ONLY <1>1
  <2> QED
    BY <1>1, <2>2, <2>3
<1>2. CASE j # 0
  <2>1. 1 \in 1 .. Len(s) + 1 /\ j \in 1 - 1 .. Len(s)
    BY <1>0
  <2>2. /\ Prefix(s, j) \in Seq(S) /\ Len(Prefix(s, j)) = IF 1 <= j THEN j - 1 + 1 ELSE 0
        /\ \A i \in 1 .. j - 1 + 1 : Prefix(s, j)[i] = s[1 + i - 1]
    BY <1>0, <2>1, SubSeqProperties DEF Prefix
  <2> QED
    BY <1>0, <1>2, <2>2
<1> QED
  BY <1>1, <1>2

LEMMA PrefixOfPrefix ==
    ASSUME NEW S, NEW s \in Seq(S), NEW j \in 0 .. Len(s), NEW i \in 0 .. j
    PROVE  Prefix(Prefix(s, j), i) = Prefix(s, i)
<1> DEFINE a == Prefix(s, j)
           b == Prefix(s, i)
<1>0. Len(s) \in Nat /\ i \in 0 .. Len(s)
  BY LenProperties
<1>1. a \in Seq(S) /\ Len(a) = j /\ \A n \in 1 .. j : a[n] = s[n]
  BY PrefixForms
<1>2. b \in Seq(S) /\ Len(b) = i /\ \A n \in 1 .. i : b[n] = s[n]
  BY <1>0, PrefixForms
<1> HIDE DEF a, b
<1> DEFINE c == Prefix(a, i)
<1>3. c \in Seq(S) /\ Len(c) = i /\ \A n \in 1 .. i : c[n] = a[n]
  BY <1>1, PrefixForms
<1> HIDE DEF c
<1>4. \A n \in 1 .. i : c[n] = b[n]
  BY <1>0, <1>1, <1>2, <1>3
<1>5. c = b
  BY <1>2, <1>3, <1>4, SeqEqual
<1> QED
  BY <1>5 DEF a, b, c

LEMMA ParentOfPrefix ==
    ASSUME NEW S, NEW s \in Seq(S), NEW j \in 1 .. Len(s)
    PROVE  Parent(Prefix(s, j)) = Prefix(s, j - 1)
<1>1. Len(s) \in Nat /\ j \in 0 .. Len(s) /\ j - 1 \in 0 .. j
  BY LenProperties
<1>2. Len(Prefix(s, j)) = j
  BY <1>1, PrefixForms
<1> QED
  BY <1>1, <1>2, PrefixOfPrefix DEF Parent

LEMMA AgreesForms ==
    /\ \A x : Agrees(x, x)
    /\ \A x, y : Agrees(x, y) => (x = None <=> y = None)
    /\ \A x, y : AllLeaves /\ Agrees(x, y) => x = y
BY DEF Agrees

\* The requests of a call and the keys it is about.
LEMMA RequestForms ==
    ASSUME NEW q \in Calls
    PROVE  /\ q # None
           /\ q.op \in Reading \cup {"put", "delete"} \cup Lifecycle
           /\ q.op \in {"put", "get", "delete", "exists"} => q.key \in Keys /\ KeysOf(q) = {q.key}
           /\ q.op = "scan" => KeysOf(q) = Keys /\ q.prefix \in Prefixes
           /\ q.op = "put" => q.data \in Values
<1>1. q # None
  BY NoneAssumption DEF Calls
<1> QED
  BY <1>1 DEF Calls, Store!Requests, Lifecycle, Reading, KeysOf

\* What is true of a call stays so when its keys keep what they hold, or when
\* it is no longer alone on them.
LEMMA StaysTrue ==
    ASSUME NEW q, NEW r, NEW l, NEW w, NEW a \in BOOLEAN, NEW c \in BOOLEAN, NEW f, NEW g,
           Busy(r) => q \in Calls, Truthful(q, r, l, w, a, f),
           c => a /\ \A k \in KeysOf(q) : g[k] = f[k]
    PROVE  Truthful(q, r, l, w, c, g)
<1> SUFFICES ASSUME Busy(r)
             PROVE  /\ IF Deleting(q, r, l) THEN Deleted(q, l, w, c, g) ELSE Unchanged(q, w, c, g)
                    /\ r.pc = "await" => Said(q, r, l, w, c)
                    /\ Carried(q, r, l, w, c, g) /\ Completes(q, r, l, w, c)
                    /\ Completed(q, r, l, w, c, g) /\ Bottom(q, r, w, c)
  BY DEF Truthful
<1>1. q \in Calls
  OBVIOUS
<1>2. \A k : /\ Sure(w, c, k) => Sure(w, a, k)
             /\ Present(w, a, k) => Present(w, c, k)
             /\ Absent(w, a, k) => Absent(w, c, k)
  BY DEF Sure, Present, Absent
<1>3. \A d : Brings(q, r, w, a, d) => Brings(q, r, w, c, d)
  BY <1>2 DEF Brings, Tells
<1>4. Deleting(q, r, l) => Deleted(q, l, w, c, g)
  <2>1. q.op = "delete" => q.key \in KeysOf(q)
    BY <1>1, RequestForms
  <2> QED
    BY <1>2, <2>1 DEF Truthful, Deleted, Deleting
<1>5. ~ Deleting(q, r, l) => Unchanged(q, w, c, g)
  BY <1>2 DEF Truthful, Unchanged, Sure
<1>6. r.pc = "await" => Said(q, r, l, w, c)
  BY <1>2 DEF Truthful, Said, Nothing
<1>7. q.op = "put" => q.key \in KeysOf(q)
  BY <1>1, RequestForms
<1>8. Carried(q, r, l, w, c, g)
  BY <1>3, <1>7 DEF Truthful, Carried
<1>9. Completes(q, r, l, w, c)
  BY <1>3 DEF Truthful, Completes
<1>10. Completed(q, r, l, w, c, g)
  BY <1>3, <1>7 DEF Truthful, Completed
<1>11. Bottom(q, r, w, c)
  BY <1>2 DEF Truthful, Bottom
<1> QED
  BY <1>4, <1>5, <1>6, <1>8, <1>9, <1>10, <1>11

-----------------------------------------------------------------------------
(* One thread moves, or the server of its instance. *)

LEMMA OneTrue ==
    ASSUME Own, AllFit, AllTrue, NEW t \in Threads,
           alone' \in [Threads -> BOOLEAN],
           \A u \in Threads \ {t} : /\ th'[u] = th[u] /\ call'[u] = call[u]
                                    /\ was'[u] = was[u] /\ ret'[u] = ret[u]
                                    /\ alone'[u] => /\ alone[u]
                                                    /\ \A k \in KeysOf(call[u]) : files'[k] = files[k],
           \A b \in Blobs \ {Uses[t]} : link'[b] = link[b],
           Tree', Apart', KnownTrue',
           Truthful(call'[t], th'[t], link'[Uses[t]], was'[t], alone'[t], files'),
           th'[t].pc = "done" /\ ret'[t] \notin {Store!BlobError, Cancelled} =>
               Answer(call'[t], ret'[t], was'[t], alone'[t])
    PROVE  AllTrue'
<1>1. Uses[t] \in Blobs /\ \A u \in Threads : Uses[u] \in Blobs
  BY UsesAssumption
<1>2. \A u \in Threads \ {t} : Uses[u] # Uses[t]
  BY DEF Own
<1>3. \A u \in Threads : alone[u] \in BOOLEAN /\ alone'[u] \in BOOLEAN
  BY DEF AllFit, HistoryTyped
<1>4. ASSUME NEW u \in Threads \ {t}
      PROVE  Truthful(call'[u], th'[u], link'[Uses[u]], was'[u], alone'[u], files')
  <2>1. Truthful(call[u], th[u], link[Uses[u]], was[u], alone[u], files)
    BY DEF AllTrue, Link
  <2>2. Busy(th[u]) => call[u] \in Calls
    BY DEF AllFit, Fits, Follows
  <2>3. link'[Uses[u]] = link[Uses[u]]
    BY <1>1, <1>2
  <2>4. Truthful(call[u], th[u], link[Uses[u]], was[u], alone'[u], files')
    BY <1>3, <2>1, <2>2, StaysTrue
  <2> QED
    BY <2>3, <2>4
<1>5. ASSUME NEW u \in Threads \ {t}, th'[u].pc = "done", ret'[u] \notin {Store!BlobError, Cancelled}
      PROVE  Answer(call'[u], ret'[u], was'[u], alone'[u])
  <2>1. Answer(call[u], ret[u], was[u], alone[u])
    BY <1>5 DEF AllTrue, OutcomesTrue
  <2>2. Answer(call[u], ret[u], was[u], alone'[u])
    BY <1>3, <2>1 DEF Answer, Sure
  <2> QED
    BY <2>2
<1>6. OutcomesTrue'
  BY <1>5 DEF OutcomesTrue
<1> QED
  BY <1>4, <1>6 DEF AllTrue, Link

LEMMA CallTyped ==
    ASSUME AllFit, NEW t \in Threads
    PROVE  /\ call[t] \in Calls \cup {None} /\ (Busy(th[t]) => call[t] \in Calls)
           /\ KeysOf(call[t]) \subseteq Keys
           /\ alone[t] \in BOOLEAN
<1>1. call[t] \in Calls \cup {None} /\ (Busy(th[t]) => call[t] \in Calls) /\ alone[t] \in BOOLEAN
  BY DEF AllFit, Fits, Follows, Busy, HistoryTyped
<1>2. call[t] = None => KeysOf(call[t]) = {}
  BY DEF KeysOf
<1>3. call[t] \in Calls => KeysOf(call[t]) \subseteq Keys
  BY DEF KeysOf, Calls, Store!Requests, Lifecycle
<1> QED
  BY <1>1, <1>2, <1>3

\* Nobody who is alone on a key has it changed by another call.
LEMMA KeptApart ==
    ASSUME AllFit, AllTrue, NEW t \in Threads, NEW u \in Threads \ {t}, alone[u],
           Busy(th[t]), call[t].op \in Mutators
    PROVE  call[t].key \notin KeysOf(call[u]) /\ call[t].key \in Keys
<1>1. call[t] \in Calls
  BY CallTyped
<1>2. KeysOf(call[t]) = {call[t].key} /\ call[t].key \in Keys
  BY <1>1, RequestForms DEF Mutators
<1>3. ~ Clash(call[u], call[t])
  BY DEF AllTrue, Apart
<1> QED
  BY <1>2, <1>3 DEF Clash

\* Server steps: files change only where a call of the client says so.
LEMMA ServerTrue ==
    ASSUME Own, AllInStep, AllFit, AllTrue, NEW b \in Blobs,
           link[b].sock = "open" \/ link[b].transfer # None,
           NEW m, UNCHANGED <<th, callers>>, link' = [link EXCEPT ![b] = m], Tree',
           \A t \in Threads : Uses[t] = b =>
               \/ files' = files
               \/ /\ Busy(th[t]) /\ call[t].op \in Mutators
                  /\ \A k \in Keys \ {call[t].key} : files'[k] = files[k],
           \A t \in Threads : Uses[t] = b /\ Busy(th[t]) =>
               Truthful(call[t], th[t], m, was[t], alone[t], files')
    PROVE  AllTrue'
<1>1. PICK t \in Threads : Uses[t] = b
  BY DEF AllInStep, Unused, AtRest, NoWork
<1>2. link'[Uses[t]] = m /\ \A d \in Blobs \ {Uses[t]} : link'[d] = link[d]
  BY <1>1 DEF AllInStep
<1>3. UNCHANGED <<th, call, ret, known, was, alone>>
  BY DEF callers
<1>4. \/ files' = files
      \/ /\ Busy(th[t]) /\ call[t].op \in Mutators
         /\ \A k \in Keys \ {call[t].key} : files'[k] = files[k]
  BY <1>1
<1>5. ASSUME NEW u \in Threads \ {t}, alone[u]
      PROVE  \A k \in KeysOf(call[u]) : files'[k] = files[k]
  BY <1>4, <1>5, KeptApart, CallTyped
<1>6. Apart'
  BY <1>3 DEF AllTrue, Apart
<1>7. KnownTrue'
  BY <1>3, <1>4 DEF AllTrue, KnownTrue
<1>8. Truthful(call[t], th[t], m, was[t], alone[t], files')
  BY <1>1 DEF Truthful
<1>9. th[t].pc = "done" /\ ret[t] \notin {Store!BlobError, Cancelled} =>
          Answer(call[t], ret[t], was[t], alone[t])
  BY DEF AllTrue, OutcomesTrue
<1>10. alone \in [Threads -> BOOLEAN]
  BY DEF AllFit, HistoryTyped
<1> QED
  BY <1>2, <1>3, <1>5, <1>6, <1>7, <1>8, <1>9, <1>10, OneTrue

LEMMA ContinuesTrue ==
    ASSUME Own, AllInStep, AllFit, AllTrue, NEW t \in Threads, Busy(th[t]),
           NEW r, NEW m, Continues(t, r, m), r.pc # "done",
           Truthful(call[t], r, m, was[t], alone[t], files)
    PROVE  AllTrue'
<1>1. Uses[t] \in Blobs
  BY UsesAssumption
<1>2. /\ th'[t] = r /\ link'[Uses[t]] = m
      /\ \A u \in Threads \ {t} : th'[u] = th[u]
      /\ \A b \in Blobs \ {Uses[t]} : link'[b] = link[b]
      /\ UNCHANGED <<files, dirs, call, ret, known, was, alone>>
  BY <1>1 DEF AllInStep, Continues, server, callers
<1>3. Tree' /\ Apart'
  BY <1>2 DEF AllTrue, Tree, Apart
<1>4. KnownTrue'
  BY <1>2 DEF AllTrue, KnownTrue
<1>5. alone \in [Threads -> BOOLEAN]
  BY DEF AllFit, HistoryTyped
<1> QED
  BY <1>2, <1>3, <1>4, <1>5, OneTrue

\* What a call that ends well tells is so.
LEMMA FinishTrue ==
    ASSUME Own, AllInStep, AllFit, AllTrue, NEW t \in Threads, Busy(th[t]), NEW o, NEW l,
           Finish(t, o, l),
           o \notin {Store!BlobError, Cancelled} =>
               /\ Answer(call[t], o, was[t], alone[t])
               /\ alone[t] /\ call[t].op = "put" => Agrees(files[call[t].key], call[t].data)
               /\ alone[t] /\ call[t].op = "delete" => files[call[t].key] = None
    PROVE  AllTrue'
<1> DEFINE r == [Outside EXCEPT !.pc = "done"]
           m == CloseData(l, th[t].port)
           q == call[t]
<1>1. Uses[t] \in Blobs
  BY UsesAssumption
<1>2. /\ th'[t] = r /\ link'[Uses[t]] = m /\ ret'[t] = o
      /\ \A u \in Threads \ {t} : th'[u] = th[u] /\ ret'[u] = ret[u]
      /\ \A b \in Blobs \ {Uses[t]} : link'[b] = link[b]
      /\ UNCHANGED <<files, dirs, call, was, alone>>
  BY <1>1 DEF AllInStep, AllFit, HistoryTyped, Finish, server
<1>3. r.pc = "done" /\ ~ Busy(r)
  BY OutsideForm DEF Busy
<1> HIDE DEF r, m
<1>4. Tree' /\ Apart'
  BY <1>2 DEF AllTrue, Tree, Apart
<1>5. q \in Calls /\ (q.op \in Mutators => q.key \in Keys /\ KeysOf(q) = {q.key})
  BY CallTyped, RequestForms DEF Mutators
<1>6. \A k \in Keys : known'[k] =
          IF q.op \in Mutators /\ k = q.key THEN Learned(t, o) ELSE known[k]
  BY DEF Finish, AllFit, HistoryTyped
<1>7. ASSUME NEW k \in Keys, known'[k] # Unknown
      PROVE  /\ Agrees(files[k], known'[k])
             /\ \A u \in Threads : Busy(th'[u]) /\ call[u].op \in Mutators => call[u].key # k
  <2>1. CASE q.op \in Mutators /\ k = q.key
    <3>1. known'[k] = Learned(t, o) /\ alone[t] /\ o \notin {Store!BlobError, Cancelled}
      BY <1>6, <1>7, <2>1 DEF Learned
    <3>2. Learned(t, o) = IF q.op = "put" THEN q.data ELSE None
      BY <3>1 DEF Learned
    <3>3. q.op # "put" => files[k] = None
      BY <2>1, <3>1 DEF Mutators
    <3>4. Agrees(files[k], known'[k])
      BY <2>1, <3>1, <3>2, <3>3, AgreesForms
    <3>5. ASSUME NEW u \in Threads, Busy(th'[u]), call[u].op \in Mutators, call[u].key = k
          PROVE  FALSE
      <4>1. u # t /\ Busy(th[u])
        BY <1>2, <1>3, <3>5
      <4>2. ~ Clash(q, call[u])
        BY <3>1, <4>1 DEF AllTrue, Apart
      <4>3. KeysOf(call[u]) = {call[u].key}
        BY <3>5, <4>1, CallTyped, RequestForms DEF Mutators
      <4> QED
        BY <1>5, <2>1, <3>5, <4>2, <4>3 DEF Clash
    <3> QED
      BY <3>4, <3>5
  <2>2. CASE ~ (q.op \in Mutators /\ k = q.key)
    <3>1. known'[k] = known[k]
      BY <1>6, <2>2
    <3> QED
      BY <1>2, <1>3, <1>7, <3>1 DEF AllTrue, KnownTrue
  <2> QED
    BY <2>1, <2>2
<1>8. KnownTrue'
  BY <1>2, <1>7 DEF KnownTrue
<1>9. Truthful(q, r, m, was[t], alone[t], files)
  BY <1>3 DEF Truthful
<1>10. alone \in [Threads -> BOOLEAN]
  BY DEF AllFit, HistoryTyped
<1> QED
  BY <1>2, <1>4, <1>8, <1>9, <1>10, OneTrue

LEMMA FailsTrue ==
    ASSUME Own, AllInStep, AllFit, AllTrue, NEW t \in Threads, Busy(th[t]), NEW l, Fails(t, l)
    PROVE  AllTrue'
<1> DEFINE o == IF call[t].op = "close" THEN Store!Done ELSE Store!BlobError
<1>1. Finish(t, o, l)
  BY DEF Fails
<1>2. call[t].op = "close" => Answer(call[t], o, was[t], alone[t])
  BY DEF Answer
<1> QED
  BY <1>1, <1>2, FinishTrue

LEMMA BreaksTrue ==
    ASSUME Own, AllInStep, AllFit, AllTrue, NEW t \in Threads, Busy(th[t]), Breaks(t)
    PROVE  AllTrue'
BY FailsTrue DEF Breaks

\* A thread that is to send a command has nothing to be told or brought.
LEMMA SendsTruly ==
    ASSUME NEW q, NEW r, NEW l, NEW w, NEW a, NEW f, r.pc \in {"send", "dial"}, r.cmd.name \notin Ends,
           l.transfer = None, Unchanged(q, w, a, f), Bottom(q, r, w, a)
    PROVE  Truthful(q, r, l, w, a, f)
<1>1. ~ Deleting(q, r, l)
  BY DEF Deleting
<1>2. Carried(q, r, l, w, a, f) /\ Completes(q, r, l, w, a)
  BY DEF Carried, Completes, Closing
<1>3. Completed(q, r, l, w, a, f)
  BY DEF Completed, Ends
<1> QED
  BY <1>1, <1>2, <1>3 DEF Truthful

LEMMA GoesOnTrue ==
    ASSUME Own, AllInStep, AllFit, AllTrue, NEW t \in Threads, Busy(th[t]),
           ~ Deleting(call[t], th[t], Link(t)),
           NEW r, NEW m, Continues(t, r, m), r.pc \in {"send", "dial"}, r.cmd.name \notin Ends,
           m.transfer = None, Bottom(call[t], r, was[t], alone[t])
    PROVE  AllTrue'
<1>1. Unchanged(call[t], was[t], alone[t], files)
  BY DEF AllTrue, Truthful
<1>2. Truthful(call[t], r, m, was[t], alone[t], files)
  BY <1>1, SendsTruly
<1> QED
  BY <1>2, ContinuesTrue

-----------------------------------------------------------------------------
(* Calls. *)

\* A call does not begin at the bottom of its path.
LEMMA ProbesFromAbove ==
    ASSUME NEW q \in Calls, NEW r, IsPlace(r), r.resume = None, NEW features, NEW w, NEW a
    PROVE  Bottom(q, Probe(r, q, features), w, a)
<1> DEFINE u == [r EXCEPT !.rest = IF q.op = "scan" THEN q.prefix ELSE q.key]
           s == Probe(r, q, features)
<1> SUFFICES ASSUME q.op = "exists", s.rest = <<>>, Lists(s)
             PROVE  FALSE
  BY DEF Bottom
<1>1. q.key # <<>>
  BY RequestForms, PathsAssumption
<1>2. IsPlace(u) /\ u.rest = q.key /\ u.resume = None
  BY DEF IsPlace
<1> HIDE DEF u
<1>3. s \in {Sends(r, "SIZE", q.key), Sends(r, "MLST", q.key), Sends(u, "PASV", None)}
  BY DEF Probe, u
<1>4. s # Sends(u, "PASV", None)
  BY <1>1, <1>2, SendsFields
<1>5. PICK name \in {"SIZE", "MLST"} : s = Sends(r, name, q.key)
  BY <1>3, <1>4
<1>6. s.pc = "send" /\ s.cmd = Command(name, q.key) /\ s.resume = None
  BY <1>5, SendsFields
<1> HIDE DEF s
<1>7. s.cmd.name = name
  BY <1>6 DEF Command
<1> QED
  BY <1>6, <1>7 DEF Lists, Ends, Logins

LEMMA StartsFromAbove ==
    ASSUME NEW q \in Calls, NEW l, NEW w, NEW a
    PROVE  Bottom(q, Starts(q, l), w, a)
<1> SUFFICES ASSUME q.op = "exists" PROVE Bottom(q, Starts(q, l), w, a)
  BY DEF Bottom
<1>1. IsPlace(Outside) /\ Outside.resume = None
  BY OutsideForm, OutsideFields
<1>2. Bottom(q, Probe(Outside, q, l.features), w, a)
  BY <1>1, ProbesFromAbove
<1> DEFINE s == Sends(Outside, "FEAT", None)
<1>3. s.pc = "send" /\ s.cmd = Command("FEAT", None) /\ s.resume = None
  BY <1>1, SendsFields
<1>4. Starts(q, l) \in {s, Probe(Outside, q, l.features)}
  BY DEF Starts
<1> HIDE DEF s
<1>5. s.cmd.name = "FEAT"
  BY <1>3 DEF Command
<1>6. Bottom(q, s, w, a)
  BY <1>3, <1>5 DEF Bottom, Lists, Ends, Logins
<1> QED
  BY <1>2, <1>4, <1>6

LEMMA InvokeTrue ==
    ASSUME Own, AllInStep, AllFit, AllTrue, NEW t \in Threads, Invoke(t)
    PROVE  AllTrue'
<1>1. PICK q \in Calls :
        /\ call' = [call EXCEPT ![t] = q]
        /\ th' = [th EXCEPT ![t] = Starts(q, Link(t))]
        /\ was' = [was EXCEPT ![t] = known]
        /\ known' = IF q.op \in Mutators THEN [known EXCEPT ![q.key] = Unknown] ELSE known
        /\ alone' = [u \in Threads |->
              IF u = t THEN ~ \E w \in Threads \ {t} : Clash(q, call[w])
              ELSE alone[u] /\ ~ Clash(q, call[u])]
  BY DEF Invoke, Calls
<1> DEFINE r == Starts(q, Link(t))
<1>2. th[t].pc = "idle" /\ UNCHANGED <<files, dirs, link, ret>>
  BY DEF Invoke, server
<1>3. AtRest(Link(t)) /\ link'[Uses[t]] = Link(t)
  BY <1>2, PlaceOfThread DEF Link
<1>4. r.pc = "send" /\ Plain(r.cmd.name) /\ Bottom(q, r, known, alone'[t])
  BY StartsForm, StartsFromAbove
<1> HIDE DEF r
<1>5. /\ th'[t] = r /\ call'[t] = q /\ was'[t] = known
      /\ \A u \in Threads \ {t} : th'[u] = th[u] /\ call'[u] = call[u] /\ was'[u] = was[u]
  BY <1>1 DEF AllInStep, AllFit, HistoryTyped, r
<1>6. /\ alone' \in [Threads -> BOOLEAN]
      /\ \A u \in Threads \ {t} : alone'[u] => alone[u] /\ ~ Clash(q, call[u])
      /\ alone'[t] => \A u \in Threads \ {t} : ~ Clash(q, call[u])
  BY <1>1 DEF AllFit, HistoryTyped
<1>7. Tree'
  BY <1>2 DEF AllTrue, Tree
<1>8. Apart'
  <2>1. \A x, y : Clash(x, y) => Clash(y, x)
    BY DEF Clash
  <2> SUFFICES ASSUME NEW u \in Threads, NEW v \in Threads, u # v, alone'[u]
               PROVE  ~ Clash(call'[u], call'[v])
    BY DEF Apart
  <2>2. CASE u = t
    BY <1>5, <1>6, <2>2
  <2>3. CASE u # t /\ v = t
    BY <1>5, <1>6, <2>1, <2>3
  <2>4. CASE u # t /\ v # t
    BY <1>5, <1>6, <2>4 DEF AllTrue, Apart
  <2> QED
    BY <2>2, <2>3, <2>4
<1>9. KnownTrue'
  <2> SUFFICES ASSUME NEW k \in Keys, known'[k] # Unknown
               PROVE  /\ Agrees(files[k], known'[k])
                      /\ \A u \in Threads : Busy(th'[u]) /\ call'[u].op \in Mutators => call'[u].key # k
    BY <1>2 DEF KnownTrue
  <2>1. known'[k] = known[k] /\ ~ (q.op \in Mutators /\ q.key = k)
    BY <1>1 DEF AllFit, HistoryTyped
  <2> QED
    BY <1>5, <2>1 DEF AllTrue, KnownTrue
<1>10. Unchanged(q, known, alone'[t], files)
  <2>1. q.op \in Reading \cup {"delete"} => KeysOf(q) \subseteq Keys
    BY RequestForms DEF Reading
  <2> QED
    BY <2>1 DEF Unchanged, Sure, AllTrue, KnownTrue
<1>11. r.cmd.name \notin Ends
  BY <1>4 DEF Plain
<1>12. Truthful(q, r, Link(t), known, alone'[t], files)
  BY <1>3, <1>4, <1>10, <1>11, SendsTruly DEF AtRest, NoWork
<1> QED
  BY <1>2, <1>3, <1>4, <1>5, <1>6, <1>7, <1>8, <1>9, <1>12, OneTrue

LEMMA ReturnTrue ==
    ASSUME Own, AllInStep, AllFit, AllTrue, NEW t \in Threads, Return(t)
    PROVE  AllTrue'
<1>1. /\ th[t].pc = "done" /\ UNCHANGED <<files, dirs, link, known>>
      /\ th'[t] = Outside /\ call'[t] = None /\ was'[t] = None /\ ret'[t] = None /\ alone'[t] = TRUE
      /\ \A u \in Threads \ {t} : /\ th'[u] = th[u] /\ call'[u] = call[u] /\ was'[u] = was[u]
                                  /\ ret'[u] = ret[u] /\ alone'[u] = alone[u]
      /\ alone' \in [Threads -> BOOLEAN]
  BY DEF Return, AllInStep, AllFit, HistoryTyped, server
<1>2. Outside.pc = "idle" /\ ~ Busy(Outside)
  BY OutsideForm DEF Busy
<1>3. Tree'
  BY <1>1 DEF AllTrue, Tree
<1>4. Apart'
  <2>1. \A x : ~ Clash(x, None) /\ ~ Clash(None, x)
    BY DEF Clash, KeysOf
  <2> QED
    BY <1>1, <2>1 DEF AllTrue, Apart
<1>5. KnownTrue'
  BY <1>1, <1>2 DEF AllTrue, KnownTrue
<1>6. Truthful(None, Outside, link'[Uses[t]], None, TRUE, files)
  BY <1>2 DEF Truthful
<1> QED
  BY <1>1, <1>2, <1>3, <1>4, <1>5, <1>6, OneTrue

-----------------------------------------------------------------------------
(* What a command says of the call that asked it. *)

LEMMA PreparesByName ==
    ASSUME NEW q, NEW r, NEW c, Prepares(q, r, c)
    PROVE  /\ Plain(c.name)
           /\ c.name \in {"open", "close", "QUIT"} => q.op \in Lifecycle
           /\ c.name = "MKD" => q.op = "put" /\ r.rest # <<>> /\ c.arg = Head(r.rest)
           /\ c.name = "DELE" => q.op = "delete" /\ c.arg = q.key
           /\ c.name \in {"SIZE", "MLST"} => q.op = "exists" /\ c.arg = q.key
           /\ c.name = "PASV" => q.op \in Reading \cup {"put"} /\ Reached(q, r)
           /\ c.name # "DELE" => q.op # "delete"
<1>1. \A name, arg : Command(name, arg).name = name /\ Command(name, arg).arg = arg
  BY DEF Command
<1>2. \A name \in {"open", "close", "QUIT", "MKD", "DELE", "SIZE", "MLST", "FEAT", "PASV"} : Plain(name)
  BY DEF Plain, Transfers, Logins, Ends
<1> QED
  BY <1>1, <1>2 DEF Prepares, Reading, Lifecycle

LEMMA MovesByName ==
    ASSUME NEW q, NEW r, NEW c, Moves(q, r, c)
    PROVE  /\ c.name \in Transfers
           /\ c.name = "STOR" <=> q.op = "put"
           /\ c.name = "RETR" <=> q.op = "get"
           /\ c.name = "LIST" <=> q.op \in {"exists", "scan"}
           /\ c.name \in {"STOR", "RETR"} => c.arg = q.key
           /\ c.name = "LIST" => c.arg = Where(q, r) /\ Reached(q, r)
<1>1. \A name, arg : Command(name, arg).name = name /\ Command(name, arg).arg = arg
  BY DEF Command
<1> QED
  BY <1>1 DEF Moves, Transfers

\* A thread that awaits a reply of which none has come, or in a login.
LEMMA AwaitsTruly ==
    ASSUME NEW q, NEW r, NEW l, NEW w, NEW a, NEW f, r.pc = "await", l.transfer = None,
           r.cmd.name \in Logins \/ Silent(l), Unchanged(q, w, a, f), Bottom(q, r, w, a)
    PROVE  Truthful(q, r, l, w, a, f)
<1>1. Silent(l) => \A p : ~ OneReply(l, p) /\ \A s : ~ TwoReplies(l, p, s)
  BY RepliesApart
<1>2. r.cmd.name \in Logins => r.cmd.name \notin Transfers \cup Ends \cup {"SIZE", "MLST", "DELE"}
  BY DEF Logins, Transfers, Ends
<1>3. Deleting(q, r, l) => Deleted(q, l, w, a, f)
  BY <1>1, <1>2 DEF Deleting, Deleted
<1>4. Said(q, r, l, w, a)
  BY <1>1, <1>2 DEF Said, Transfers
<1>5. Carried(q, r, l, w, a, f) /\ Completes(q, r, l, w, a) /\ Completed(q, r, l, w, a, f)
  BY <1>1, <1>2 DEF Carried, Completes, Completed, Closing, Ends
<1> QED
  BY <1>3, <1>4, <1>5 DEF Truthful

\* What is true of a thread in a call.
LEMMA TruthOfThread ==
    ASSUME AllInStep, AllFit, AllTrue, NEW t \in Threads, th[t].pc \notin {"idle", "done"}
    PROVE  LET q == call[t]
               r == th[t]
               l == Link(t)
           IN
           /\ Busy(r) /\ IsPlace(r) /\ IsLink(l) /\ InStep(r, l) /\ Fits(q, r, l) /\ Follows(q, r)
           /\ q \in Calls /\ LinkTyped(l)
           /\ IF Deleting(q, r, l) THEN Deleted(q, l, was[t], alone[t], files)
                                   ELSE Unchanged(q, was[t], alone[t], files)
           /\ r.pc = "await" => Said(q, r, l, was[t], alone[t])
           /\ Carried(q, r, l, was[t], alone[t], files) /\ Completes(q, r, l, was[t], alone[t])
           /\ Completed(q, r, l, was[t], alone[t], files) /\ Bottom(q, r, was[t], alone[t])
<1>1. /\ Busy(th[t]) /\ IsPlace(th[t]) /\ IsLink(Link(t)) /\ InStep(th[t], Link(t))
      /\ Fits(call[t], th[t], Link(t)) /\ Follows(call[t], th[t]) /\ call[t] \in Calls
      /\ LinkTyped(Link(t))
  BY CallOfThread
<1>2. Truthful(call[t], th[t], Link(t), was[t], alone[t], files)
  BY DEF AllTrue
<1> QED
  BY <1>1, <1>2 DEF Truthful

\* Outside transfers, the reply at hand.
LEMMA HearsTruly ==
    ASSUME AllInStep, AllFit, AllTrue, NEW t \in Threads, NEW names, Awaits(t, names),
           names \cap Transfers = {}
    PROVE  /\ th[t].pc = "await" /\ th[t].cmd.name \in names
           /\ OneReply(Link(t), Head(Link(t).buffer))
           /\ NoWork(Link(t)) /\ Taken(t).transfer = None
<1>1. /\ th[t].pc = "await" /\ th[t].cmd.name \in names /\ th[t].cmd.name \notin Transfers
      /\ Link(t).buffer # <<>>
  BY DEF Awaits
<1>2. InStep(th[t], Link(t)) /\ Taken(t).transfer = Link(t).transfer
  BY CallOfThread
<1> QED
  BY <1>1, <1>2, OnlyReply, PlainReply DEF NoWork

-----------------------------------------------------------------------------
(* The steps of the client. *)

LEMMA OpenAndCloseTrue ==
    ASSUME Own, AllInStep, AllFit, AllTrue, NEW t \in Threads,
           CloseNothing(t) \/ OpenDone(t) \/ ConnectFails(t)
    PROVE  AllTrue'
<1>1. CASE ConnectFails(t)
  <2>1. Busy(th[t])
    BY <1>1 DEF ConnectFails, Connecting, Busy
  <2> QED
    BY <1>1, <2>1, FailsTrue DEF ConnectFails
<1>2. CASE CloseNothing(t) \/ OpenDone(t)
  <2>1. /\ Finish(t, Store!Done, Link(t)) /\ th[t].pc = "send" /\ th[t].cmd.name \in {"QUIT", "open"}
    BY <1>2 DEF CloseNothing, OpenDone, Ready
  <2>2. Busy(th[t]) /\ Asks(call[t], th[t])
    BY <2>1, TruthOfThread DEF Follows
  <2>3. Plain("QUIT") /\ Plain("open")
    BY DEF Plain, Transfers, Logins, Ends
  <2>4. call[t].op \in Lifecycle
    BY <2>1, <2>2, <2>3, AsksByName, PreparesByName
  <2> QED
    BY <2>1, <2>2, <2>4, FinishTrue DEF Answer, Lifecycle
<1> QED
  BY <1>1, <1>2

LEMMA ConnectTrue ==
    ASSUME Own, AllInStep, AllFit, AllTrue, NEW t \in Threads, Connect(t)
    PROVE  AllTrue'
<1> DEFINE q == call[t]
           u == [th[t] EXCEPT !.resume = Wanted(t)]
           r == Expects(u, "220")
           h == HangUp(Link(t))
           m == [h EXCEPT !.sock = "open", !.wire = <<Reply(220, None)>>]
<1>1. Continues(t, r, m) /\ th[t].pc = "send"
  BY DEF Connect, Connecting
<1>2. /\ IsPlace(th[t]) /\ Busy(th[t])
      /\ IF Deleting(q, th[t], Link(t)) THEN Deleted(q, Link(t), was[t], alone[t], files)
                                        ELSE Unchanged(q, was[t], alone[t], files)
      /\ Bottom(q, th[t], was[t], alone[t])
  BY <1>1, TruthOfThread
<1>3. IsPlace(u) /\ u.resume = Wanted(t) /\ u.rest = th[t].rest
  BY <1>2 DEF IsPlace
<1> HIDE DEF u
<1>4. r.pc = "await" /\ r.cmd = Command("220", None) /\ r.resume = Wanted(t) /\ r.rest = th[t].rest
  BY <1>3, ExpectsFields
<1>5. IsLink(h) /\ h.transfer = None
  BY HangUpForm DEF NoWork
<1> HIDE DEF h, r
<1>6. m.transfer = None
  BY <1>5 DEF IsLink
<1> HIDE DEF m
<1>7. r.cmd.name = "220" /\ "220" \in Logins
  <2>1. Command("220", None).name = "220"
    BY DEF Command
  <2> QED
    BY <1>4, <2>1 DEF Logins
<1>8. Lists(r) => Lists(th[t])
  <2>1. Wanted(t).name = "PASV" => th[t].cmd.name = "PASV"
    <3>1. Command("QUIT", None).name = "QUIT"
      BY DEF Command
    <3> QED
      BY <3>1 DEF Wanted
  <2> QED
    BY <1>4, <1>7, <2>1 DEF Lists, Ends
<1>9. Bottom(q, r, was[t], alone[t])
  BY <1>2, <1>4, <1>8 DEF Bottom
<1>10. Unchanged(q, was[t], alone[t], files)
  BY <1>1, <1>2 DEF Deleting
<1>11. Truthful(q, r, m, was[t], alone[t], files)
  BY <1>4, <1>6, <1>7, <1>9, <1>10, AwaitsTruly
<1> QED
  BY <1>1, <1>2, <1>4, <1>11, ContinuesTrue DEF q

LEMMA SendTrue ==
    ASSUME Own, AllInStep, AllFit, AllTrue, NEW t \in Threads, Send(t)
    PROVE  AllTrue'
<1> DEFINE q == call[t]
           l == Link(t)
           r == [th[t] EXCEPT !.pc = "await"]
           m == IF l.sock = "open" THEN [l EXCEPT !.inbox = Append(@, th[t].cmd)] ELSE l
<1>1. Continues(t, r, m) /\ th[t].pc = "send"
  BY DEF Send, Sending, Ready
<1>2. /\ IsPlace(th[t]) /\ Busy(th[t]) /\ IsLink(l) /\ AtRest(l)
      /\ Unchanged(q, was[t], alone[t], files) /\ Bottom(q, th[t], was[t], alone[t])
  BY <1>1, TruthOfThread, PlaceOfThread DEF Deleting
<1>3. r.pc = "await" /\ r.cmd = th[t].cmd /\ r.resume = th[t].resume /\ r.rest = th[t].rest
  BY <1>2 DEF IsPlace
<1>4. m.transfer = l.transfer /\ m.wire = l.wire /\ m.buffer = l.buffer
  BY <1>2 DEF IsLink
<1> HIDE DEF r, m, l
<1>5. Bottom(q, r, was[t], alone[t])
  BY <1>1, <1>2, <1>3 DEF Bottom, Lists
<1>6. Silent(m) /\ m.transfer = None
  BY <1>2, <1>4 DEF AtRest, Silent, NoWork
<1>7. Truthful(q, r, m, was[t], alone[t], files)
  BY <1>2, <1>3, <1>5, <1>6, AwaitsTruly
<1> QED
  BY <1>1, <1>2, <1>3, <1>7, ContinuesTrue DEF q

LEMMA RecvTrue ==
    ASSUME Own, AllInStep, AllFit, AllTrue, NEW t \in Threads, Recv(t)
    PROVE  AllTrue'
<1> DEFINE q == call[t]
           r == th[t]
           l == Link(t)
<1>1. PICK n \in 1 .. Len(l.wire), rest \in {None, l.bye} :
        Continues(t, r, [l EXCEPT
            !.buffer = SubSeq(l.wire, 1, n),
            !.wire = SubSeq(l.wire, n + 1, Len(l.wire)),
            !.left = rest,
            !.bye = IF rest = None THEN @ ELSE None])
  BY DEF Recv
<1> DEFINE m == [l EXCEPT !.buffer = SubSeq(l.wire, 1, n),
                          !.wire = SubSeq(l.wire, n + 1, Len(l.wire)),
                          !.left = rest,
                          !.bye = IF rest = None THEN @ ELSE None]
<1>2. r.pc = "await" /\ l.buffer = <<>> /\ Busy(r)
  BY DEF Recv, Reads, Busy
<1>3. IsLink(l) /\ InStep(r, l) /\ Truthful(q, r, l, was[t], alone[t], files)
  BY CallOfThread DEF AllTrue
<1>4. /\ m.transfer = l.transfer /\ m.inbox = l.inbox /\ m.chan = l.chan
      /\ m.buffer = SubSeq(l.wire, 1, n) /\ m.wire = SubSeq(l.wire, n + 1, Len(l.wire))
  BY <1>3 DEF IsLink
<1>5. Continues(t, r, m)
  BY <1>1
<1> HIDE DEF m, l, r
<1>6. /\ \A p : OneReply(m, p) => OneReply(l, p)
      /\ \A p, s : TwoReplies(m, p, s) => TwoReplies(l, p, s)
  BY <1>2, <1>3, <1>4, RecvReplies
<1>7. IF Deleting(q, r, m) THEN Deleted(q, m, was[t], alone[t], files)
                           ELSE Unchanged(q, was[t], alone[t], files)
  BY <1>2, <1>3, <1>4, <1>6 DEF Truthful, Deleting, Deleted
<1>8. Said(q, r, m, was[t], alone[t])
  BY <1>2, <1>3, <1>6 DEF Truthful, Said
<1>9. Completes(q, r, m, was[t], alone[t])
  BY <1>2, <1>3, <1>4, <1>6 DEF Truthful, Completes, Closing
<1>10. Carried(q, r, m, was[t], alone[t], files) /\ Completed(q, r, m, was[t], alone[t], files)
  BY <1>2, <1>3, <1>4, <1>6 DEF Truthful, Carried, Completed
<1>11. Truthful(q, r, m, was[t], alone[t], files)
  BY <1>2, <1>3, <1>7, <1>8, <1>9, <1>10 DEF Truthful
<1> QED
  BY <1>2, <1>5, <1>11, ContinuesTrue DEF q, r

LEMMA LoginTrue ==
    ASSUME Own, AllInStep, AllFit, AllTrue, NEW t \in Threads, TakeLogin(t)
    PROVE  AllTrue'
<1> DEFINE q == call[t]
           name == th[t].cmd.name
           next == LoginNext(name, Code(t))
           l == Taken(t)
<1>1. Awaits(t, Logins) /\ Logins \cap Transfers = {}
  BY DEF TakeLogin, Logins, Awaits, Transfers
<1>2. th[t].pc = "await" /\ name \in Logins /\ l.transfer = None
  BY <1>1, HearsTruly
<1>3. /\ Busy(th[t]) /\ IsPlace(th[t]) /\ Follows(q, th[t]) /\ Bottom(q, th[t], was[t], alone[t])
  BY <1>2, TruthOfThread
<1>4. Plain(th[t].resume.name)
  BY <1>1, <1>2, TakenForm DEF Awaits
<1>5. ~ Deleting(q, th[t], Link(t))
  BY <1>2 DEF Deleting, Logins
<1>6. next \in (Logins \ {"220"}) \cup {"done", "failed"}
  BY DEF LoginNext, Logins
<1> HIDE DEF next
<1>7. CASE next = "failed"
  <2>1. Fails(t, HangUp(l))
    BY <1>7 DEF TakeLogin, next
  <2> QED
    BY <1>3, <2>1, FailsTrue
<1>8. CASE next = "done"
  <2> DEFINE r == [th[t] EXCEPT !.pc = "send", !.cmd = th[t].resume, !.resume = None]
  <2>1. Continues(t, r, l)
    BY <1>8 DEF TakeLogin, next
  <2>2. r.pc = "send" /\ r.cmd = th[t].resume /\ r.resume = None /\ r.rest = th[t].rest
    BY <1>3 DEF IsPlace
  <2> HIDE DEF r, l
  <2>4. r.cmd.name \notin Ends \cup {"LIST"}
    BY <1>4, <2>2 DEF Plain, Transfers
  <2>5. r.cmd.name \notin Logins
    BY <1>4, <2>2 DEF Plain
  <2>6. Bottom(q, r, was[t], alone[t])
    <3>1. Lists(r) => r.cmd.name = "PASV"
      BY <2>2, <2>4, <2>5 DEF Lists
    <3>2. r.cmd.name = "PASV" => Lists(th[t])
      BY <1>2, <2>2 DEF Lists
    <3> QED
      BY <1>3, <2>2, <3>1, <3>2 DEF Bottom
  <2> QED
    BY <1>2, <1>3, <1>5, <2>1, <2>2, <2>4, <2>6, GoesOnTrue
<1>9. CASE next \in Logins \ {"220"}
  <2> DEFINE r == Sends(th[t], next, None)
  <2>1. Continues(t, r, l)
    <3>1. next # "failed" /\ next # "done"
      BY <1>9 DEF Logins
    <3> QED
      BY <3>1 DEF TakeLogin, next
  <2>2. r.pc = "send" /\ r.cmd = Command(next, None) /\ r.resume = th[t].resume /\ r.rest = th[t].rest
    BY <1>3, SendsFields
  <2> HIDE DEF r, l
  <2>3. r.cmd.name = next
    BY <2>2 DEF Command
  <2>4. r.cmd.name \notin Ends \cup {"LIST", "PASV"}
    BY <1>9, <2>3 DEF Logins, Ends
  <2>5. Bottom(q, r, was[t], alone[t])
    <3>1. Lists(r) => r.resume.name = "PASV"
      BY <2>2, <2>4 DEF Lists
    <3>2. r.resume.name = "PASV" => Lists(th[t])
      BY <1>2, <2>2 DEF Lists
    <3> QED
      BY <1>3, <2>2, <3>1, <3>2 DEF Bottom
  <2> QED
    BY <1>2, <1>3, <1>5, <2>1, <2>2, <2>4, <2>5, GoesOnTrue
<1> QED
  BY <1>6, <1>7, <1>8, <1>9

LEMMA QuitReplyTrue ==
    ASSUME Own, AllInStep, AllFit, AllTrue, NEW t \in Threads, TakeQuit(t)
    PROVE  AllTrue'
<1>1. Awaits(t, {"QUIT"}) /\ {"QUIT"} \cap Transfers = {} /\ Plain("QUIT")
  BY DEF TakeQuit, Transfers, Plain, Logins, Ends
<1>2. th[t].pc = "await" /\ th[t].cmd.name = "QUIT"
  BY <1>1 DEF Awaits
<1>3. Busy(th[t]) /\ Asks(call[t], th[t])
  BY <1>2, TruthOfThread DEF Follows
<1>4. call[t].op \in Lifecycle
  BY <1>1, <1>2, <1>3, AsksByName, PreparesByName
<1>5. PICK l : Finish(t, Store!Done, l)
  BY DEF TakeQuit
<1> QED
  BY <1>3, <1>4, <1>5, FinishTrue DEF Answer, Lifecycle

LEMMA FeatReplyTrue ==
    ASSUME Own, AllInStep, AllFit, AllTrue, NEW t \in Threads, TakeFeat(t)
    PROVE  AllTrue'
<1> DEFINE q == call[t]
           f == IF Code(t) = 211 THEN Info(t) ELSE {}
           r == Probe(th[t], q, f)
           m == [Taken(t) EXCEPT !.features = f]
<1>1. Continues(t, r, m) /\ Awaits(t, {"FEAT"}) /\ {"FEAT"} \cap Transfers = {} /\ Plain("FEAT")
  BY DEF TakeFeat, Transfers, Plain, Logins, Ends
<1>2. th[t].pc = "await" /\ th[t].cmd.name = "FEAT" /\ Taken(t).transfer = None
  BY <1>1, HearsTruly
<1>3. Busy(th[t]) /\ IsPlace(th[t]) /\ Asks(q, th[t]) /\ q \in Calls
  BY <1>2, TruthOfThread DEF Follows
<1>4. th[t].resume = None
  BY <1>1, <1>2, <1>3, AsksByName
<1>5. Bottom(q, r, was[t], alone[t])
  BY <1>3, <1>4, ProbesFromAbove
<1>6. r.pc = "send" /\ r.cmd.name \notin Ends
  BY <1>3, ProbeForm DEF Plain
<1>7. m.transfer = None
  BY <1>2, CallOfThread DEF IsLink
<1>8. ~ Deleting(q, th[t], Link(t))
  BY <1>2 DEF Deleting
<1> HIDE DEF r, m
<1> QED
  BY <1>1, <1>3, <1>5, <1>6, <1>7, <1>8, GoesOnTrue

LEMMA MkdReplyTrue ==
    ASSUME Own, AllInStep, AllFit, AllTrue, NEW t \in Threads, TakeMkd(t)
    PROVE  AllTrue'
<1> DEFINE q == call[t]
           r == MakeParents(th[t], Tail(th[t].rest))
<1>1. /\ (Continues(t, r, Taken(t)) \/ Fails(t, Taken(t))) /\ Awaits(t, {"MKD"})
      /\ {"MKD"} \cap Transfers = {} /\ Plain("MKD")
  BY DEF TakeMkd, Transfers, Plain, Logins, Ends
<1>2. th[t].pc = "await" /\ th[t].cmd.name = "MKD" /\ Taken(t).transfer = None
  BY <1>1, HearsTruly
<1>3. Busy(th[t]) /\ IsPlace(th[t]) /\ Asks(q, th[t])
  BY <1>2, TruthOfThread DEF Follows
<1>4. q.op = "put"
  BY <1>1, <1>2, <1>3, AsksByName, PreparesByName
<1>5. Bottom(q, r, was[t], alone[t])
  BY <1>4 DEF Bottom
<1>6. r.pc = "send" /\ r.cmd.name \notin Ends
  BY <1>3, MakeParentsForm DEF Plain
<1>7. ~ Deleting(q, th[t], Link(t))
  BY <1>2 DEF Deleting
<1> HIDE DEF r
<1> QED
  BY <1>1, <1>2, <1>3, <1>5, <1>6, <1>7, GoesOnTrue, FailsTrue

LEMMA DeleReplyTrue ==
    ASSUME Own, AllInStep, AllFit, AllTrue, NEW t \in Threads, TakeDele(t)
    PROVE  AllTrue'
<1> DEFINE q == call[t]
           p == Head(Link(t).buffer)
<1>1. Awaits(t, {"DELE"}) /\ {"DELE"} \cap Transfers = {} /\ Plain("DELE")
  BY DEF TakeDele, Transfers, Plain, Logins, Ends
<1>2. th[t].pc = "await" /\ th[t].cmd.name = "DELE" /\ OneReply(Link(t), p) /\ NoWork(Link(t))
  BY <1>1, HearsTruly
<1>3. Busy(th[t]) /\ Asks(q, th[t]) /\ q \in Calls
  BY <1>2, TruthOfThread DEF Follows
<1>4. q.op = "delete"
  BY <1>1, <1>2, <1>3, AsksByName, PreparesByName
<1>5. Deleting(q, th[t], Link(t))
  BY <1>2, <1>4 DEF Deleting, NoWork
<1>6. /\ alone[t] /\ p.code \in {250, 550} => files[q.key] = None
      /\ p.code = 550 => Absent(was[t], alone[t], q.key)
      /\ p.code = 250 => Present(was[t], alone[t], q.key)
  BY <1>2, <1>5, TruthOfThread DEF Deleted
<1>7. CASE p.code = 550
  <2>1. Finish(t, Store!KeyError, Taken(t))
    BY <1>7 DEF TakeDele, Code
  <2>2. Answer(q, Store!KeyError, was[t], alone[t])
    BY <1>4, <1>6, <1>7 DEF Answer, Absent
  <2> QED
    BY <1>3, <1>4, <1>6, <1>7, <2>1, <2>2, FinishTrue
<1>8. CASE p.code = 250
  <2>1. Finish(t, Store!Done, Taken(t))
    BY <1>8 DEF TakeDele, Code
  <2>2. Answer(q, Store!Done, was[t], alone[t])
    BY <1>4, <1>6, <1>8 DEF Answer, Present
  <2> QED
    BY <1>3, <1>4, <1>6, <1>8, <2>1, <2>2, FinishTrue
<1>9. CASE p.code \notin {250, 550}
  <2>1. Finish(t, Store!BlobError, Taken(t))
    BY <1>9 DEF TakeDele, Code
  <2> QED
    BY <1>3, <2>1, FinishTrue
<1> QED
  BY <1>7, <1>8, <1>9

LEMMA ProbeReplyTrue ==
    ASSUME Own, AllInStep, AllFit, AllTrue, NEW t \in Threads, TakeProbe(t)
    PROVE  AllTrue'
<1> DEFINE q == call[t]
           name == th[t].cmd.name
           p == Head(Link(t).buffer)
           yes == \/ name = "SIZE" /\ Code(t) = 213
                  \/ name = "MLST" /\ Code(t) = 250 /\ Info(t) = [file |-> TRUE]
           no == \/ Code(t) = 550
                 \/ name = "MLST" /\ Code(t) = 250
           left == IF name = "SIZE" THEN Link(t).features \ {"SIZE"} ELSE {}
<1>1. /\ Awaits(t, {"SIZE", "MLST"}) /\ {"SIZE", "MLST"} \cap Transfers = {}
      /\ Plain("SIZE") /\ Plain("MLST")
  BY DEF TakeProbe, Transfers, Plain, Logins, Ends
<1>2. th[t].pc = "await" /\ name \in {"SIZE", "MLST"} /\ OneReply(Link(t), p) /\ Taken(t).transfer = None
  BY <1>1, HearsTruly
<1>3. /\ Busy(th[t]) /\ IsPlace(th[t]) /\ Asks(q, th[t]) /\ q \in Calls
      /\ Said(q, th[t], Link(t), was[t], alone[t])
  BY <1>2, TruthOfThread DEF Follows
<1>4. q.op = "exists" /\ th[t].resume = None
  BY <1>1, <1>2, <1>3, AsksByName, PreparesByName
<1>5. IF yes \/ no THEN Finish(t, [found |-> yes], Taken(t))
                   ELSE Continues(t, Probe(th[t], q, left), Taken(t))
  BY DEF TakeProbe
<1>6. CASE yes \/ no
  <2>1. yes => Present(was[t], alone[t], q.key)
    BY <1>2, <1>3 DEF Said, Code, Info
  <2>2. ~ yes => Absent(was[t], alone[t], q.key)
    BY <1>2, <1>3, <1>6 DEF Said, Code, Info
  <2> HIDE DEF yes, no
  <2>3. yes \in BOOLEAN
    BY DEF yes
  <2>4. Sure(was[t], alone[t], q.key) => (yes <=> was[t][q.key] # None)
    BY <2>1, <2>2 DEF Present, Absent
  <2>5. Sure(was[t], alone[t], q.key) => [found |-> yes] = [found |-> was[t][q.key] # None]
    BY <2>3, <2>4
  <2>6. Answer(q, [found |-> yes], was[t], alone[t])
    BY <1>4, <2>5 DEF Answer
  <2>7. Finish(t, [found |-> yes], Taken(t))
    BY <1>5, <1>6
  <2> QED
    BY <1>3, <1>4, <2>6, <2>7, FinishTrue
<1>7. CASE ~ (yes \/ no)
  <2> DEFINE r == Probe(th[t], q, left)
  <2>1. Continues(t, r, Taken(t))
    BY <1>5, <1>7
  <2>2. r.pc = "send" /\ r.cmd.name \notin Ends
    BY <1>3, ProbeForm DEF Plain
  <2>3. Bottom(q, r, was[t], alone[t])
    BY <1>3, <1>4, ProbesFromAbove
  <2>4. ~ Deleting(q, th[t], Link(t))
    BY <1>2 DEF Deleting
  <2> HIDE DEF r
  <2> QED
    BY <1>2, <1>3, <2>1, <2>2, <2>3, <2>4, GoesOnTrue
<1> QED
  BY <1>6, <1>7

LEMMA PasvReplyTrue ==
    ASSUME Own, AllInStep, AllFit, AllTrue, NEW t \in Threads, TakePasv(t)
    PROVE  AllTrue'
<1> DEFINE q == call[t]
           r == [th[t] EXCEPT !.pc = "dial", !.port = Info(t).port]
<1>1. /\ (Continues(t, r, Taken(t)) \/ Fails(t, Taken(t))) /\ Awaits(t, {"PASV"})
      /\ {"PASV"} \cap Transfers = {}
  BY DEF TakePasv, Transfers
<1>2. th[t].pc = "await" /\ th[t].cmd.name = "PASV" /\ Taken(t).transfer = None
  BY <1>1, HearsTruly
<1>3. Busy(th[t]) /\ IsPlace(th[t]) /\ Bottom(q, th[t], was[t], alone[t])
  BY <1>2, TruthOfThread
<1>4. r.pc = "dial" /\ r.cmd = th[t].cmd /\ r.rest = th[t].rest
  BY <1>3 DEF IsPlace
<1> HIDE DEF r
<1>5. Bottom(q, r, was[t], alone[t])
  BY <1>2, <1>3, <1>4 DEF Bottom, Lists
<1>6. ~ Deleting(q, th[t], Link(t)) /\ r.cmd.name \notin Ends
  BY <1>2, <1>4 DEF Deleting, Ends
<1> QED
  BY <1>1, <1>2, <1>3, <1>4, <1>5, <1>6, GoesOnTrue, FailsTrue

LEMMA DialTrue ==
    ASSUME Own, AllInStep, AllFit, AllTrue, NEW t \in Threads, Dial(t) \/ DialRefused(t) \/ DialFails(t)
    PROVE  AllTrue'
<1> DEFINE q == call[t]
           l == Link(t)
           c == Chan("connected", None)
           m == [l EXCEPT !.chan[th[t].port] = c]
<1>1. th[t].pc = "dial"
  BY DEF Dial, DialRefused, DialFails
<1>2. /\ Busy(th[t]) /\ IsPlace(th[t]) /\ IsLink(l) /\ AtRest(l) /\ Bottom(q, th[t], was[t], alone[t])
      /\ ~ Deleting(q, th[t], l)
  BY <1>1, TruthOfThread, PlaceOfThread DEF Deleting
<1>3. CASE DialRefused(t) \/ DialFails(t)
  BY <1>2, <1>3, FailsTrue DEF DialRefused, DialFails
<1>4. CASE Dial(t)
  <2> DEFINE r == CASE q.op = "put" -> Sends(th[t], "STOR", q.key)
                    [] q.op = "get" -> Sends(th[t], "RETR", q.key)
                    [] OTHER        -> Sends(th[t], "LIST", Path(t))
  <2>1. Continues(t, r, m)
    BY <1>4 DEF Dial
  <2>2. PICK name \in Transfers : \E arg : r = Sends(th[t], name, arg)
    BY DEF Transfers
  <2>3. PICK arg : r = Sends(th[t], name, arg)
    BY <2>2
  <2>4. r.pc = "send" /\ r.cmd = Command(name, arg) /\ r.rest = th[t].rest
    BY <1>2, <2>3, SendsFields
  <2> HIDE DEF r, c
  <2>5. r.cmd.name = name
    BY <2>4 DEF Command
  <2>6. r.cmd.name \notin Ends
    BY <2>5 DEF Transfers, Ends
  <2>7. m.transfer = None
    BY <1>2 DEF IsLink, AtRest, NoWork
  <2> HIDE DEF m
  <2>8. Bottom(q, r, was[t], alone[t])
    BY <1>1, <1>2, <2>4 DEF Bottom, Lists
  <2> QED
    BY <1>2, <2>1, <2>4, <2>6, <2>7, <2>8, GoesOnTrue DEF l
<1> QED
  BY <1>3, <1>4

-----------------------------------------------------------------------------
(* Transfers, the client's side. *)

\* A reply that begins no transfer is the only one.
LEMMA RefusalAlone ==
    ASSUME NEW r, NEW l, InStep(r, l), r.pc = "await", l.buffer # <<>>, ~ Begun(Head(l.buffer))
    PROVE  OneReply(l, Head(l.buffer))
<1>1. ASSUME NEW s, TwoReplies(l, Head(l.buffer), s) PROVE FALSE
  <2>1. \A p : ~ OneReply(l, p)
    BY <1>1, RepliesApart
  <2>2. ~ Silent(l)
    BY <1>1, RepliesApart
  <2>3. \E p, u : TwoReplies(l, p, u) /\ Begun(p)
    BY <2>1, <2>2 DEF InStep, Between, ToSend, ToDial, Asking, Lost, AskingTransfer, Moving, Ending, Asked,
                      Gone, AtRest, Answering
  <2> QED
    BY <1>1, <2>3, RepliesApart
<1> QED
  BY <1>1, TakenReply

\* The reply that is left when the first is taken is the second.
LEMMA SecondReply ==
    ASSUME NEW r, NEW l, NEW m, InStep(r, l), r.pc = "await", l.buffer # <<>>,
           m.wire = l.wire, m.buffer = Tail(l.buffer), NEW s, OneReply(m, s)
    PROVE  TwoReplies(l, Head(l.buffer), s)
<1> DEFINE h == Head(l.buffer)
<1>1. ~ OneReply(l, h)
  <2> SUFFICES ASSUME OneReply(l, h) PROVE FALSE
    OBVIOUS
  <2>1. l.wire = <<>> /\ l.buffer = <<h>>
    BY DEF OneReply
  <2>2. Tail(<<h>>) = <<>>
    BY SequencesOfOne
  <2>3. Silent(m)
    BY <2>1, <2>2 DEF Silent
  <2> QED
    BY <2>3, RepliesApart
<1>2. PICK u : TwoReplies(l, h, u)
  BY <1>1, TakenReply
<1> HIDE DEF h
<1>3. OneReply(m, u)
  <2>1. CASE l.wire = <<u>> /\ l.buffer = <<h>>
    BY <2>1, SequencesOfOne DEF OneReply
  <2>2. CASE l.wire = <<>> /\ l.buffer = <<h, u>>
    BY <2>2, SequencesOfTwo DEF OneReply
  <2> QED
    BY <1>2, <2>1, <2>2 DEF TwoReplies
<1>4. u = s
  BY <1>3, RepliesApart
<1> QED
  BY <1>2, <1>4 DEF h

LEMMA BringsSame ==
    ASSUME NEW q, NEW r, NEW s, r.rest = s.rest, NEW w, NEW a
    PROVE  \A d : Brings(q, r, w, a, d) <=> Brings(q, s, w, a, d)
<1>1. Where(q, r) = Where(q, s)
  BY DEF Where
<1> QED
  BY <1>1 DEF Brings, Tells

\* The keys ks are what a call that lists should find.
Found(q, ks, w, a) ==
    /\ q.op = "exists" /\ Sure(w, a, q.key) => (q.key \in ks <=> w[q.key] # None)
    /\ q.op = "scan" /\ a =>
          /\ \A k \in Keys : w[k] # None /\ w[k] # Unknown /\ Parent(k) = q.prefix => k \in ks
          /\ \A k \in ks : w[k] # None

LEMMA YieldedTrue ==
    ASSUME Own, AllInStep, AllFit, AllTrue, NEW t \in Threads, Busy(th[t]), NEW ks, NEW l,
           Yielded(t, ks, l), call[t].op \in {"exists", "scan"},
           Found(call[t], ks, was[t], alone[t])
    PROVE  AllTrue'
<1> DEFINE q == call[t]
           o == IF q.op = "scan" THEN [keys |-> ks] ELSE [found |-> q.key \in ks]
<1>1. Finish(t, o, l)
  BY DEF Yielded
<1>2. CASE q.op = "scan"
  <2>1. o.keys = ks
    BY <1>2
  <2> HIDE DEF o
  <2>2. Answer(q, o, was[t], alone[t])
    BY <1>2, <2>1 DEF Answer, Found
  <2> QED
    BY <1>1, <1>2, <2>2, FinishTrue
<1>3. CASE q.op = "exists"
  <2>1. Sure(was[t], alone[t], q.key) => o = [found |-> was[t][q.key] # None]
    <3>1. (q.key \in ks) \in BOOLEAN /\ (was[t][q.key] # None) \in BOOLEAN
      OBVIOUS
    <3> QED
      BY <1>3, <3>1 DEF Found
  <2> HIDE DEF o
  <2>2. Answer(q, o, was[t], alone[t])
    BY <1>3, <2>1 DEF Answer
  <2> QED
    BY <1>1, <1>3, <2>2, FinishTrue
<1> QED
  BY <1>2, <1>3

LEMMA TransferReplyTrue ==
    ASSUME Own, AllInStep, AllFit, AllTrue, NEW t \in Threads, TakeTransfer(t)
    PROVE  AllTrue'
<1> DEFINE q == call[t]
           l == Link(t)
           m == Taken(t)
           w == was[t]
           a == alone[t]
           name == th[t].cmd.name
           h == Head(l.buffer)
           r == [th[t] EXCEPT !.pc = IF name = "STOR" THEN "fill" ELSE "data"]
<1>1. th[t].pc = "await" /\ name \in Transfers /\ l.buffer # <<>>
  BY DEF TakeTransfer, Awaits, Transfers
<1>2. /\ Busy(th[t]) /\ IsPlace(th[t]) /\ IsLink(l) /\ InStep(th[t], l) /\ Asks(q, th[t])
      /\ q \in Calls /\ ~ Deleting(q, th[t], l) /\ Unchanged(q, w, a, files)
      /\ Said(q, th[t], l, w, a) /\ Carried(q, th[t], l, w, a, files)
      /\ Completes(q, th[t], l, w, a) /\ Bottom(q, th[t], w, a)
  <2>1. ~ Deleting(q, th[t], l)
    BY <1>1 DEF Deleting, Transfers
  <2> QED
    BY <1>1, <2>1, TruthOfThread DEF Follows
<1>3. Moves(q, th[t], th[t].cmd)
  BY <1>1, <1>2, AsksByName
<1>4. /\ m.transfer = l.transfer /\ m.chan = l.chan /\ m.wire = l.wire /\ m.buffer = Tail(l.buffer)
  BY <1>2 DEF Taken, IsLink
<1>5. CASE Code(t) \in {125, 150}
  <2>1. Continues(t, r, m)
    BY <1>5 DEF TakeTransfer
  <2>2. /\ r.pc = IF name = "STOR" THEN "fill" ELSE "data"
        /\ r.cmd = th[t].cmd /\ r.port = th[t].port /\ r.rest = th[t].rest
    BY <1>2 DEF IsPlace
  <2> HIDE DEF r, m, l
  <2>3. \A d : Brings(q, r, w, a, d) <=> Brings(q, th[t], w, a, d)
    BY <2>2, BringsSame
  <2>4. Carried(q, r, m, w, a, files)
    BY <1>2, <1>4, <2>3 DEF Carried
  <2>5. ASSUME NEW s, Closing(r, m, s) PROVE Closing(th[t], l, s)
    <3>1. OneReply(m, s)
      BY <2>2, <2>5 DEF Closing
    <3>2. TwoReplies(l, h, s)
      BY <1>1, <1>2, <1>4, <3>1, SecondReply
    <3> QED
      BY <1>1, <3>2 DEF Closing
  <2>6. Completes(q, r, m, w, a)
    BY <1>2, <1>4, <2>2, <2>3, <2>5 DEF Completes
  <2>7. Completed(q, r, m, w, a, files)
    BY <1>1, <2>2 DEF Completed, Transfers
  <2>8. Bottom(q, r, w, a)
    <3>1. q.op = "exists" => name = "LIST"
      BY <1>3, MovesByName
    <3> QED
      BY <1>2, <2>2, <3>1 DEF Bottom, Lists
  <2>9. ~ Deleting(q, r, m) /\ r.pc \notin {"await", "done"}
    BY <2>2 DEF Deleting
  <2>10. Truthful(q, r, m, w, a, files)
    BY <1>2, <2>4, <2>6, <2>7, <2>8, <2>9 DEF Truthful
  <2> QED
    BY <1>2, <2>1, <2>9, <2>10, ContinuesTrue
<1>6. CASE Code(t) \notin {125, 150}
  <2>1. OneReply(l, h) /\ h.code = Code(t)
    BY <1>1, <1>2, <1>6, RefusalAlone DEF Begun, Code
  <2>2. CASE Code(t) = 550 /\ name = "RETR"
    <3>1. Finish(t, Store!KeyError, m)
      BY <2>2 DEF TakeTransfer
    <3>2. q.op = "get"
      BY <1>3, <2>2, MovesByName
    <3>3. Absent(w, a, q.key)
      BY <1>2, <2>1, <2>2 DEF Said
    <3>4. Answer(q, Store!KeyError, w, a)
      BY <3>2, <3>3 DEF Answer, Absent
    <3> QED
      BY <1>2, <3>1, <3>2, <3>4, FinishTrue
  <2>3. CASE Code(t) = 550 /\ name = "LIST"
    <3>1. Yielded(t, th[t].got, m) /\ th[t].got = {}
      BY <1>1, <2>3, CallOfThread DEF TakeTransfer, Follows
    <3>2. q.op \in {"exists", "scan"}
      BY <1>3, <2>3, MovesByName
    <3>3. Nothing(q, w, a)
      BY <1>2, <2>1, <2>3 DEF Said
    <3>4. /\ q.op = "exists" => q.key \in Keys /\ KeysOf(q) = {q.key}
          /\ q.op = "scan" => KeysOf(q) = Keys
      BY <1>2, RequestForms
    <3>5. q.op = "exists" /\ Sure(w, a, q.key) => w[q.key] = None
      BY <3>3, <3>4 DEF Nothing, Absent
    <3>6. q.op = "scan" /\ a => \A k \in Keys : Parent(k) = q.prefix /\ w[k] # Unknown => w[k] = None
      BY <3>3, <3>4 DEF Nothing, Absent, Sure
    <3>7. Found(q, th[t].got, w, a)
      BY <3>1, <3>5, <3>6 DEF Found
    <3> HIDE DEF m
    <3> QED
      BY <1>2, <3>1, <3>2, <3>7, YieldedTrue
  <2>4. CASE ~ (Code(t) = 550 /\ name \in {"RETR", "LIST"})
    <3>1. Fails(t, m)
      BY <1>6, <2>4 DEF TakeTransfer
    <3> QED
      BY <1>2, <3>1, FailsTrue
  <2> QED
    BY <2>2, <2>3, <2>4
<1> QED
  BY <1>5, <1>6

\* At the end of the data: r is where the thread then is, m its link.
LEMMA AwaitEndTrue ==
    ASSUME Own, AllInStep, AllFit, AllTrue, NEW t \in Threads, th[t].pc \in {"data", "fill"},
           NEW r, NEW m, Continues(t, r, m), r.pc = "await", r.cmd.name \in Ends,
           r.rest = th[t].rest, m.transfer = Link(t).transfer,
           Completed(call[t], r, m, was[t], alone[t], files)
    PROVE  AllTrue'
<1> DEFINE q == call[t]
           l == Link(t)
           w == was[t]
           a == alone[t]
<1>1. /\ Busy(th[t]) /\ Asks(q, th[t]) /\ Carried(q, th[t], l, w, a, files) /\ Bottom(q, th[t], w, a)
      /\ Unchanged(q, w, a, files)
  BY TruthOfThread DEF Deleting, Follows
<1>2. r.cmd.name \notin Transfers \cup {"DELE", "SIZE", "MLST"}
  BY DEF Ends, Transfers
<1>3. ~ Deleting(q, r, m) /\ Completes(q, r, m, w, a)
  BY <1>2 DEF Deleting, Completes
<1>4. Said(q, r, m, w, a)
  BY <1>2 DEF Said, Transfers
<1>5. Carried(q, r, m, w, a, files)
  BY <1>1, BringsSame DEF Carried
<1>6. Bottom(q, r, w, a)
  <2>1. q.op = "exists" => th[t].pc = "data"
    BY <1>1 DEF Asks
  <2> QED
    BY <1>1, <2>1 DEF Bottom, Lists
<1>7. Truthful(q, r, m, w, a, files)
  BY <1>1, <1>3, <1>4, <1>5, <1>6 DEF Truthful
<1> QED
  BY <1>1, <1>7, ContinuesTrue

LEMMA ReadDataTrue ==
    ASSUME Own, AllInStep, AllFit, AllTrue, NEW t \in Threads, ReadData(t)
    PROVE  AllTrue'
<1> DEFINE q == call[t]
           l == Link(t)
           c == MyChan(t)
           d == IF c.state = "received" THEN c.data ELSE Torn
           e == Expects(th[t], "226")
           r == [e EXCEPT !.data = d]
<1>1. Continues(t, r, l) /\ th[t].pc = "data" /\ c.state # "connected"
  BY DEF ReadData
<1>2. /\ IsPlace(th[t]) /\ InStep(th[t], l) /\ Fits(q, th[t], l) /\ Asks(q, th[t]) /\ Busy(th[t])
      /\ Completes(q, th[t], l, was[t], alone[t])
  BY <1>1, TruthOfThread DEF Follows
<1>3. Moves(q, th[t], th[t].cmd) /\ q.op # "put"
  BY <1>1, <1>2 DEF Asks, Reading
<1>4. l.transfer = None
  <2>1. th[t].cmd.name \in Transfers
    BY <1>3, MovesByName
  <2>2. l.transfer # None => l.sock = "open"
    BY <1>2, InTransfer
  <2> QED
    BY <1>1, <1>2, <2>1, <2>2 DEF Fits, Holds, Begins, MyChan
<1>5. /\ e.pc = "await" /\ e.cmd = Command("226", None) /\ e.port = th[t].port
      /\ e.rest = th[t].rest /\ IsPlace(e)
  BY <1>2, ExpectsFields, ExpectsForm
<1> HIDE DEF e, d
<1>6. /\ r.pc = "await" /\ r.cmd = Command("226", None) /\ r.port = th[t].port
      /\ r.rest = th[t].rest /\ r.data = d
  BY <1>5 DEF IsPlace
<1> HIDE DEF r
<1>7. r.cmd.name = "226"
  BY <1>6 DEF Command
<1>8. ASSUME NEW s, OneReply(l, s), s.code = 226 PROVE Brings(q, r, was[t], alone[t], r.data)
  <2>1. th[t].cmd.name \in Transfers /\ Closing(th[t], l, s)
    BY <1>1, <1>3, <1>8, MovesByName DEF Closing
  <2>2. c.state = "received" /\ Brings(q, th[t], was[t], alone[t], c.data)
    BY <1>2, <1>8, <2>1 DEF Completes, MyChan
  <2> QED
    BY <1>6, <2>2, BringsSame DEF d
<1>9. Completed(q, r, l, was[t], alone[t], files)
  BY <1>3, <1>4, <1>8 DEF Completed
<1> QED
  BY <1>1, <1>6, <1>7, <1>9, AwaitEndTrue DEF Ends

LEMMA FillDataTrue ==
    ASSUME Own, AllInStep, AllFit, AllTrue, NEW t \in Threads, FillData(t)
    PROVE  AllTrue'
<1> DEFINE q == call[t]
           l == Link(t)
           r == Expects(th[t], "226")
<1>1. PICK d \in Leaving(t) :
        Continues(t, r, IF MyChan(t).state # "connected" THEN l
                        ELSE [l EXCEPT !.chan[th[t].port] = Chan("sent", d)])
  BY DEF FillData
<1> DEFINE s == [l EXCEPT !.chan[th[t].port] = Chan("sent", d)]
           m == IF MyChan(t).state # "connected" THEN l ELSE s
<1>2. /\ IsPlace(th[t]) /\ IsLink(l) /\ LinkTyped(l) /\ InStep(th[t], l) /\ Fits(q, th[t], l)
      /\ Asks(q, th[t]) /\ q \in Calls /\ Busy(th[t]) /\ th[t].pc = "fill"
      /\ Completes(q, th[t], l, was[t], alone[t])
  BY TruthOfThread DEF FillData, Follows
<1>3. q.op = "put" /\ th[t].port \in Ports /\ Moves(q, th[t], th[t].cmd)
  BY <1>2 DEF Asks
<1>4. th[t].cmd.name \in Transfers
  BY <1>3, MovesByName
<1>5. Agrees(d, q.data)
  <2>1. q.data \in Values
    BY <1>2, <1>3, RequestForms
  <2>2. CASE d = q.data
    BY <2>2, AgreesForms
  <2>3. CASE d # q.data
    <3>1. d = Torn /\ Async(t) /\ q.data \in Large
      BY <2>3 DEF Leaving
    <3>2. l.flavour = "aio" /\ l.flavour \in Flavours
      BY <1>2, <3>1 DEF Async, LinkTyped
    <3>3. ~ AllLeaves
      BY <3>1, <3>2 DEF AllLeaves
    <3>4. d # None /\ q.data # None
      BY <2>1, <3>1, ValuesAssumption
    <3> QED
      BY <3>3, <3>4 DEF Agrees
  <2> QED
    BY <2>2, <2>3
<1>6. l.transfer # None => MyChan(t).state = "connected"
  BY <1>2, <1>4, InTransfer DEF Fits, Holds, Begins, MyChan
<1>7. /\ s.transfer = l.transfer /\ s.wire = l.wire /\ s.buffer = l.buffer
      /\ s.chan[th[t].port] = Chan("sent", d)
  BY <1>2, <1>3 DEF IsLink
<1>8. Chan("sent", d).state = "sent" /\ Chan("sent", d).data = d
  BY DEF Chan
<1> HIDE DEF s
<1>9. /\ m.transfer = l.transfer /\ m.wire = l.wire /\ m.buffer = l.buffer
      /\ l.transfer # None => m.chan[th[t].port].state = "sent" /\ m.chan[th[t].port].data = d
  BY <1>6, <1>7, <1>8
<1>10. /\ r.pc = "await" /\ r.cmd = Command("226", None) /\ r.port = th[t].port
       /\ r.rest = th[t].rest
  BY <1>2, ExpectsFields
<1>11. Continues(t, r, m)
  BY <1>1 DEF m, s
<1> HIDE DEF r, m
<1>12. r.cmd.name = "226"
  BY <1>10 DEF Command
<1>13. ASSUME NEW x, OneReply(m, x), x.code = 226 PROVE FALSE
  <2>1. Closing(th[t], l, x)
    BY <1>2, <1>9, <1>13 DEF Closing, OneReply
  <2> QED
    BY <1>2, <1>3, <1>4, <1>13, <2>1 DEF Completes
<1>14. Completed(q, r, m, was[t], alone[t], files)
  BY <1>3, <1>5, <1>9, <1>10, <1>13 DEF Completed
<1> QED
  BY <1>2, <1>9, <1>10, <1>11, <1>12, <1>14, AwaitEndTrue DEF Ends

LEMMA DataFailsTrue ==
    ASSUME Own, AllInStep, AllFit, AllTrue, NEW t \in Threads, DataFails(t) \/ DataTimesOut(t)
    PROVE  AllTrue'
<1> DEFINE l == Link(t)
           r == Expects(th[t], "226, failing")
<1>1. PICK m \in {l, CloseData(l, th[t].port)} : Continues(t, r, m)
  BY DEF DataFails, DataTimesOut
<1>2. th[t].pc \in {"data", "fill"} /\ IsPlace(th[t]) /\ IsLink(l)
  BY CallOfThread DEF DataFails, DataTimesOut
<1>3. m.transfer = l.transfer
  BY <1>2, CloseDataForm
<1>4. r.pc = "await" /\ r.cmd = Command("226, failing", None) /\ r.rest = th[t].rest
  BY <1>2, ExpectsFields
<1> HIDE DEF r
<1>5. r.cmd.name = "226, failing"
  <2>1. Command("226, failing", None).name = "226, failing"
    BY DEF Command
  <2> QED
    BY <1>4, <2>1
<1>6. Completed(call[t], r, m, was[t], alone[t], files)
  BY <1>5 DEF Completed
<1> QED
  BY <1>1, <1>2, <1>3, <1>4, <1>5, <1>6, AwaitEndTrue DEF Ends

\* The next name on the path of a call that lists.
LEMMA StepsDown ==
    ASSUME NEW q \in Calls, q.op \in {"exists", "scan"}, NEW r,
           Suffix(r.rest, Target(q)), r.rest # <<>>
    PROVE  /\ Target(q) \in Seq(STRING)
           /\ \E i \in 1 .. Len(Target(q)) :
                 /\ Where(q, r) = Prefix(Target(q), i - 1)
                 /\ Append(Where(q, r), Head(r.rest)) = Prefix(Target(q), i)
<1> DEFINE w == Target(q)
           i == Len(w) - Len(r.rest) + 1
<1>1. w \in Seq(STRING)
  BY WhereForms
<1>2. Len(r.rest) \in 1 .. Len(w) /\ Head(r.rest) = w[i]
  BY <1>1, SuffixForms
<1>3. Len(w) \in Nat
  BY <1>1, LenProperties
<1>4. Where(q, r) = Prefix(w, Len(w) - Len(r.rest))
  BY DEF Where
<1> HIDE DEF w
<1>5. i \in 1 .. Len(w) /\ i - 1 = Len(w) - Len(r.rest)
  BY <1>2, <1>3
<1> HIDE DEF i
<1>6. Append(Prefix(w, i - 1), w[i]) = Prefix(w, i)
  BY <1>1, <1>5, PrefixNext
<1> QED
  BY <1>1, <1>2, <1>4, <1>5, <1>6 DEF w

\* A listing is taken for one.
LEMMA ListingsRead ==
    ASSUME NEW d \in Listings
    PROVE  /\ d \notin Values \cup {Torn, None}
           /\ \A e \in d : e.isDir \in BOOLEAN /\ (~ e.isDir => e.path \in Keys)
<1>1. d \in SUBSET Lines /\ \A e \in d : IF e.isDir THEN e.path \in AllDirs ELSE e.path \in Keys
  BY DEF Listings
<1>2. d \notin Values \cup {Torn, None}
  BY <1>1, ListingsAssumption DEF Lines
<1>3. \A e \in d : e.isDir \in BOOLEAN
  BY <1>1 DEF Lines
<1> QED
  BY <1>1, <1>2, <1>3

\* The files of a listing are files.
LEMMA ToldFiles ==
    ASSUME NEW q \in Calls, q.op \in {"exists", "scan"}, NEW r, NEW w, NEW a, NEW d,
           Tells(q, r, w, a, d), NEW e \in d, ~ e.isDir
    PROVE  /\ e.path \in Keys
           /\ q.op = "scan" /\ a => w[e.path] # None
           /\ q.op = "exists" /\ e.path = q.key => Present(w, a, q.key)
<1>1. e.path \in Keys
  BY ListingsRead DEF Tells
<1>2. \A k \in KeysOf(q) : Sure(w, a, k) /\ e.path = k => w[k] # None
  BY DEF Tells
<1>3. q.op = "scan" => KeysOf(q) = Keys
  BY RequestForms
<1>4. q.op = "exists" => q.key \in KeysOf(q)
  BY RequestForms
<1>5. None # Unknown
  BY ValuesAssumption
<1> QED
  BY <1>1, <1>2, <1>3, <1>4, <1>5 DEF Sure, Present

\* At the end of its path a call finds what is listed there.
LEMMA FoundAtEnd ==
    ASSUME NEW q \in Calls, q.op \in {"exists", "scan"}, NEW r, NEW w, NEW a, NEW d,
           Tells(q, r, w, a, d), r.rest = <<>>, q.op = "exists" => Absent(w, a, q.key)
    PROVE  Found(q, {e.path : e \in {e \in d : ~ e.isDir}}, w, a)
<1> DEFINE ks == {e.path : e \in {e \in d : ~ e.isDir}}
<1>1. Where(q, r) = Target(q)
  BY WhereForms
<1>2. ASSUME q.op = "exists", Sure(w, a, q.key) PROVE q.key \in ks <=> w[q.key] # None
  <2>1. w[q.key] = None
    BY <1>2 DEF Absent
  <2>2. ASSUME NEW e \in d, ~ e.isDir, e.path = q.key PROVE FALSE
    BY <1>2, <2>1, <2>2, ToldFiles DEF Present
  <2> QED
    BY <2>1, <2>2
<1>3. ASSUME q.op = "scan", a, NEW k \in Keys, w[k] # None, w[k] # Unknown, Parent(k) = q.prefix
      PROVE  k \in ks
  <2> DEFINE e == [path |-> k, isDir |-> FALSE]
  <2>1. e \in d
    BY <1>1, <1>3, RequestForms DEF Tells, Sure, Target
  <2>2. e.path = k /\ ~ e.isDir
    OBVIOUS
  <2> QED
    BY <2>1, <2>2
<1>4. ASSUME q.op = "scan", a, NEW k \in ks PROVE w[k] # None
  <2>1. PICK e \in d : ~ e.isDir /\ k = e.path
    BY <1>4
  <2> QED
    BY <1>4, <2>1, ToldFiles
<1> QED
  BY <1>2, <1>3, <1>4 DEF Found

\* On its way down it finds at most the key itself, in place of a directory.
LEMMA FoundOnTheWay ==
    ASSUME NEW q \in Calls, q.op \in {"exists", "scan"}, NEW r, NEW w, NEW a, NEW d,
           Tells(q, r, w, a, d), Suffix(r.rest, Target(q)), r.rest # <<>>,
           NEW match, match = {e \in d : e.path = Append(Where(q, r), Head(r.rest))},
           ~ \E e \in match : e.isDir
    PROVE  Found(q, {e.path : e \in match}, w, a)
<1> DEFINE ks == {e.path : e \in match}
           x == Target(q)
<1>1. PICK i \in 1 .. Len(x) : /\ Where(q, r) = Prefix(x, i - 1)
                               /\ Append(Where(q, r), Head(r.rest)) = Prefix(x, i)
  BY StepsDown
<1>2. x \in Seq(STRING) /\ Len(x) \in Nat
  BY WhereForms, LenProperties
<1> HIDE DEF x
<1>3. ~ \E e \in d : e.path = Prefix(x, i) /\ e.isDir
  BY <1>1
<1>4. \A e \in match : e \in d /\ ~ e.isDir
  OBVIOUS
<1>5. ASSUME NEW k \in KeysOf(q), Sure(w, a, k), w[k] # None, i \in 1 .. Len(k) - 1,
             Prefix(k, i) = Prefix(x, i), Parent(Prefix(k, i)) = Prefix(x, i - 1)
      PROVE  FALSE
  <2> DEFINE e == [path |-> Prefix(k, i), isDir |-> TRUE]
  <2>1. e \in d
    BY <1>1, <1>5 DEF Tells
  <2>2. e.path = Prefix(k, i) /\ e.isDir
    OBVIOUS
  <2> QED
    BY <1>3, <1>5, <2>1, <2>2
<1>6. ASSUME q.op = "exists", Sure(w, a, q.key) PROVE q.key \in ks <=> w[q.key] # None
  <2>1. q.key \in KeysOf(q) /\ x = q.key
    BY <1>6, RequestForms DEF Target, x
  <2>2. ASSUME q.key \in ks PROVE w[q.key] # None
    <3>1. PICK e \in match : e.path = q.key
      BY <2>2
    <3> QED
      BY <1>4, <1>6, <3>1, ToldFiles DEF Present
  <2>3. ASSUME w[q.key] # None PROVE q.key \in ks
    <3>1. Parent(Prefix(x, i)) = Prefix(x, i - 1)
      BY <1>2, ParentOfPrefix
    <3>2. i \notin 1 .. Len(x) - 1
      BY <1>5, <1>6, <2>1, <2>3, <3>1
    <3>3. i = Len(x)
      BY <1>2, <3>2
    <3>4. Prefix(x, i) = x
      BY <1>2, <3>3, SubSeqFull DEF Prefix
    <3> DEFINE e == [path |-> q.key, isDir |-> FALSE]
    <3>5. e \in d
      BY <1>1, <1>6, <2>1, <2>3, <3>1, <3>4 DEF Tells
    <3>6. e.path = q.key
      OBVIOUS
    <3>7. e \in match
      BY <1>1, <2>1, <3>4, <3>5, <3>6
    <3> QED
      BY <3>6, <3>7
  <2> QED
    BY <2>2, <2>3
<1>7. ASSUME q.op = "scan", a, NEW k \in Keys, w[k] # None, w[k] # Unknown, Parent(k) = q.prefix
      PROVE  k \in ks
  <2>1. x = Prefix(k, Len(k) - 1) /\ k \in KeysOf(q) /\ Sure(w, a, k)
    BY <1>7, RequestForms DEF Target, x, Parent, Sure
  <2>2. k \in Seq(STRING) /\ Len(k) \in Nat \ {0}
    BY ParentsForm
  <2>3. Len(k) - 1 \in 0 .. Len(k)
    BY <2>2
  <2>4. Len(x) = Len(k) - 1
    BY <2>1, <2>2, <2>3, PrefixForms
  <2>5. i \in 1 .. Len(k) - 1 /\ i \in 1 .. Len(k)
        /\ i \in 0 .. Len(k) - 1 /\ i - 1 \in 0 .. Len(k) - 1
    BY <1>2, <2>2, <2>4
  <2>6. Prefix(x, i) = Prefix(k, i) /\ Prefix(x, i - 1) = Prefix(k, i - 1)
    BY <2>1, <2>2, <2>3, <2>5, PrefixOfPrefix
  <2>7. Parent(Prefix(k, i)) = Prefix(k, i - 1)
    BY <2>2, <2>5, ParentOfPrefix
  <2> QED
    BY <1>5, <1>7, <2>1, <2>5, <2>6, <2>7
<1>8. ASSUME q.op = "scan", a, NEW k \in ks PROVE w[k] # None
  <2>1. PICK e \in match : k = e.path
    BY <1>8
  <2> QED
    BY <1>4, <1>8, <2>1, ToldFiles
<1> QED
  BY <1>6, <1>7, <1>8 DEF Found

\* Where a call that looks for its key comes to that key by its directories,
\* the key is a directory.
LEMMA BottomIsDir ==
    ASSUME NEW q \in Calls, q.op \in {"exists", "scan"}, NEW r, NEW w, NEW a, NEW d,
           Tells(q, r, w, a, d), Suffix(r.rest, Target(q)), r.rest # <<>>,
           NEW e \in d, e.path = Append(Where(q, r), Head(r.rest)), e.isDir,
           NEW s, s.rest = Tail(r.rest)
    PROVE  Bottom(q, s, w, a)
<1> SUFFICES ASSUME q.op = "exists", s.rest = <<>>, Sure(w, a, q.key) PROVE w[q.key] = None
  BY DEF Bottom, Absent
<1>1. Where(q, s) = Target(q) /\ Where(q, s) = Append(Where(q, r), Head(r.rest))
  BY WhereForms
<1>2. e.path = q.key /\ q.key \in KeysOf(q)
  BY <1>1, RequestForms DEF Target
<1> QED
  BY <1>2 DEF Tells

LEMMA DescendTrue ==
    ASSUME Own, AllInStep, AllFit, AllTrue, NEW t \in Threads, Awaits(t, Ends), th[t].cmd.name = "226",
           call[t].op \notin {"put", "get"}, Descend(t),
           Brings(call[t], th[t], was[t], alone[t], th[t].data)
    PROVE  AllTrue'
<1> DEFINE q == call[t]
           w == was[t]
           a == alone[t]
           d == th[t].data
           l == Taken(t)
           match == {e \in d : e.path = Append(Where(q, th[t]), Head(th[t].rest))}
           files_ == {e.path : e \in {e \in d : ~ e.isDir}}
           u == [th[t] EXCEPT !.rest = Tail(@), !.port = None]
           r == Sends(u, "PASV", None)
           m == CloseData(l, th[t].port)
<1>1. /\ th[t].pc = "await" /\ Busy(th[t]) /\ IsPlace(th[t]) /\ Follows(q, th[t])
      /\ IsLink(l) /\ l.transfer = None /\ q.op \in {"exists", "scan"}
  BY TakesEnd DEF Reading
<1>2. q \in Calls /\ Suffix(th[t].rest, Target(q)) /\ th[t].got = {}
  BY <1>1, WhereForms DEF Follows
<1>3. Tells(q, th[t], w, a, d)
  BY <1>1 DEF Brings
<1>4. d \notin Values \cup {Torn, None}
  BY <1>3, ListingsRead DEF Tells
<1>5. Path(t) = Where(q, th[t])
  BY DEF Path, Where, Target
<1>6. \/ th[t].rest = <<>> /\ Yielded(t, th[t].got \cup files_, l)
      \/ th[t].rest # <<>> /\ (\E e \in match : e.isDir) /\ Continues(t, r, m)
      \/ th[t].rest # <<>> /\ ~ (\E e \in match : e.isDir)
         /\ Yielded(t, th[t].got \cup {e.path : e \in match}, l)
  BY <1>4, <1>5 DEF Descend
<1>7. CASE th[t].rest = <<>> /\ Yielded(t, th[t].got \cup files_, l)
  <2>1. th[t].got \cup files_ = files_
    BY <1>2
  <2>2. q.op = "exists" => Absent(w, a, q.key)
    BY <1>1, <1>7, TruthOfThread DEF Bottom, Lists, Ends
  <2>3. Found(q, files_, w, a)
    BY <1>1, <1>2, <1>3, <1>7, <2>2, FoundAtEnd
  <2> HIDE DEF l, files_
  <2> QED
    BY <1>1, <1>7, <2>1, <2>3, YieldedTrue
<1>8. CASE th[t].rest # <<>> /\ ~ (\E e \in match : e.isDir)
           /\ Yielded(t, th[t].got \cup {e.path : e \in match}, l)
  <2> DEFINE ks == {e.path : e \in match}
  <2>1. th[t].got \cup ks = ks
    BY <1>2
  <2>2. Found(q, ks, w, a)
    BY <1>1, <1>2, <1>3, <1>8, FoundOnTheWay
  <2> HIDE DEF l, ks
  <2> QED
    BY <1>1, <1>8, <2>1, <2>2, YieldedTrue DEF ks
<1>9. CASE th[t].rest # <<>> /\ (\E e \in match : e.isDir) /\ Continues(t, r, m)
  <2>1. PICK e \in match : e.isDir
    BY <1>9
  <2>2. IsPlace(u) /\ u.rest = Tail(th[t].rest)
    BY <1>1 DEF IsPlace
  <2> HIDE DEF u
  <2>3. r.pc = "send" /\ r.cmd = Command("PASV", None) /\ r.rest = Tail(th[t].rest)
    BY <2>2, SendsFields
  <2> HIDE DEF r
  <2>4. Bottom(q, r, w, a)
    BY <1>1, <1>2, <1>3, <1>9, <2>1, <2>3, BottomIsDir
  <2>5. m.transfer = None
    BY <1>1, CloseDataForm
  <2>6. r.cmd.name = "PASV"
    <3>1. Command("PASV", None).name = "PASV"
      BY DEF Command
    <3> QED
      BY <2>3, <3>1
  <2>7. r.cmd.name \notin Ends /\ ~ Deleting(q, th[t], Link(t))
    BY <2>6 DEF Ends, Deleting
  <2> HIDE DEF m
  <2> QED
    BY <1>1, <1>9, <2>3, <2>4, <2>5, <2>7, GoesOnTrue
<1> QED
  BY <1>6, <1>7, <1>8, <1>9

LEMMA DoneReplyTrue ==
    ASSUME Own, AllInStep, AllFit, AllTrue, NEW t \in Threads, TakeDone(t) \/ TakeFailing(t)
    PROVE  AllTrue'
<1> DEFINE q == call[t]
           h == Head(Link(t).buffer)
<1>1. Awaits(t, Ends)
  BY DEF TakeDone, TakeFailing, Awaits, Ends
<1>2. Busy(th[t]) /\ q.op \in Reading \cup {"put"} /\ th[t].pc = "await"
  BY <1>1, TakesEnd
<1>3. CASE Fails(t, Taken(t))
  BY <1>2, <1>3, FailsTrue
<1>4. CASE TakeDone(t) /\ Code(t) = 226
  <2>1. Awaits(t, {"226"}) /\ {"226"} \cap Transfers = {}
    BY <1>4 DEF TakeDone, Transfers
  <2>2. th[t].cmd.name = "226" /\ OneReply(Link(t), h) /\ h.code = 226
    BY <1>4, <2>1, HearsTruly DEF Code
  <2>3. IF q.op = "put" THEN alone[t] => Agrees(files[q.key], q.data)
        ELSE Brings(q, th[t], was[t], alone[t], th[t].data)
    BY <1>2, <2>2, TruthOfThread DEF Completed
  <2>4. CASE q.op = "put"
    <3>1. Finish(t, Store!Done, Taken(t))
      BY <1>4, <2>4 DEF TakeDone
    <3> QED
      BY <1>2, <2>3, <2>4, <3>1, FinishTrue DEF Answer
  <2>5. CASE q.op = "get"
    <3> DEFINE o == [value |-> th[t].data]
    <3>1. Finish(t, o, Taken(t))
      BY <1>4, <2>5 DEF TakeDone
    <3>2. Sure(was[t], alone[t], q.key) =>
            was[t][q.key] # None /\ (AllLeaves => th[t].data = was[t][q.key])
      BY <2>3, <2>5, AgreesForms DEF Brings, Present
    <3>3. Answer(q, o, was[t], alone[t])
      BY <2>5, <3>2 DEF Answer
    <3> HIDE DEF o
    <3> QED
      BY <1>2, <2>5, <3>1, <3>3, FinishTrue
  <2>6. CASE q.op \notin {"put", "get"}
    <3>1. Descend(t)
      BY <1>4, <2>6 DEF TakeDone
    <3> QED
      BY <1>1, <2>2, <2>3, <2>6, <3>1, DescendTrue
  <2> QED
    BY <2>4, <2>5, <2>6
<1>5. TakeDone(t) /\ Code(t) # 226 => Fails(t, Taken(t))
  BY DEF TakeDone
<1>6. TakeFailing(t) => Fails(t, Taken(t))
  BY DEF TakeFailing
<1> QED
  BY <1>3, <1>4, <1>5, <1>6

LEMMA RecvRestTrue ==
    ASSUME Own, AllInStep, AllFit, AllTrue, NEW t \in Threads, RecvRest(t)
    PROVE  AllTrue'
<1> DEFINE q == call[t]
           r == th[t]
           l == Link(t)
           m == [l EXCEPT !.left = l.bye, !.bye = None]
<1>1. Continues(t, r, m) /\ r.pc = "await" /\ Busy(r)
  BY DEF RecvRest, Reads, Busy
<1>2. IsLink(l) /\ Truthful(q, r, l, was[t], alone[t], files)
  BY CallOfThread DEF AllTrue
<1>3. /\ m.transfer = l.transfer /\ m.inbox = l.inbox /\ m.chan = l.chan
      /\ m.buffer = l.buffer /\ m.wire = l.wire
  BY <1>2 DEF IsLink
<1> HIDE DEF m, l, r
<1>4. /\ \A p : OneReply(m, p) <=> OneReply(l, p)
      /\ \A p, s : TwoReplies(m, p, s) <=> TwoReplies(l, p, s)
  BY <1>3 DEF OneReply, TwoReplies
<1>5. IF Deleting(q, r, m) THEN Deleted(q, m, was[t], alone[t], files)
                           ELSE Unchanged(q, was[t], alone[t], files)
  BY <1>1, <1>2, <1>3, <1>4 DEF Truthful, Deleting, Deleted
<1>6. Said(q, r, m, was[t], alone[t])
  BY <1>1, <1>2, <1>4 DEF Truthful, Said
<1>7. Completes(q, r, m, was[t], alone[t])
  BY <1>1, <1>2, <1>3, <1>4 DEF Truthful, Completes, Closing
<1>8. Carried(q, r, m, was[t], alone[t], files) /\ Completed(q, r, m, was[t], alone[t], files)
  BY <1>1, <1>2, <1>3, <1>4 DEF Truthful, Carried, Completed
<1>9. Truthful(q, r, m, was[t], alone[t], files)
  BY <1>1, <1>2, <1>5, <1>6, <1>7, <1>8 DEF Truthful
<1> QED
  BY <1>1, <1>9, ContinuesTrue DEF q, r

\* What is read in place of the greeting tells nothing of a key.
LEMMA RecvJoinsTrue ==
    ASSUME Own, AllInStep, AllTrail, AllFit, AllTrue, NEW t \in Threads, RecvJoins(t)
    PROVE  AllTrue'
<1> DEFINE q == call[t]
           r == th[t]
           l == Link(t)
<1>1. PICK read \in {<<>>} \cup {<<Reply(code, None)>> : code \in {220, 250, 500}} :
        Continues(t, r, [l EXCEPT !.buffer = read, !.wire = Tail(@), !.left = None])
  BY DEF RecvJoins
<1> DEFINE m == [l EXCEPT !.buffer = read, !.wire = Tail(@), !.left = None]
<1>2. /\ IsLink(l) /\ InStep(r, l) /\ Truthful(q, r, l, was[t], alone[t], files)
      /\ r.pc = "await" /\ Busy(r) /\ Trails(r, l) /\ l.left # None
  BY CallOfThread, ValuesAssumption DEF RecvJoins, Reads, Busy, AllTrail, AllTrue
<1>3. m.transfer = l.transfer /\ m.chan = l.chan
  BY <1>2 DEF IsLink
<1>4. Continues(t, r, m)
  BY <1>1
<1>5. r.cmd.name = "220"
  BY <1>2 DEF RecvJoins, Trails
<1> HIDE DEF m, l, r
<1>6. /\ r.cmd.name \notin {"DELE", "SIZE", "MLST", "RETR", "LIST", "226"} /\ r.cmd.name \notin Transfers
  BY <1>5 DEF Transfers
<1>7. Unchanged(q, was[t], alone[t], files)
  BY <1>2, <1>6 DEF Truthful, Deleting
<1>8. ~ Deleting(q, r, m)
  BY <1>6 DEF Deleting
<1>9. /\ Said(q, r, m, was[t], alone[t]) /\ Completes(q, r, m, was[t], alone[t])
      /\ Completed(q, r, m, was[t], alone[t], files)
  BY <1>6 DEF Said, Completes, Completed
<1>10. Carried(q, r, m, was[t], alone[t], files)
  BY <1>2, <1>3 DEF Truthful, Carried
<1>11. Truthful(q, r, m, was[t], alone[t], files)
  BY <1>2, <1>7, <1>8, <1>9, <1>10 DEF Truthful
<1> QED
  BY <1>2, <1>4, <1>11, ContinuesTrue DEF q, r

\* A 421 read in place of the reply tells nothing either.
LEMMA FarewellTrue ==
    ASSUME Own, AllInStep, AllTrail, AllFit, AllTrue, NEW t \in Threads, TakeFarewell(t)
    PROVE  AllTrue'
<1> DEFINE q == call[t]
           name == th[t].cmd.name
           l == [Link(t) EXCEPT !.left = None]
           k == [l EXCEPT !.features = {}]
<1>1. /\ th[t].pc = "await" /\ IsLink(l)
      /\ (name = "FEAT" /\ Continues(t, Probe(th[t], q, {}), k)) => AtRest(l)
      /\ (name \in {"SIZE", "MLST"} /\ \E features : Continues(t, Probe(th[t], q, features), l)) => AtRest(l)
  <2>1. /\ th[t].pc = "await" /\ IsLink(l) /\ InStep(th[t], Link(t)) /\ Trails(th[t], Link(t))
        /\ Link(t).buffer = <<>> /\ Link(t).left # None
    BY FarewellForm, PlaceOfThread, ValuesAssumption DEF AllTrail
  <2>2. name # "220" => Silent(Link(t)) /\ Link(t).sock # "open"
    BY <2>1 DEF Trails, Silent
  <2>3. name # "220" => AtRest(Link(t))
    BY <2>1, <2>2, OverAtRest
  <2>4. l.wire = Link(t).wire /\ l.buffer = Link(t).buffer /\ l.inbox = Link(t).inbox
        /\ l.transfer = Link(t).transfer
    BY PlaceOfThread DEF IsLink
  <2> HIDE DEF l
  <2>5. name # "220" => AtRest(l)
    BY <2>3, <2>4 DEF AtRest, Silent, NoWork
  <2> QED
    BY <2>1, <2>5
<1>2. /\ Busy(th[t]) /\ IsPlace(th[t]) /\ Asks(q, th[t]) /\ q \in Calls
  BY <1>1, TruthOfThread DEF Follows
<1>3. k.transfer = l.transfer
  BY <1>1 DEF IsLink
<1>4. \/ name = "QUIT" /\ \E m : Finish(t, Store!Done, m)
      \/ \E m : Fails(t, m)
      \/ name = "FEAT" /\ Continues(t, Probe(th[t], q, {}), k)
      \/ name \in {"SIZE", "MLST"} /\ \E features : Continues(t, Probe(th[t], q, features), l)
  BY DEF TakeFarewell
<1> HIDE DEF l, k
<1>5. CASE name = "QUIT" /\ \E m : Finish(t, Store!Done, m)
  <2>1. Plain("QUIT")
    BY DEF Plain, Transfers, Logins, Ends
  <2>2. q.op \in Lifecycle
    BY <1>1, <1>2, <1>5, <2>1, AsksByName, PreparesByName
  <2> QED
    BY <1>2, <1>5, <2>2, FinishTrue DEF Answer, Lifecycle
<1>6. CASE \E m : Fails(t, m)
  BY <1>2, <1>6, FailsTrue
<1>7. ASSUME NEW m \in {k, l}, NEW features, name \in {"FEAT", "SIZE", "MLST"}, AtRest(l),
             Continues(t, Probe(th[t], q, features), m)
      PROVE  AllTrue'
  <2> DEFINE r == Probe(th[t], q, features)
  <2>1. Plain(name)
    BY <1>7 DEF Plain, Transfers, Logins, Ends
  <2>2. th[t].resume = None
    BY <1>1, <1>2, <2>1, AsksByName
  <2>3. Bottom(q, r, was[t], alone[t])
    BY <1>2, <2>2, ProbesFromAbove
  <2>4. r.pc = "send" /\ r.cmd.name \notin Ends
    BY <1>2, ProbeForm DEF Plain
  <2>5. m.transfer = None
    BY <1>3, <1>7 DEF AtRest, NoWork
  <2>6. ~ Deleting(q, th[t], Link(t))
    BY <1>7 DEF Deleting
  <2> HIDE DEF r
  <2> QED
    BY <1>2, <1>7, <2>3, <2>4, <2>5, <2>6, GoesOnTrue DEF r
<1> QED
  BY <1>1, <1>4, <1>5, <1>6, <1>7

LEMMA ClientStepTrue ==
    ASSUME Own, AllInStep, AllTrail, AllFit, AllTrue, NEW t \in Threads, Client(t) \/ Unlucky(t)
    PROVE  AllTrue'
<1>1. CASE RecvEnds(t) \/ SendFails(t)
  <2>1. Breaks(t) /\ Busy(th[t])
    BY <1>1 DEF RecvEnds, Reads, SendFails, Sending, Ready, Busy
  <2> QED
    BY <2>1, BreaksTrue
<1> QED
  BY <1>1, OpenAndCloseTrue, ConnectTrue, SendTrue, RecvTrue, RecvRestTrue, RecvJoinsTrue, FarewellTrue,
     LoginTrue, QuitReplyTrue, FeatReplyTrue,
     MkdReplyTrue, DeleReplyTrue, ProbeReplyTrue, PasvReplyTrue, DialTrue, TransferReplyTrue,
     ReadDataTrue, FillDataTrue, DataFailsTrue, DoneReplyTrue
  DEF Client, Unlucky

LEMMA LateTrue ==
    ASSUME Own, AllInStep, AllFit, AllTrue, timeouts' = 0, timeouts = 0, NEW t \in Threads,
           Late(t) \/ Cancel(t)
    PROVE  AllTrue'
<1>1. ~ Cancel(t)
  BY DEF Cancel
<1>2. RecvTimesOut(t) => Breaks(t) /\ Busy(th[t])
  BY DEF RecvTimesOut, Reads, Busy
<1> QED
  BY <1>1, <1>2, BreaksTrue, DataFailsTrue DEF Late

-----------------------------------------------------------------------------
(* The steps of the server. *)

\* What the thread is at whose command the server of b is about to serve.
LEMMA AskedThread ==
    ASSUME AllInStep, AllFit, AllTrue, NEW b \in Blobs, Pending(b), NEW t \in Threads, Uses[t] = b
    PROVE  LET q == call[t]
               r == th[t]
               l == link[b]
           IN
           /\ r.pc = "await" /\ Busy(r) /\ InStep(r, l) /\ Fits(q, r, l) /\ Follows(q, r) /\ q \in Calls
           /\ IsLink(l) /\ l.sock = "open" /\ l.transfer = None /\ l.inbox # <<>> /\ Silent(l)
           /\ Head(l.inbox) = r.cmd /\ Tail(l.inbox) = <<>> /\ Told(b) = r.cmd.arg
           /\ Unchanged(q, was[t], alone[t], files) /\ Bottom(q, r, was[t], alone[t])
           /\ r.cmd.name \notin Ends
           /\ r.cmd.name \in Transfers => Moves(q, r, r.cmd) /\ l.listen = r.port
           /\ Plain(r.cmd.name) => Prepares(q, r, r.cmd)
<1> DEFINE q == call[t]
           r == th[t]
           l == link[b]
<1>1. l = Link(t) /\ l.sock = "open" /\ l.transfer = None /\ l.inbox # <<>>
  BY DEF Pending, Link
<1>2. IsLink(l) /\ InStep(r, l)
  BY <1>1, PlaceOfThread
<1>3. r.pc = "await" /\ Asked(r, l) /\ Head(l.inbox) = r.cmd /\ Tail(l.inbox) = <<>>
      /\ r.cmd.name \notin Ends /\ (r.cmd.name \in Transfers => l.listen = r.port)
  <2>1. Transfers \cap Ends = {}
    BY DEF Transfers, Ends
  <2> QED
    BY <1>1, <1>2, <2>1, PendingIsAsked
<1>4. /\ Busy(r) /\ Fits(q, r, l) /\ Follows(q, r) /\ q \in Calls
      /\ IF Deleting(q, r, l) THEN Deleted(q, l, was[t], alone[t], files)
                              ELSE Unchanged(q, was[t], alone[t], files)
      /\ Bottom(q, r, was[t], alone[t])
  BY <1>1, <1>3, TruthOfThread
<1>5. ~ Deleting(q, r, l)
  BY <1>1 DEF Deleting
<1>6. /\ r.cmd.name \in Transfers => Moves(q, r, r.cmd)
      /\ Plain(r.cmd.name) => Prepares(q, r, r.cmd)
  BY <1>3, <1>4, AsksByName DEF Follows
<1>7. Told(b) = r.cmd.arg
  BY <1>3 DEF Told
<1> QED
  BY <1>1, <1>2, <1>3, <1>4, <1>5, <1>6, <1>7 DEF Asked

\* A call leaves the files alone, but for its own key where it changes one.
Leaves(q, f, g) == g = f \/ (q.op \in Mutators /\ \A k \in Keys \ {q.key} : g[k] = f[k])

\* What reply p tells a thread that asked, with the files g the server leaves.
Telling(q, r, p, w, a, g) ==
    /\ IF q.op = "delete" /\ r.cmd.name = "DELE"
       THEN /\ a /\ p.code \in {250, 550} => g[q.key] = None
            /\ p.code = 550 => Absent(w, a, q.key)
            /\ p.code = 250 => Present(w, a, q.key)
       ELSE Unchanged(q, w, a, g)
    /\ r.cmd.name = "SIZE" /\ p.code = 213 => Present(w, a, q.key)
    /\ r.cmd.name = "MLST" /\ p.code = 250 =>
          IF p.info = [file |-> TRUE] THEN Present(w, a, q.key) ELSE Absent(w, a, q.key)
    /\ r.cmd.name \in {"SIZE", "MLST", "RETR"} /\ p.code = 550 => Absent(w, a, q.key)
    /\ r.cmd.name = "LIST" /\ p.code = 550 => Nothing(q, w, a)

\* The answer to a command, which begins no transfer.
LEMMA AnswersTruly ==
    ASSUME NEW q, NEW r, NEW l, NEW m, NEW p, NEW w, NEW a, NEW g, InStep(r, l),
           l.sock = "open", l.transfer = None, l.inbox # <<>>,
           m.transfer = None, m.inbox \in {<<>>, Tail(l.inbox)},
           m.buffer = l.buffer, m.wire = Append(l.wire, p),
           Bottom(q, r, w, a), Telling(q, r, p, w, a, g)
    PROVE  Truthful(q, r, m, w, a, g)
<1>1. r.pc = "await" /\ Silent(l) /\ Tail(l.inbox) = <<>> /\ r.cmd.name \notin Ends
  <2>1. Transfers \cap Ends = {}
    BY DEF Transfers, Ends
  <2> QED
    BY <2>1, PendingIsAsked DEF Asked
<1>2. OneReply(m, p) /\ m.inbox = <<>>
  BY <1>1, SequencesOfOne DEF Silent, OneReply
<1>3. \A s : (OneReply(m, s) => s = p) /\ \A x : ~ TwoReplies(m, x, s)
  BY <1>2, RepliesApart
<1>4. IF Deleting(q, r, m) THEN Deleted(q, m, w, a, g) ELSE Unchanged(q, w, a, g)
  BY <1>1, <1>2, <1>3 DEF Deleting, Deleted, Telling
<1>5. Said(q, r, m, w, a)
  BY <1>3 DEF Said, Telling
<1>6. Carried(q, r, m, w, a, g) /\ Completes(q, r, m, w, a) /\ Completed(q, r, m, w, a, g)
  BY <1>1, <1>3 DEF Carried, Completes, Completed, Closing, Ends
<1> QED
  BY <1>1, <1>4, <1>5, <1>6 DEF Truthful

LEMMA AnswersTrue ==
    ASSUME Own, AllInStep, AllFit, AllTrue, NEW b \in Blobs, Pending(b), UNCHANGED <<th, callers>>,
           NEW m, NEW p, link' = [link EXCEPT ![b] = m],
           m.transfer = None, m.inbox \in {<<>>, Tail(link[b].inbox)},
           m.buffer = link[b].buffer, m.wire = Append(link[b].wire, p), Tree',
           \A t \in Threads : Uses[t] = b =>
               /\ Leaves(call[t], files, files')
               /\ Telling(call[t], th[t], p, was[t], alone[t], files')
    PROVE  AllTrue'
<1>1. link[b].sock = "open" /\ link[b].transfer = None /\ link[b].inbox # <<>>
  BY DEF Pending
<1>2. ASSUME NEW t \in Threads, Uses[t] = b
      PROVE  Busy(th[t]) /\ Truthful(call[t], th[t], m, was[t], alone[t], files')
  <2>1. InStep(th[t], link[b]) /\ Busy(th[t]) /\ Bottom(call[t], th[t], was[t], alone[t])
    BY <1>2, AskedThread
  <2>2. Telling(call[t], th[t], p, was[t], alone[t], files')
    BY <1>2
  <2> QED
    BY <1>1, <2>1, <2>2, AnswersTruly
<1>3. \A t \in Threads : Uses[t] = b =>
          \/ files' = files
          \/ /\ Busy(th[t]) /\ call[t].op \in Mutators
             /\ \A k \in Keys \ {call[t].key} : files'[k] = files[k]
  BY <1>2 DEF Leaves
<1>4. \A t \in Threads : Uses[t] = b /\ Busy(th[t]) =>
          Truthful(call[t], th[t], m, was[t], alone[t], files')
  BY <1>2
<1> QED
  BY <1>1, <1>3, <1>4, ServerTrue

LEMMA AnswerTrue ==
    ASSUME Own, AllInStep, AllFit, AllTrue, NEW b \in Blobs, Pending(b), UNCHANGED <<th, callers>>,
           NEW code, NEW info, Answers(b, code, info), Tree',
           \A t \in Threads : Uses[t] = b =>
               /\ Leaves(call[t], files, files')
               /\ Telling(call[t], th[t], Reply(code, info), was[t], alone[t], files')
    PROVE  AllTrue'
<1> DEFINE l == link[b]
           p == Reply(code, info)
           m == [l EXCEPT !.inbox = Tail(@), !.wire = Append(@, p)]
<1>1. link' = [link EXCEPT ![b] = m]
  BY DEF AllInStep, Answers
<1>2. IsLink(l) /\ l.transfer = None
  BY DEF AllInStep, Pending
<1>3. /\ m.transfer = None /\ m.inbox = Tail(l.inbox) /\ m.buffer = l.buffer
      /\ m.wire = Append(l.wire, p)
  BY <1>2 DEF IsLink
<1> HIDE DEF m
<1>5. m.inbox \in {<<>>, Tail(l.inbox)}
  BY <1>3
<1> QED
  BY <1>1, <1>3, <1>5, AnswersTrue

\* Answers that tell nothing of a key.
LEMMA PlainTelling ==
    ASSUME NEW q, NEW r, NEW p, NEW w, NEW a, NEW f, Unchanged(q, w, a, f),
           \/ p.code \notin {213, 250, 550}
           \/ r.cmd.name \notin {"DELE", "SIZE", "MLST", "RETR", "LIST"}
    PROVE  Telling(q, r, p, w, a, f)
BY DEF Telling

LEMMA PlainAnswersTrue ==
    ASSUME Own, AllInStep, AllFit, AllTrue, NEW b \in Blobs, Pending(b), UNCHANGED <<th, callers, server>>,
           NEW m, NEW p, link' = [link EXCEPT ![b] = m],
           m.transfer = None, m.inbox \in {<<>>, Tail(link[b].inbox)},
           m.buffer = link[b].buffer, m.wire = Append(link[b].wire, p),
           \/ p.code \notin {213, 250, 550}
           \/ Head(link[b].inbox).name \notin {"DELE", "SIZE", "MLST", "RETR", "LIST"}
    PROVE  AllTrue'
<1>1. Tree' /\ files' = files
  BY DEF AllTrue, Tree, server
<1>2. ASSUME NEW t \in Threads, Uses[t] = b
      PROVE  Leaves(call[t], files, files') /\ Telling(call[t], th[t], p, was[t], alone[t], files')
  <2>1. Unchanged(call[t], was[t], alone[t], files) /\ Head(link[b].inbox) = th[t].cmd
    BY <1>2, AskedThread
  <2> QED
    BY <1>1, <2>1, PlainTelling DEF Leaves
<1> QED
  BY <1>1, <1>2, AnswersTrue

LEMMA LoginsAsBefore ==
    ASSUME AllInStep, NEW b \in Blobs, NEW code, NEW info, Answers(b, code, info)
    PROVE  AnswersAs(b, code, info, link[b].loggedIn)
BY DEF AllInStep, Answers, AnswersAs, IsLink

LEMMA PlainReplyTrue ==
    ASSUME Own, AllInStep, AllFit, AllTrue, NEW b \in Blobs, Pending(b), UNCHANGED <<th, callers, server>>,
           NEW code, NEW info, NEW in, AnswersAs(b, code, info, in),
           \/ code \notin {213, 250, 550}
           \/ Head(link[b].inbox).name \notin {"DELE", "SIZE", "MLST", "RETR", "LIST"}
    PROVE  AllTrue'
<1> DEFINE l == link[b]
           p == Reply(code, info)
           m == [l EXCEPT !.inbox = Tail(@), !.wire = Append(@, p), !.loggedIn = in]
<1>1. link' = [link EXCEPT ![b] = m]
  BY DEF AllInStep, AnswersAs
<1>2. IsLink(l) /\ l.transfer = None
  BY DEF AllInStep, Pending
<1>3. /\ m.transfer = None /\ m.inbox = Tail(l.inbox) /\ m.buffer = l.buffer
      /\ m.wire = Append(l.wire, p)
  BY <1>2 DEF IsLink
<1>4. p.code = code
  BY DEF Reply
<1> HIDE DEF m, p
<1>5. \/ p.code \notin {213, 250, 550}
      \/ Head(link[b].inbox).name \notin {"DELE", "SIZE", "MLST", "RETR", "LIST"}
  BY <1>4
<1>6. UNCHANGED <<th, callers, server>>
  OBVIOUS
<1> HIDE DEF l
<1> QED
  BY <1>1, <1>3, <1>5, <1>6, PlainAnswersTrue DEF l

LEMMA ServeLoginTrue ==
    ASSUME Own, AllInStep, AllFit, AllTrue, NEW b \in Blobs, ServeLogin(b)
    PROVE  AllTrue'
<1>1. UNCHANGED <<th, callers, server>> /\ Pending(b)
  BY DEF ServeLogin, Serves
<1>2. ASSUME NEW code \in {331, 530}, Answers(b, code, None) PROVE AllTrue'
  <2>1. AnswersAs(b, code, None, link[b].loggedIn)
    BY <1>2, LoginsAsBefore
  <2> QED
    BY <1>1, <2>1, PlainReplyTrue
<1>3. CASE AnswersAs(b, 230, None, TRUE)
  <2>1. \E in : AnswersAs(b, 230, None, in)
    BY <1>3, Zenon
  <2> QED
    BY <1>1, <2>1, PlainReplyTrue
<1> QED
  BY <1>2, <1>3 DEF ServeLogin, AnswersAs

LEMMA RefuseTrue ==
    ASSUME Own, Unambiguous, AllInStep, AllFit, AllTrue, NEW b \in Blobs, Refuse(b)
    PROVE  AllTrue'
<1>1. UNCHANGED <<th, callers, server>> /\ Pending(b)
  BY DEF Refuse, Serves
<1>2. PICK code \in Refusals : Answers(b, code, None)
  BY DEF Refuse
<1>3. code \notin {213, 250, 550}
  BY RefusalsAssumption DEF Unambiguous
<1>4. AnswersAs(b, code, None, link[b].loggedIn)
  BY <1>2, LoginsAsBefore
<1> QED
  BY <1>1, <1>3, <1>4, PlainReplyTrue

\* What SIZE and MLST are told of a key is so.
LEMMA ProbeServed ==
    ASSUME FilesTyped, NEW q \in Calls, NEW r, NEW p, NEW w, NEW a, Unchanged(q, w, a, files),
           Prepares(q, r, r.cmd), r.cmd.name \in {"SIZE", "MLST"},
           r.cmd.name = "SIZE" => p.code = IF IsFile(r.cmd.arg) THEN 213 ELSE 550,
           r.cmd.name = "MLST" =>
               /\ p.code = IF IsFile(r.cmd.arg) \/ IsDir(r.cmd.arg) THEN 250 ELSE 550
               /\ p.info = [file |-> IsFile(r.cmd.arg)]
    PROVE  Telling(q, r, p, w, a, files)
<1>1. q.op = "exists" /\ r.cmd.arg = q.key
  BY PreparesByName
<1>2. q.key \in Keys /\ KeysOf(q) = {q.key}
  BY <1>1, RequestForms
<1>3. Sure(w, a, q.key) => (IsFile(q.key) <=> w[q.key] # None)
  <2>1. Sure(w, a, q.key) => Agrees(files[q.key], w[q.key])
    BY <1>1, <1>2 DEF Unchanged, Reading
  <2> QED
    BY <1>2, <2>1, AgreesForms DEF IsFile
<1>4. IF IsFile(q.key) THEN Present(w, a, q.key) ELSE Absent(w, a, q.key)
  BY <1>3 DEF Present, Absent
<1>5. p.info = [file |-> TRUE] /\ r.cmd.name = "MLST" => IsFile(q.key)
  <2>1. \A x : [file |-> x].file = x
    OBVIOUS
  <2> QED
    BY <1>1, <2>1
<1>6. IsFile(q.key) /\ r.cmd.name = "MLST" => p.info = [file |-> TRUE]
  BY <1>1 DEF IsFile
<1> HIDE DEF IsFile
<1>7. r.cmd.name = "SIZE" /\ p.code = 213 => Present(w, a, q.key)
  BY <1>1, <1>4
<1>8. r.cmd.name = "MLST" /\ p.code = 250 =>
          IF p.info = [file |-> TRUE] THEN Present(w, a, q.key) ELSE Absent(w, a, q.key)
  BY <1>4, <1>5, <1>6
<1>9. p.code = 550 => Absent(w, a, q.key)
  BY <1>1, <1>4
<1> QED
  BY <1>1, <1>7, <1>8, <1>9 DEF Telling

LEMMA ServeSessionTrue ==
    ASSUME Own, AllInStep, AllFit, AllTrue, NEW b \in Blobs, ServeSession(b)
    PROVE  AllTrue'
<1> DEFINE l == link[b]
           c == Head(l.inbox)
<1>1. UNCHANGED <<th, callers, server>> /\ Pending(b)
  BY DEF ServeSession, Serves
<1>2. ASSUME NEW code, NEW info, Answers(b, code, info),
             c.name \in {"CWD", "TYPE", "FEAT"}
      PROVE  AllTrue'
  <2>1. AnswersAs(b, code, info, link[b].loggedIn)
    BY <1>2, LoginsAsBefore
  <2> QED
    BY <1>1, <1>2, <2>1, PlainReplyTrue
<1>3. ASSUME NEW code, NEW info, Answers(b, code, info), c.name \in {"SIZE", "MLST"},
             c.name = "SIZE" => code = IF IsFile(c.arg) THEN 213 ELSE 550,
             c.name = "MLST" => /\ code = IF IsFile(c.arg) \/ IsDir(c.arg) THEN 250 ELSE 550
                                /\ info = [file |-> IsFile(c.arg)]
      PROVE  AllTrue'
  <2>5. Tree' /\ files' = files
    BY <1>1 DEF AllTrue, Tree, server
  <2> DEFINE p == Reply(code, info)
  <2>4. p.code = code /\ p.info = info
    BY DEF Reply
  <2> HIDE DEF p
  <2>6. ASSUME NEW t \in Threads, Uses[t] = b
        PROVE  Telling(call[t], th[t], p, was[t], alone[t], files')
    <3>1. /\ Unchanged(call[t], was[t], alone[t], files) /\ c = th[t].cmd /\ call[t] \in Calls
          /\ Plain(th[t].cmd.name) => Prepares(call[t], th[t], th[t].cmd)
      BY <1>1, <2>6, AskedThread
    <3>2. Plain("SIZE") /\ Plain("MLST")
      BY DEF Plain, Transfers, Logins, Ends
    <3>3. FilesTyped
      BY DEF AllFit
    <3> HIDE DEF c
    <3>4. /\ Prepares(call[t], th[t], th[t].cmd) /\ th[t].cmd.name \in {"SIZE", "MLST"}
          /\ th[t].cmd.name = "SIZE" => p.code = IF IsFile(th[t].cmd.arg) THEN 213 ELSE 550
          /\ th[t].cmd.name = "MLST" =>
                /\ p.code = IF IsFile(th[t].cmd.arg) \/ IsDir(th[t].cmd.arg) THEN 250 ELSE 550
                /\ p.info = [file |-> IsFile(th[t].cmd.arg)]
      BY <1>3, <2>4, <3>1, <3>2
    <3>5. Telling(call[t], th[t], p, was[t], alone[t], files)
      BY <3>1, <3>3, <3>4, ProbeServed
    <3> QED
      BY <2>5, <3>5
  <2> QED
    <3>1. \A t \in Threads : Leaves(call[t], files, files')
      BY <2>5 DEF Leaves
    <3> QED
      BY <1>1, <1>3, <2>5, <2>6, <3>1, AnswerTrue DEF p
<1>4. \/ Serves(b, "CWD") /\ Answers(b, 250, None)
      \/ Serves(b, "TYPE") /\ Answers(b, 200, None)
      \/ Serves(b, "FEAT") /\ Answers(b, 211, ServerFeatures)
      \/ Serves(b, "SIZE") /\ Answers(b, IF IsFile(Told(b)) THEN 213 ELSE 550, None)
      \/ Serves(b, "MLST") /\ Answers(b, IF IsFile(Told(b)) \/ IsDir(Told(b)) THEN 250 ELSE 550,
                                      [file |-> IsFile(Told(b))])
  BY DEF ServeSession
<1>5. Told(b) = c.arg /\ \A name : Serves(b, name) => c.name = name
  BY DEF Told, Serves
<1> HIDE DEF c
<1> QED
  BY <1>2, <1>3, <1>4, <1>5

LEMMA ServeQuitTrue ==
    ASSUME Own, AllInStep, AllFit, AllTrue, NEW b \in Blobs, ServeQuit(b)
    PROVE  AllTrue'
<1> DEFINE l == link[b]
           p == Reply(221, None)
           e == [l EXCEPT !.wire = Append(@, p)]
           m == Ended(e)
<1>1. UNCHANGED <<th, callers, server>> /\ Pending(b) /\ link' = [link EXCEPT ![b] = m]
  BY DEF ServeQuit, Serves
<1>2. IsLink(l)
  BY DEF AllInStep
<1>3. IsLink(e) /\ e.wire = Append(l.wire, p) /\ e.buffer = l.buffer
  BY <1>2 DEF IsLink
<1> HIDE DEF e
<1>4. m.inbox = <<>> /\ m.transfer = None /\ m.buffer = l.buffer /\ m.wire = Append(l.wire, p)
  BY <1>3, EndedForm
<1>5. p.code \notin {213, 250, 550}
  BY DEF Reply
<1> HIDE DEF m, p, l
<1>6. m.inbox \in {<<>>, Tail(l.inbox)}
  BY <1>4
<1>7. \/ p.code \notin {213, 250, 550}
      \/ Head(link[b].inbox).name \notin {"DELE", "SIZE", "MLST", "RETR", "LIST"}
  BY <1>5
<1> QED
  BY <1>1, <1>4, <1>6, <1>7, PlainAnswersTrue DEF l

LEMMA ServePasvTrue ==
    ASSUME Own, AllInStep, AllFit, AllTrue, NEW b \in Blobs, ServePasv(b)
    PROVE  AllTrue'
<1> DEFINE l == link[b]
<1>1. PICK o \in Ports :
        link' = [link EXCEPT
            ![b].inbox = Tail(@),
            ![b].wire = Append(@, Reply(227, [port |-> o])),
            ![b].listen = o,
            ![b].chan = [q \in Ports |->
                IF q = o THEN Chan("listen", None)
                ELSE IF @[q].state \in {"listen", "cut"} THEN Free ELSE @[q]]]
  BY DEF ServePasv
<1> DEFINE c == [q \in Ports |->
                IF q = o THEN Chan("listen", None)
                ELSE IF l.chan[q].state \in {"listen", "cut"} THEN Free ELSE l.chan[q]]
           p == Reply(227, [port |-> o])
           m == [l EXCEPT !.inbox = Tail(@), !.wire = Append(@, p), !.listen = o, !.chan = c]
<1>2. /\ IsLink(l) /\ l.transfer = None /\ Pending(b) /\ UNCHANGED <<th, callers, server>>
  BY DEF AllInStep, ServePasv, Serves, Pending
<1>3. link' = [link EXCEPT ![b] = m]
  BY <1>1
<1>4. p.code \notin {213, 250, 550}
  BY DEF Reply
<1> HIDE DEF c, p
<1>5. /\ m.transfer = None /\ m.inbox = Tail(l.inbox) /\ m.buffer = l.buffer
      /\ m.wire = Append(l.wire, p)
  BY <1>2 DEF IsLink
<1> HIDE DEF m, l
<1>6. m.inbox \in {<<>>, Tail(l.inbox)}
  BY <1>5
<1>7. \/ p.code \notin {213, 250, 550}
      \/ Head(link[b].inbox).name \notin {"DELE", "SIZE", "MLST", "RETR", "LIST"}
  BY <1>4
<1> QED
  BY <1>2, <1>3, <1>5, <1>6, <1>7, PlainAnswersTrue DEF l

LEMMA ServeDeleTrue ==
    ASSUME Own, AllInStep, AllFit, AllTrue, NEW b \in Blobs, ServeDele(b)
    PROVE  AllTrue'
<1> DEFINE l == link[b]
           code == IF IsFile(Told(b)) THEN 250 ELSE 550
           p == Reply(code, None)
<1>1. /\ UNCHANGED <<dirs, th, callers>> /\ Pending(b) /\ Head(l.inbox).name = "DELE"
      /\ files' = [files EXCEPT ![Told(b)] = None]
      /\ Answers(b, code, None)
  BY DEF ServeDele, Serves
<1>5. FilesTyped /\ \A k \in Keys : files'[k] = IF k = Told(b) THEN None ELSE files[k]
  BY <1>1 DEF AllFit, FilesTyped
<1>6. Tree'
  BY <1>1, <1>5 DEF AllTrue, Tree
<1>2. p.code = code
  BY DEF Reply
<1> HIDE DEF p
<1>7. ASSUME NEW t \in Threads, Uses[t] = b
      PROVE  /\ Leaves(call[t], files, files')
             /\ Telling(call[t], th[t], p, was[t], alone[t], files')
  <2> DEFINE q == call[t]
             r == th[t]
             w == was[t]
             a == alone[t]
  <2>1. /\ Unchanged(q, w, a, files) /\ Head(l.inbox) = r.cmd /\ q \in Calls
        /\ Told(b) = r.cmd.arg /\ (Plain(r.cmd.name) => Prepares(q, r, r.cmd))
    BY <1>1, <1>7, AskedThread
  <2>2. r.cmd.name = "DELE" /\ Plain("DELE")
    BY <1>1, <2>1 DEF Plain, Transfers, Logins, Ends
  <2>3. q.op = "delete" /\ Told(b) = q.key
    BY <2>1, <2>2, PreparesByName
  <2>4. q.key \in Keys /\ KeysOf(q) = {q.key}
    BY <2>1, <2>3, RequestForms
  <2>5. Sure(w, a, q.key) => Agrees(files[q.key], w[q.key])
    BY <2>1, <2>3, <2>4 DEF Unchanged
  <2>6. Sure(w, a, q.key) => (IsFile(q.key) <=> w[q.key] # None)
    BY <2>4, <2>5, AgreesForms DEF IsFile
  <2>7. /\ p.code = 550 => Absent(w, a, q.key)
        /\ p.code = 250 => Present(w, a, q.key)
    BY <1>2, <2>3, <2>6 DEF Present, Absent
  <2>8. files'[q.key] = None
    BY <1>5, <2>3, <2>4
  <2>9. Telling(q, r, p, w, a, files')
    BY <2>2, <2>3, <2>7, <2>8 DEF Telling
  <2> QED
    BY <1>5, <2>3, <2>9 DEF Leaves, Mutators
<1> HIDE DEF code
<1> QED
  BY <1>1, <1>6, <1>7, AnswerTrue DEF p

\* A directory is made where the one it is in is.
LEMMA TreeGrows ==
    ASSUME Tree, FilesTyped, NEW k \in Keys, NEW j \in 1 .. Len(k) - 1, IsDir(Parent(Prefix(k, j))),
           ~ IsFile(Prefix(k, j)), dirs' = dirs \cup {Prefix(k, j)}, files' = files
    PROVE  Tree'
<1> DEFINE d == Prefix(k, j)
<1>1. k \in Seq(STRING) /\ Len(k) \in Nat
  BY ParentsForm
<1>2. j \in 1 .. Len(k) /\ j \in 0 .. Len(k) /\ j - 1 \in 0 .. Len(k)
  BY <1>1
<1>3. Len(d) = j /\ Parent(d) = Prefix(k, j - 1) /\ Len(Prefix(k, j - 1)) = j - 1
  BY <1>1, <1>2, PrefixForms, ParentOfPrefix
<1>4. ASSUME NEW i \in 1 .. j - 1 PROVE Prefix(d, i) \in dirs
  <2>1. Prefix(d, i) = Prefix(k, i) /\ Prefix(Parent(d), i) = Prefix(k, i)
    <3>1. i \in 0 .. j /\ i \in 0 .. j - 1
      BY <1>2
    <3> QED
      BY <1>1, <1>2, <1>3, <3>1, PrefixOfPrefix
  <2>2. Parent(d) \in dirs
    <3>1. Parent(d) # <<>>
      BY <1>2, <1>3, EmptySeq
    <3> QED
      BY <3>1 DEF IsDir
  <2>3. CASE i = j - 1
    BY <1>3, <2>1, <2>2, <2>3
  <2>4. CASE i # j - 1
    <3>1. i \in 1 .. Len(Parent(d)) - 1
      BY <1>2, <1>3, <2>4
    <3> QED
      BY <2>1, <2>2, <3>1 DEF Tree
  <2> QED
    BY <2>3, <2>4
<1> HIDE DEF d
<1>5. \A x \in dirs' : \A i \in 1 .. Len(x) - 1 : Prefix(x, i) \in dirs'
  BY <1>3, <1>4 DEF Tree, d
<1>6. \A x \in Keys : files'[x] # None =>
          x \notin dirs' /\ \A i \in 1 .. Len(x) - 1 : Prefix(x, i) \in dirs'
  BY DEF Tree, IsFile, d
<1> QED
  BY <1>5, <1>6 DEF Tree

LEMMA ServeMkdTrue ==
    ASSUME Own, AllInStep, AllFit, AllTrue, NEW b \in Blobs, ServeMkd(b)
    PROVE  AllTrue'
<1> DEFINE l == link[b]
           made == IsDir(Parent(Told(b))) /\ ~ IsDir(Told(b)) /\ ~ IsFile(Told(b))
           code == IF made THEN 257 ELSE 550
           p == Reply(code, None)
<1>1. /\ UNCHANGED <<files, th, callers>> /\ Pending(b) /\ Head(l.inbox).name = "MKD"
      /\ dirs' = IF made THEN dirs \cup {Told(b)} ELSE dirs
      /\ Answers(b, code, None)
  BY DEF ServeMkd, Serves
<1>4. PICK t \in Threads : Uses[t] = b
  BY <1>1 DEF AllInStep, Unused, Pending
<1> HIDE DEF p
<1>5. ASSUME NEW u \in Threads, Uses[u] = b
      PROVE  Telling(call[u], th[u], p, was[u], alone[u], files')
  <2>1. Unchanged(call[u], was[u], alone[u], files) /\ th[u].cmd.name = "MKD"
    BY <1>1, <1>5, AskedThread
  <2> QED
    BY <1>1, <2>1, PlainTelling
<1>6. Tree'
  <2> DEFINE q == call[t]
             r == th[t]
             k == q.key
  <2>1. /\ Follows(q, r) /\ q \in Calls /\ Head(l.inbox) = r.cmd /\ Told(b) = r.cmd.arg
        /\ Plain(r.cmd.name) => Prepares(q, r, r.cmd)
    BY <1>1, <1>4, AskedThread
  <2>2. Plain("MKD")
    BY DEF Plain, Transfers, Logins, Ends
  <2>3. q.op = "put" /\ r.rest # <<>> /\ Told(b) = Head(r.rest)
    BY <1>1, <2>1, <2>2, PreparesByName
  <2>4. k \in Keys /\ Suffix(r.rest, Parents(k))
    BY <2>1, <2>3, RequestForms DEF Follows, Whole
  <2> HIDE DEF k
  <2> DEFINE w == Parents(k)
             i == Len(w) - Len(r.rest) + 1
  <2>5. w \in Seq(AllDirs) /\ Len(w) = Len(k) - 1 /\ Len(k) \in Nat
        /\ \A x \in 1 .. Len(k) - 1 : w[x] = Prefix(k, x)
    BY <2>4, ParentsForm
  <2> HIDE DEF w
  <2>6. Len(r.rest) \in 1 .. Len(w) /\ Head(r.rest) = w[i]
    BY <2>3, <2>4, <2>5, SuffixForms DEF w
  <2>7. i \in 1 .. Len(k) - 1
    BY <2>5, <2>6
  <2> HIDE DEF i
  <2>8. Told(b) = Prefix(k, i)
    BY <2>3, <2>5, <2>6, <2>7
  <2>9. CASE made
    BY <1>1, <2>4, <2>7, <2>8, <2>9, TreeGrows DEF AllTrue, AllFit
  <2>10. CASE ~ made
    BY <1>1, <2>10 DEF AllTrue, Tree
  <2> QED
    BY <2>9, <2>10
<1>7. \A u \in Threads : Leaves(call[u], files, files')
  BY <1>1 DEF Leaves
<1> HIDE DEF code
<1> QED
  BY <1>1, <1>5, <1>6, <1>7, AnswerTrue DEF p

\* The end of a connection: what was said stands, what has come stays.
LEMMA DropsTruly ==
    ASSUME NEW q, NEW r, NEW l, NEW m, NEW w, NEW a, NEW f, Truthful(q, r, l, w, a, f), InStep(r, l),
           l.sock = "open", m.transfer = None, m.inbox = <<>>, m.wire = l.wire, m.buffer = l.buffer,
           Busy(r) => Asks(q, r),
           \A p \in Ports : l.chan[p].state = "received" => m.chan[p] = l.chan[p]
    PROVE  Truthful(q, r, m, w, a, f)
<1> SUFFICES ASSUME Busy(r)
             PROVE  /\ IF Deleting(q, r, m) THEN Deleted(q, m, w, a, f) ELSE Unchanged(q, w, a, f)
                    /\ r.pc = "await" => Said(q, r, m, w, a)
                    /\ Carried(q, r, m, w, a, f) /\ Completes(q, r, m, w, a)
                    /\ Completed(q, r, m, w, a, f) /\ Bottom(q, r, w, a)
  BY DEF Truthful
<1>1. /\ \A p : OneReply(m, p) <=> OneReply(l, p)
      /\ \A p, s : TwoReplies(m, p, s) <=> TwoReplies(l, p, s)
  BY DEF OneReply, TwoReplies
<1>2. Deleting(q, r, m) => Deleted(q, m, w, a, f)
  <2>1. CASE l.inbox = <<>>
    BY <1>1, <2>1 DEF Truthful, Deleting, Deleted
  <2>2. CASE l.inbox # <<>>
    <3>1. Silent(l)
      BY <2>2 DEF InStep, Between, ToSend, ToDial, Asking, Lost, AskingTransfer, Moving, Ending, Asked,
                  Gone, AtRest, NoWork, Running, Finishing
    <3>2. \A p : ~ OneReply(m, p)
      BY <1>1, <3>1, RepliesApart
    <3> QED
      BY <3>2 DEF Deleted
  <2> QED
    BY <2>1, <2>2
<1>3. ~ Deleting(q, r, m) => Unchanged(q, w, a, f)
  BY DEF Truthful, Deleting
<1>4. r.pc = "await" => Said(q, r, m, w, a)
  BY <1>1 DEF Truthful, Said
<1>5. Completes(q, r, m, w, a)
  <2> SUFFICES ASSUME r.cmd.name \in Transfers, NEW s, Closing(r, m, s), s.code = 226
               PROVE  /\ q.op # "put" /\ m.chan[r.port].state = "received"
                      /\ Brings(q, r, w, a, m.chan[r.port].data)
    BY DEF Completes
  <2>1. Closing(r, l, s) /\ r.pc \in {"await", "data", "fill"}
    BY <1>1 DEF Closing
  <2>2. /\ q.op # "put" /\ l.chan[r.port].state = "received"
        /\ Brings(q, r, w, a, l.chan[r.port].data)
    BY <2>1 DEF Truthful, Completes
  <2>3. r.port \in Ports
    <3>1. r.pc = "await" => r.port \in Ports
      BY AsksByName
    <3> QED
      BY <2>1, <3>1 DEF Asks
  <2> QED
    BY <2>2, <2>3
<1>6. Carried(q, r, m, w, a, f) /\ Completed(q, r, m, w, a, f) /\ Bottom(q, r, w, a)
  BY <1>1 DEF Truthful, Carried, Completed
<1> QED
  BY <1>2, <1>3, <1>4, <1>5, <1>6

LEMMA DropTrue ==
    ASSUME Own, AllInStep, AllFit, AllTrue, NEW b \in Blobs, Drop(b)
    PROVE  AllTrue'
<1> DEFINE l == link[b]
           e == Ended(l)
           c == [p \in Ports |->
                  CASE l.chan[p].state = "received"  -> l.chan[p]
                    [] l.chan[p].state = "connected" -> Chan("received", Torn)
                    [] OTHER                         -> Free]
<1>0. PICK bye \in {None, "421", "part"} : link' = [link EXCEPT ![b] = [e EXCEPT !.bye = bye]]
  BY DEF Drop
<1> DEFINE m == [e EXCEPT !.bye = bye]
<1>1. /\ IsLink(l) /\ l.sock = "open" /\ link' = [link EXCEPT ![b] = m]
      /\ UNCHANGED <<th, callers>> /\ UNCHANGED <<files, dirs>>
  BY <1>0 DEF AllInStep, Drop, server
<1>2. /\ m.transfer = None /\ m.inbox = <<>> /\ m.buffer = l.buffer /\ m.wire = l.wire
      /\ m.chan = e.chan
  <2>1. /\ IsLink(m) /\ m.sock = "dropped" /\ m.inbox = <<>> /\ m.transfer = None
        /\ m.buffer = l.buffer /\ m.wire = l.wire /\ m.listen = None /\ m.left = l.left
        /\ m.chan = Ended(l).chan /\ m.flavour = Ended(l).flavour
    BY <1>1, DroppedForm
  <2> QED
    BY <2>1
<1> HIDE DEF m
<1>3. \A p \in Ports : l.chan[p].state = "received" => m.chan[p] = l.chan[p]
  <2>1. e = [l EXCEPT !.sock = "dropped", !.inbox = <<>>, !.transfer = None, !.listen = None,
                      !.chan = c]
    BY <1>1 DEF Ended, IsLink
  <2>2. \A p \in Ports : l.chan[p].state = "received" => c[p] = l.chan[p]
    OBVIOUS
  <2> HIDE DEF c, e
  <2>3. e.chan = c
    BY <1>1, <2>1 DEF IsLink
  <2> QED
    BY <1>2, <2>2, <2>3
<1> HIDE DEF e, c
<1>4. Tree'
  BY <1>1 DEF AllTrue, Tree
<1>5. ASSUME NEW t \in Threads, Uses[t] = b
      PROVE  Truthful(call[t], th[t], m, was[t], alone[t], files')
  <2>1. /\ Truthful(call[t], th[t], l, was[t], alone[t], files) /\ InStep(th[t], l)
        /\ Busy(th[t]) => Asks(call[t], th[t])
    BY <1>5, CallOfThread DEF AllTrue, Link, Busy
  <2>2. Truthful(call[t], th[t], m, was[t], alone[t], files)
    BY <1>1, <1>2, <1>3, <2>1, DropsTruly
  <2> QED
    BY <1>1, <2>2
<1>6. \A t \in Threads : Uses[t] = b =>
          \/ files' = files
          \/ /\ Busy(th[t]) /\ call[t].op \in Mutators
             /\ \A k \in Keys \ {call[t].key} : files'[k] = files[k]
  BY <1>1
<1>7. \A t \in Threads : Uses[t] = b /\ Busy(th[t]) =>
          Truthful(call[t], th[t], m, was[t], alone[t], files')
  BY <1>5
<1> QED
  BY <1>1, <1>4, <1>6, <1>7, ServerTrue

-----------------------------------------------------------------------------
(* Transfers, the server's side. *)

\* A listing taken while nothing changes tells what is known of the keys.
LEMMA ListingTells ==
    ASSUME FilesTyped, Tree, NEW q \in Calls, q.op \in {"exists", "scan"}, NEW r, NEW w, NEW a,
           Unchanged(q, w, a, files)
    PROVE  Tells(q, r, w, a, Listing(Where(q, r)))
<1> DEFINE p == Where(q, r)
<1>1. Listing(p) \in Listings
  BY ListingTyped
<1> HIDE DEF p
<1>2. ASSUME NEW k \in KeysOf(q), Sure(w, a, k)
      PROVE  /\ \A e \in Listing(p) : e.path = k => (e.isDir <=> w[k] = None)
             /\ w[k] # None /\ Parent(k) = p => [path |-> k, isDir |-> FALSE] \in Listing(p)
             /\ w[k] # None => \A i \in 1 .. Len(k) - 1 :
                   Parent(Prefix(k, i)) = p => [path |-> Prefix(k, i), isDir |-> TRUE] \in Listing(p)
  <2>1. k \in Keys
    BY RequestForms
  <2>2. files[k] = None <=> w[k] = None
    BY <1>2, AgreesForms DEF Unchanged, Reading
  <2>3. w[k] # None => IsFile(k) /\ k \notin dirs /\ \A i \in 1 .. Len(k) - 1 : Prefix(k, i) \in dirs
    BY <2>1, <2>2 DEF Tree, IsFile
  <2>4. ASSUME NEW e \in Listing(p), e.path = k PROVE e.isDir <=> w[k] = None
    <3>1. PICK x \in Keys \cup AllDirs :
            /\ IsFile(x) \/ x \in dirs
            /\ e = [path |-> x, isDir |-> x \in dirs]
      BY <2>4 DEF Listing
    <3>2. e.path = x /\ e.isDir = (x \in dirs)
      BY <3>1
    <3>3. x = k
      BY <2>4, <3>2
    <3>4. k \notin dirs => files[k] # None
      BY <3>1, <3>3 DEF IsFile
    <3> QED
      BY <2>2, <2>3, <3>2, <3>3, <3>4
  <2>5. w[k] # None /\ Parent(k) = p => [path |-> k, isDir |-> FALSE] \in Listing(p)
    <3> SUFFICES ASSUME w[k] # None, Parent(k) = p
                 PROVE  [path |-> k, isDir |-> FALSE] \in Listing(p)
      OBVIOUS
    <3>1. k \in {x \in Keys \cup AllDirs : (IsFile(x) \/ x \in dirs) /\ Parent(x) = p}
      BY <2>1, <2>3
    <3>2. [path |-> k, isDir |-> k \in dirs] \in Listing(p)
      BY <3>1 DEF Listing
    <3>3. (k \in dirs) = FALSE
      BY <2>3
    <3> QED
      BY <3>2, <3>3
  <2>6. ASSUME w[k] # None, NEW i \in 1 .. Len(k) - 1, Parent(Prefix(k, i)) = p
        PROVE  [path |-> Prefix(k, i), isDir |-> TRUE] \in Listing(p)
    <3> DEFINE d == Prefix(k, i)
    <3>1. d \in dirs /\ d \in AllDirs
      BY <2>1, <2>3, <2>6, ParentsForm
    <3> HIDE DEF d
    <3>2. d \in {x \in Keys \cup AllDirs : (IsFile(x) \/ x \in dirs) /\ Parent(x) = p}
      BY <2>6, <3>1 DEF d
    <3>3. [path |-> d, isDir |-> d \in dirs] \in Listing(p)
      BY <3>2 DEF Listing
    <3>4. (d \in dirs) = TRUE
      BY <3>1
    <3> QED
      BY <3>3, <3>4 DEF d
  <2> QED
    BY <2>4, <2>5, <2>6
<1> QED
  BY <1>1, <1>2 DEF Tells, p

LEMMA ContentBrings ==
    ASSUME FilesTyped, Tree, NEW q \in Calls, q.op # "put", NEW r, NEW c, Moves(q, r, c), NEW w, NEW a,
           Unchanged(q, w, a, files),
           Transferable(c.name, c.arg) \/ Content(c.name, c.arg) # None
    PROVE  Brings(q, r, w, a, Content(c.name, c.arg))
<1>1. CASE q.op = "get"
  <2>1. c.name = "RETR" /\ c.arg = q.key /\ q.key \in Keys /\ KeysOf(q) = {q.key}
    BY <1>1, MovesByName, RequestForms
  <2>2. Content(c.name, c.arg) = files[q.key] /\ files[q.key] # None
    BY <2>1 DEF Transferable, Content, IsFile
  <2>3. Sure(w, a, q.key) => Agrees(files[q.key], w[q.key])
    BY <1>1, <2>1 DEF Unchanged, Reading
  <2>4. Present(w, a, q.key)
    BY <2>2, <2>3, AgreesForms DEF Present
  <2> QED
    BY <1>1, <2>2, <2>3, <2>4 DEF Brings
<1>2. CASE q.op \in {"exists", "scan"}
  <2>1. c.name = "LIST" /\ c.arg = Where(q, r)
    BY <1>2, MovesByName
  <2>2. Content(c.name, c.arg) = Listing(Where(q, r))
    BY <2>1 DEF Content
  <2>3. Tells(q, r, w, a, Listing(Where(q, r)))
    BY <1>2, ListingTells
  <2> QED
    BY <1>2, <2>2, <2>3 DEF Brings
<1> QED
  BY <1>1, <1>2 DEF Moves

\* A file is stored where the directory it is in is.
LEMMA TreeTakes ==
    ASSUME Tree, FilesTyped, NEW k \in Keys, IsDir(Parent(k)), ~ IsDir(k), dirs' = dirs,
           \A x \in Keys \ {k} : files'[x] = files[x]
    PROVE  Tree'
<1>1. k \in Seq(STRING) /\ Len(k) \in Nat \ {0}
  BY ParentsForm
<1> DEFINE n == Len(k) - 1
           d == Prefix(k, n)
<1>2. n \in 0 .. Len(k)
  BY <1>1
<1>3. Parent(k) = d /\ Len(d) = n
  BY <1>1, <1>2, PrefixForms DEF Parent
<1>4. ASSUME NEW i \in 1 .. n PROVE Prefix(k, i) \in dirs
  <2>1. d \in dirs
    <3>1. d # <<>>
      BY <1>2, <1>3, EmptySeq
    <3> QED
      BY <1>3, <3>1 DEF IsDir
  <2>2. CASE i = n
    BY <2>1, <2>2
  <2>3. CASE i # n
    <3>1. i \in 0 .. n /\ i \in 1 .. Len(d) - 1
      BY <1>2, <1>3, <2>3
    <3>2. Prefix(d, i) = Prefix(k, i)
      BY <1>1, <1>2, <3>1, PrefixOfPrefix
    <3> QED
      BY <2>1, <3>1, <3>2 DEF Tree
  <2> QED
    BY <2>2, <2>3
<1>5. k \notin dirs
  BY DEF IsDir
<1> QED
  BY <1>4, <1>5 DEF Tree

\* What cannot be listed holds no key the call is about.
LEMMA NothingThere ==
    ASSUME FilesTyped, Tree, NEW q \in Calls, q.op \in {"exists", "scan"}, NEW r,
           Suffix(r.rest, Target(q)), ~ IsDir(Where(q, r)), NEW w, NEW a,
           Unchanged(q, w, a, files), Bottom(q, r, w, a), Lists(r)
    PROVE  Nothing(q, w, a)
<1> DEFINE s == Target(q)
           j == Len(s) - Len(r.rest)
<1> SUFFICES ASSUME NEW k \in KeysOf(q), q.op = "scan" => Parent(k) = q.prefix,
                    Sure(w, a, k), w[k] # None
             PROVE  FALSE
  BY DEF Nothing, Absent
<1>1. k \in Keys /\ (q.op = "exists" => k = q.key)
  BY RequestForms
<1>2. files[k] # None
  BY AgreesForms DEF Unchanged, Reading
<1>3. \A i \in 1 .. Len(k) - 1 : Prefix(k, i) \in dirs
  BY <1>1, <1>2 DEF Tree
<1>4. k \in Seq(STRING) /\ Len(k) \in Nat \ {0}
  BY <1>1, ParentsForm
<1>5. s \in Seq(STRING) /\ Len(s) \in Nat
  BY WhereForms, LenProperties
<1>6. Where(q, r) = Prefix(s, j)
  BY DEF Where
<1>7. Len(r.rest) \in 0 .. Len(s) /\ (r.rest = <<>> <=> Len(r.rest) = 0)
  BY <1>5, SuffixForms
<1>8. s = IF q.op = "scan" THEN Prefix(k, Len(k) - 1) ELSE k
  BY <1>1 DEF Target, Parent
<1>9. q.op = "exists" => r.rest # <<>>
  BY <1>1 DEF Bottom, Absent
<1> HIDE DEF s
<1>10. Len(k) - 1 \in 0 .. Len(k)
  BY <1>4
<1>11. Prefix(s, j) = Prefix(k, j) /\ j \in 0 .. Len(k) - 1
  <2>1. CASE q.op = "scan"
    <3>1. Len(s) = Len(k) - 1
      BY <1>4, <1>8, <1>10, <2>1, PrefixForms
    <3>2. j \in 0 .. Len(k) - 1
      BY <1>4, <1>7, <3>1
    <3> QED
      BY <1>4, <1>8, <1>10, <2>1, <3>2, PrefixOfPrefix
  <2>2. CASE q.op # "scan"
    BY <1>4, <1>7, <1>8, <1>9, <2>2
  <2> QED
    BY <2>1, <2>2
<1> HIDE DEF j
<1>12. CASE j = 0
  <2>1. Prefix(k, j) = <<>>
    BY <1>12, SubSeqEmpty DEF Prefix
  <2> QED
    BY <1>6, <1>11, <2>1 DEF IsDir
<1>13. CASE j # 0
  <2>1. j \in 1 .. Len(k) - 1
    BY <1>4, <1>11, <1>13
  <2> QED
    BY <1>3, <1>6, <1>11, <2>1 DEF IsDir
<1> QED
  BY <1>12, <1>13

\* A transfer begins: the reply says so and no more.
LEMMA StartsTruly ==
    ASSUME NEW q, NEW r, NEW m, NEW w, NEW a, NEW g, r.cmd.name \in Transfers,
           OneReply(m, Reply(150, None)), r.pc = "await",
           IF q.op = "put" THEN g[q.key] # None ELSE Brings(q, r, w, a, m.transfer.data),
           Unchanged(q, w, a, g), Bottom(q, r, w, a)
    PROVE  Truthful(q, r, m, w, a, g)
<1>1. \A s : (OneReply(m, s) => s.code = 150) /\ \A x : ~ TwoReplies(m, x, s)
  BY RepliesApart DEF Reply
<1>2. r.cmd.name \notin Ends \cup {"DELE"}
  BY DEF Transfers, Ends
<1>3. ~ Deleting(q, r, m)
  BY <1>2 DEF Deleting
<1>4. Said(q, r, m, w, a)
  BY <1>1 DEF Said
<1>5. Carried(q, r, m, w, a, g)
  BY DEF Carried
<1>6. Completes(q, r, m, w, a) /\ Completed(q, r, m, w, a, g)
  BY <1>1, <1>2 DEF Completes, Completed, Closing, Ends
<1> QED
  BY <1>3, <1>4, <1>5, <1>6 DEF Truthful

LEMMA StartTrue ==
    ASSUME Own, NoneIsNoRecord, AllInStep, AllFit, AllTrue, NEW b \in Blobs, NEW name \in Transfers,
           StartTransfer(b, name)
    PROVE  AllTrue'
<1> DEFINE l == link[b]
           tr == [cmd |-> Head(l.inbox), port |-> l.listen, data |-> Content(name, Told(b))]
           p == Reply(150, None)
           m == [l EXCEPT !.inbox = Tail(@), !.wire = Append(@, p), !.transfer = tr]
           able == Transferable(name, Told(b))
<1>1. /\ IsLink(l) /\ l.sock = "open" /\ l.transfer = None /\ l.inbox # <<>>
      /\ Head(l.inbox).name = name /\ Pending(b) /\ UNCHANGED <<th, callers, dirs>>
  BY DEF AllInStep, StartTransfer, Serves, Pending
<1>2. FilesTyped /\ Tree
  BY DEF AllFit, AllTrue
<1>3. ASSUME NEW t \in Threads, Uses[t] = b
      PROVE  LET q == call[t]
                 r == th[t]
             IN
             /\ r.pc = "await" /\ Busy(r) /\ q \in Calls /\ r.cmd = Head(l.inbox)
             /\ r.cmd.name = name /\ Told(b) = r.cmd.arg /\ Silent(l) /\ Tail(l.inbox) = <<>>
             /\ Moves(q, r, r.cmd) /\ Unchanged(q, was[t], alone[t], files)
             /\ Bottom(q, r, was[t], alone[t]) /\ Follows(q, r)
  BY <1>1, <1>3, AskedThread
<1>4. CASE able /\ Attached(b)
  <2>1. /\ link' = [link EXCEPT ![b] = m]
        /\ files' = IF name = "STOR" THEN [files EXCEPT ![Told(b)] = Torn] ELSE files
    BY <1>1, <1>4 DEF AllInStep, StartTransfer
  <2>2. tr.data = Content(name, Told(b)) /\ able
    BY <1>4
  <2> HIDE DEF tr, p
  <2>3. /\ m.transfer = tr /\ m.inbox = Tail(l.inbox) /\ m.buffer = l.buffer
        /\ m.wire = Append(l.wire, p)
    BY <1>1 DEF IsLink
  <2> HIDE DEF m, l
  <2>4. ASSUME NEW t \in Threads, Uses[t] = b, name = "STOR"
        PROVE  /\ call[t].op = "put" /\ call[t].key = Told(b) /\ call[t].key \in Keys
               /\ files' = [files EXCEPT ![call[t].key] = Torn]
               /\ \A k \in Keys \ {call[t].key} : files'[k] = files[k]
               /\ IsDir(Parent(call[t].key)) /\ ~ IsDir(call[t].key)
    <3>1. call[t].op = "put" /\ call[t].key = Told(b) /\ call[t].key \in Keys
      BY <1>3, <2>4, MovesByName, RequestForms
    <3>2. IsDir(Parent(Told(b))) /\ ~ IsDir(Told(b))
      BY <2>2, <2>4 DEF Transferable
    <3>3. files' = [files EXCEPT ![call[t].key] = Torn]
      BY <2>1, <2>4, <3>1
    <3>4. \A k \in Keys \ {call[t].key} : files'[k] = files[k]
      BY <1>2, <3>3 DEF FilesTyped
    <3> QED
      BY <3>1, <3>2, <3>3, <3>4
  <2>5. Tree'
    <3>1. CASE name # "STOR"
      BY <1>1, <1>2, <2>1, <3>1 DEF Tree
    <3>2. CASE name = "STOR"
      <4>1. PICK t \in Threads : Uses[t] = b
        BY <1>1 DEF AllInStep, Unused, AtRest, NoWork, l
      <4>2. \A x \in Keys \ {call[t].key} : files'[x] = files[x]
        BY <2>4, <3>2, <4>1
      <4> QED
        BY <1>1, <1>2, <2>4, <3>2, <4>1, <4>2, TreeTakes
    <3> QED
      BY <3>1, <3>2
  <2>6. ASSUME NEW t \in Threads, Uses[t] = b
        PROVE  Truthful(call[t], th[t], m, was[t], alone[t], files')
    <3> DEFINE q == call[t]
               r == th[t]
               w == was[t]
               a == alone[t]
    <3>1. OneReply(m, p)
      BY <1>3, <2>3, <2>6, SequencesOfOne DEF Silent, OneReply
    <3>2. r.pc = "await" /\ r.cmd.name \in Transfers /\ Moves(q, r, r.cmd) /\ q \in Calls
          /\ Unchanged(q, w, a, files) /\ Bottom(q, r, w, a)
      BY <1>3, <2>6
    <3>3. Unchanged(q, w, a, files')
      <4>1. CASE name = "STOR"
        <5>1. q.op = "put"
          BY <2>4, <2>6, <4>1
        <5> QED
          BY <5>1 DEF Unchanged, Reading
      <4>2. CASE name # "STOR"
        BY <2>1, <3>2, <4>2
      <4> QED
        BY <4>1, <4>2
    <3>4. IF q.op = "put" THEN files'[q.key] # None ELSE Brings(q, r, w, a, m.transfer.data)
      <4>1. CASE q.op = "put"
        <5>1. name = "STOR"
          BY <1>3, <2>6, <4>1, MovesByName
        <5>2. files'[q.key] = Torn
          BY <1>2, <2>4, <2>6, <5>1 DEF FilesTyped
        <5> QED
          BY <4>1, <5>2, ValuesAssumption
      <4>2. CASE q.op # "put"
        <5>1. r.cmd.name = name /\ Told(b) = r.cmd.arg
          BY <1>3, <2>6
        <5>2. Transferable(r.cmd.name, r.cmd.arg)
          BY <2>2, <5>1
        <5>3. Brings(q, r, w, a, Content(r.cmd.name, r.cmd.arg))
          BY <1>2, <3>2, <4>2, <5>2, ContentBrings
        <5> QED
          BY <2>2, <2>3, <4>2, <5>1, <5>3
      <4> QED
        BY <4>1, <4>2
    <3> HIDE DEF q, r, w, a
    <3> QED
      BY <3>1, <3>2, <3>3, <3>4, StartsTruly DEF p, q, r, w, a
  <2>7. \A t \in Threads : Uses[t] = b =>
            \/ files' = files
            \/ /\ Busy(th[t]) /\ call[t].op \in Mutators
               /\ \A k \in Keys \ {call[t].key} : files'[k] = files[k]
    <3> SUFFICES ASSUME NEW t \in Threads, Uses[t] = b, name = "STOR"
                 PROVE  /\ Busy(th[t]) /\ call[t].op \in Mutators
                        /\ \A k \in Keys \ {call[t].key} : files'[k] = files[k]
      BY <2>1
    <3> QED
      BY <1>3, <2>4 DEF Mutators
  <2>8. \A t \in Threads : Uses[t] = b /\ Busy(th[t]) =>
            Truthful(call[t], th[t], m, was[t], alone[t], files')
    BY <2>6
  <2>9. link[b].sock = "open" \/ link[b].transfer # None
    BY <1>1 DEF l
  <2> QED
    BY <1>1, <2>1, <2>5, <2>7, <2>8, <2>9, ServerTrue
<1>5. CASE ~ (able /\ Attached(b))
  <2>1. Answers(b, IF able THEN 425 ELSE 550, None) /\ UNCHANGED <<th, callers, server>>
    BY <1>1, <1>5 DEF StartTransfer, server
  <2> HIDE DEF l
  <2>2. CASE able
    <3>1. AnswersAs(b, 425, None, link[b].loggedIn)
      BY <2>1, <2>2, LoginsAsBefore
    <3> HIDE DEF able
    <3> QED
      BY <1>1, <2>1, <3>1, PlainReplyTrue
  <2>3. CASE ~ able
    <3> DEFINE s == Reply(550, None)
    <3>1. Answers(b, 550, None) /\ Tree' /\ files' = files
      BY <1>2, <2>1, <2>3 DEF Tree, server
    <3>2. ASSUME NEW t \in Threads, Uses[t] = b
          PROVE  Leaves(call[t], files, files') /\ Telling(call[t], th[t], s, was[t], alone[t], files')
      <4> DEFINE q == call[t]
                 r == th[t]
                 w == was[t]
                 a == alone[t]
      <4>1. /\ r.cmd.name = name /\ Moves(q, r, r.cmd) /\ q \in Calls /\ Told(b) = r.cmd.arg
            /\ Unchanged(q, w, a, files) /\ Bottom(q, r, w, a) /\ Follows(q, r)
        BY <1>3, <3>2
      <4>2. name \in Transfers /\ name \notin {"DELE", "SIZE", "MLST"}
        BY DEF Transfers
      <4>3. name = "RETR" => Absent(w, a, q.key)
        <5> SUFFICES ASSUME name = "RETR" PROVE Absent(w, a, q.key)
          OBVIOUS
        <5>1. q.op = "get" /\ r.cmd.arg = q.key /\ q.key \in Keys /\ KeysOf(q) = {q.key}
          BY <4>1, MovesByName, RequestForms
        <5>2. files[q.key] = None
          BY <2>3, <4>1, <5>1 DEF Transferable, IsFile
        <5>3. Sure(w, a, q.key) => Agrees(files[q.key], w[q.key])
          BY <4>1, <5>1 DEF Unchanged, Reading
        <5> QED
          BY <5>2, <5>3, AgreesForms DEF Absent
      <4>4. name = "LIST" => Nothing(q, w, a)
        <5> SUFFICES ASSUME name = "LIST" PROVE Nothing(q, w, a)
          OBVIOUS
        <5>1. q.op \in {"exists", "scan"} /\ r.cmd.arg = Where(q, r)
          BY <4>1, MovesByName
        <5>2. ~ IsDir(Where(q, r))
          BY <2>3, <4>1, <5>1 DEF Transferable
        <5>3. Suffix(r.rest, Target(q))
          <6>1. Whole(q) = Target(q)
            BY <5>1 DEF Whole
          <6> QED
            BY <4>1, <6>1 DEF Follows
        <5>4. Lists(r)
          BY <4>1 DEF Lists
        <5> HIDE DEF q, r, w, a
        <5> QED
          BY <1>2, <4>1, <5>1, <5>2, <5>3, <5>4, NothingThere
      <4> HIDE DEF q, r, w, a
      <4>5. Telling(q, r, s, w, a, files)
        BY <4>1, <4>2, <4>3, <4>4 DEF Telling, Reply
      <4> QED
        BY <3>1, <4>5 DEF Leaves, q, r, w, a
    <3>3. \A t \in Threads : Uses[t] = b =>
              /\ Leaves(call[t], files, files')
              /\ Telling(call[t], th[t], Reply(550, None), was[t], alone[t], files')
      BY <3>2
    <3> QED
      BY <1>1, <3>1, <3>3, AnswerTrue
  <2> QED
    BY <2>2, <2>3
<1> QED
  BY <1>4, <1>5

\* The reply that ends a transfer is the only one left, or follows the one
\* that began it.
LEMMA EndReplies ==
    ASSUME NEW r, NEW l, NEW m, NEW p, InStep(r, l), l.transfer # None,
           m.buffer = l.buffer, m.wire = Append(l.wire, p)
    PROVE  IF r.pc = "await" /\ r.cmd.name \in Transfers THEN \E x : TwoReplies(m, x, p)
           ELSE OneReply(m, p)
<1>1. \/ AskingTransfer(r, l) /\ Running(r, l)
      \/ Moving(r, l) /\ Silent(l)
      \/ Ending(r, l) /\ Silent(l)
  BY DEF InStep, Between, ToSend, ToDial, Asking, Lost, AskingTransfer, Moving, Ending, Asked, AtRest,
         Gone, NoWork
<1>2. CASE AskingTransfer(r, l) /\ Running(r, l)
  <2>1. PICK x : OneReply(l, x)
    BY <1>2 DEF AskingTransfer, Asked, Gone, AtRest, NoWork, Running
  <2>2. TwoReplies(m, x, p)
    <3>1. CASE l.wire = <<x>> /\ l.buffer = <<>>
      <4>1. m.wire = <<x, p>> /\ m.buffer = <<>>
        BY <3>1, SequencesOfTwo
      <4> QED
        BY <4>1 DEF TwoReplies
    <3>2. CASE l.wire = <<>> /\ l.buffer = <<x>>
      <4>1. m.wire = <<p>> /\ m.buffer = <<x>>
        BY <3>2, SequencesOfOne
      <4> QED
        BY <4>1 DEF TwoReplies
    <3> QED
      BY <2>1, <3>1, <3>2 DEF OneReply
  <2> QED
    BY <1>2, <2>2 DEF AskingTransfer
<1>3. CASE (Moving(r, l) \/ Ending(r, l)) /\ Silent(l)
  <2>1. OneReply(m, p)
    BY <1>3, SequencesOfOne DEF Silent, OneReply
  <2>2. Transfers \cap Ends = {}
    BY DEF Transfers, Ends
  <2> QED
    BY <1>3, <2>1, <2>2 DEF Moving, Ending
<1> QED
  BY <1>1, <1>2, <1>3

\* The transfer of a call was completed: c is its data connection, g the files.
EndsWell(q, r, c, w, a, g) ==
    /\ r.cmd.name \in Transfers =>
          q.op # "put" /\ c.state = "received" /\ Brings(q, r, w, a, c.data)
    /\ r.cmd.name = "226" => q.op = "put" /\ (a => Agrees(g[q.key], q.data))

LEMMA EndsTruly ==
    ASSUME NEW q, NEW r, NEW l, NEW m, NEW p, NEW c, NEW w, NEW a, NEW f, NEW g,
           InStep(r, l), Fits(q, r, l), l.transfer # None, Truthful(q, r, l, w, a, f),
           m.transfer = None, m.buffer = l.buffer, m.wire = Append(l.wire, p), m.chan[r.port] = c,
           Unchanged(q, w, a, g), p.code = 226 => EndsWell(q, r, c, w, a, g)
    PROVE  Truthful(q, r, m, w, a, g)
<1>1. /\ r.pc \in {"await", "data", "fill"} /\ r.cmd.name \in Transfers \cup Ends /\ Busy(r)
      /\ q.op # "delete"
  <2>1. Moves(q, r, l.transfer.cmd)
    BY InTransfer
  <2> QED
    BY <2>1, InTransfer DEF Moves
<1>2. Transfers \cap Ends = {} /\ "226" \in Ends /\ {"RETR", "LIST"} \subseteq Transfers
      /\ {"SIZE", "MLST"} \cap (Transfers \cup Ends) = {} /\ {"RETR", "LIST"} \cap Ends = {}
  BY DEF Transfers, Ends
<1>3. r.pc = "await" /\ r.cmd.name \in Transfers =>
          /\ \A s : ~ OneReply(m, s)
          /\ \A x, s : TwoReplies(m, x, s) => s = p
  <2> SUFFICES ASSUME r.pc = "await", r.cmd.name \in Transfers
               PROVE  /\ \A s : ~ OneReply(m, s)
                      /\ \A x, s : TwoReplies(m, x, s) => s = p
    OBVIOUS
  <2>1. PICK y : TwoReplies(m, y, p)
    BY EndReplies
  <2> QED
    BY <2>1, RepliesApart
<1>4. r.pc # "await" \/ r.cmd.name \in Ends => \A s : OneReply(m, s) => s = p
  BY <1>2, EndReplies, RepliesApart
<1>5. ~ Deleting(q, r, m) /\ Carried(q, r, m, w, a, g) /\ Bottom(q, r, w, a)
  BY <1>1 DEF Deleting, Carried, Truthful
<1>6. r.pc = "await" => Said(q, r, m, w, a)
  BY <1>1, <1>2, <1>3 DEF Said
<1>7. Completes(q, r, m, w, a)
  <2> SUFFICES ASSUME r.cmd.name \in Transfers, NEW s, Closing(r, m, s), s.code = 226
               PROVE  /\ q.op # "put" /\ m.chan[r.port].state = "received"
                      /\ Brings(q, r, w, a, m.chan[r.port].data)
    BY DEF Completes
  <2>1. s = p
    BY <1>3, <1>4 DEF Closing
  <2> QED
    BY <2>1 DEF EndsWell
<1>8. Completed(q, r, m, w, a, g)
  BY <1>2, <1>4 DEF Completed, EndsWell
<1> QED
  BY <1>5, <1>6, <1>7, <1>8 DEF Truthful

LEMMA EndTrue ==
    ASSUME Own, AllInStep, AllFit, AllTrue, NEW b \in Blobs, link[b].transfer # None,
           NEW code, NEW c, EndsTransfer(b, code, c), UNCHANGED <<th, callers>>, Tree',
           \A t \in Threads : Uses[t] = b =>
               /\ Leaves(call[t], files, files')
               /\ Unchanged(call[t], was[t], alone[t], files')
               /\ code = 226 => EndsWell(call[t], th[t], c, was[t], alone[t], files')
    PROVE  AllTrue'
<1> DEFINE l == link[b]
           p == Reply(code, None)
           m == [l EXCEPT !.transfer = None, !.wire = Append(@, p), !.chan[l.transfer.port] = c]
<1>1. IsLink(l) /\ link' = [link EXCEPT ![b] = m] /\ l.transfer # None
  BY DEF AllInStep, EndsTransfer
<1>2. p.code = code
  BY DEF Reply
<1> HIDE DEF p
<1>3. /\ m.transfer = None /\ m.buffer = l.buffer /\ m.wire = Append(l.wire, p)
      /\ \A x \in Ports : m.chan[x] = IF x = l.transfer.port THEN c ELSE l.chan[x]
  BY <1>1 DEF IsLink
<1> HIDE DEF m, l
<1>4. ASSUME NEW t \in Threads, Uses[t] = b
      PROVE  Busy(th[t]) /\ Truthful(call[t], th[t], m, was[t], alone[t], files')
  <2>1. /\ InStep(th[t], l) /\ Fits(call[t], th[t], l)
        /\ Truthful(call[t], th[t], l, was[t], alone[t], files)
    BY <1>4, CallOfThread DEF AllTrue, Link, l
  <2>2. Busy(th[t]) /\ l.transfer.port = th[t].port /\ th[t].port \in Ports
    BY <1>1, <2>1, InTransfer
  <2>3. m.chan[th[t].port] = c
    BY <1>3, <2>2
  <2>4. /\ Unchanged(call[t], was[t], alone[t], files')
        /\ p.code = 226 => EndsWell(call[t], th[t], c, was[t], alone[t], files')
    BY <1>2, <1>4
  <2> QED
    BY <1>1, <1>3, <2>1, <2>2, <2>3, <2>4, EndsTruly
<1>5. \A t \in Threads : Uses[t] = b =>
          \/ files' = files
          \/ /\ Busy(th[t]) /\ call[t].op \in Mutators
             /\ \A k \in Keys \ {call[t].key} : files'[k] = files[k]
  BY <1>4 DEF Leaves
<1>6. \A t \in Threads : Uses[t] = b /\ Busy(th[t]) =>
          Truthful(call[t], th[t], m, was[t], alone[t], files')
  BY <1>4
<1> QED
  BY <1>1, <1>5, <1>6, ServerTrue

\* What is true of a thread that is in a transfer.
LEMMA TransferThread ==
    ASSUME AllInStep, AllFit, AllTrue, NEW b \in Blobs, link[b].transfer # None,
           NEW t \in Threads, Uses[t] = b
    PROVE  LET q == call[t]
               r == th[t]
               l == link[b]
           IN
           /\ Busy(r) /\ q \in Calls /\ q.op # "delete" /\ Moves(q, r, l.transfer.cmd)
           /\ l.transfer.port = r.port /\ Unchanged(q, was[t], alone[t], files)
           /\ r.cmd.name \in Transfers => Channel(b).state = "connected"
           /\ r.cmd.name = "226" =>
                 q.op = "put" /\ Channel(b).state = "sent" /\ Agrees(Channel(b).data, q.data)
           /\ IF q.op = "put" THEN alone[t] => files[q.key] # None
                              ELSE Brings(q, r, was[t], alone[t], l.transfer.data)
<1> DEFINE q == call[t]
           r == th[t]
           l == link[b]
<1>1. Link(t) = l
  BY DEF Link
<1>2. InStep(r, l) /\ Fits(q, r, l)
  BY <1>1, CallOfThread
<1>3. /\ r.pc \in {"await", "data", "fill"} /\ Busy(r) /\ l.sock = "open" /\ Moves(q, r, l.transfer.cmd)
      /\ l.transfer.port = r.port
  BY <1>2, InTransfer
<1>4. /\ q \in Calls
      /\ IF Deleting(q, r, l) THEN Deleted(q, l, was[t], alone[t], files)
                              ELSE Unchanged(q, was[t], alone[t], files)
      /\ Carried(q, r, l, was[t], alone[t], files) /\ Completed(q, r, l, was[t], alone[t], files)
  BY <1>1, <1>3, TruthOfThread
<1>5. q.op # "delete"
  BY <1>3 DEF Moves
<1>6. Unchanged(q, was[t], alone[t], files)
  BY <1>4, <1>5 DEF Deleting
<1>7. Channel(b) = l.chan[r.port]
  BY <1>3 DEF Channel
<1>8. r.cmd.name \in Transfers => l.chan[r.port].state = "connected"
  BY <1>2, <1>3 DEF Fits, Holds, Begins
<1>9. r.cmd.name = "226" =>
          q.op = "put" /\ l.chan[r.port].state = "sent" /\ Agrees(l.chan[r.port].data, q.data)
  BY <1>4 DEF Completed
<1>10. IF q.op = "put" THEN alone[t] => files[q.key] # None
                       ELSE Brings(q, r, was[t], alone[t], l.transfer.data)
  BY <1>4 DEF Carried
<1> QED
  BY <1>3, <1>4, <1>5, <1>6, <1>7, <1>8, <1>9, <1>10

LEMMA EndStorTrue ==
    ASSUME Own, AllInStep, AllFit, AllTrue, NEW b \in Blobs, EndStor(b)
    PROVE  AllTrue'
<1> DEFINE l == link[b]
           arg == l.transfer.cmd.arg
           d == Channel(b).data
<1>1. /\ l.transfer # None /\ l.transfer.cmd.name = "STOR" /\ EndsTransfer(b, 226, Free)
      /\ UNCHANGED <<th, callers>> /\ dirs' = dirs
  BY DEF EndStor
<1>2. \/ Channel(b).state = "cut" /\ files' = files
      \/ Channel(b).state = "sent" /\ files' = [files EXCEPT ![arg] = IF @ = None THEN None ELSE d]
  BY DEF EndStor
<1>3. FilesTyped /\ Tree
  BY DEF AllFit, AllTrue
<1> HIDE DEF d
<1>4. \A k \in Keys : (files'[k] # None => files[k] # None) /\ (k # arg => files'[k] = files[k])
  BY <1>2, <1>3 DEF FilesTyped
<1>5. Tree'
  BY <1>1, <1>3, <1>4 DEF Tree
<1>6. ASSUME NEW t \in Threads, Uses[t] = b
      PROVE  /\ Leaves(call[t], files, files')
             /\ Unchanged(call[t], was[t], alone[t], files')
             /\ EndsWell(call[t], th[t], Free, was[t], alone[t], files')
  <2> DEFINE q == call[t]
             r == th[t]
  <2>1. /\ q \in Calls /\ Moves(q, r, l.transfer.cmd)
        /\ r.cmd.name \in Transfers => Channel(b).state = "connected"
        /\ r.cmd.name = "226" => q.op = "put" /\ Channel(b).state = "sent" /\ Agrees(d, q.data)
        /\ q.op = "put" => (alone[t] => files[q.key] # None)
    BY <1>1, <1>6, TransferThread DEF d
  <2>2. q.op = "put" /\ arg = q.key
    BY <1>1, <2>1, MovesByName
  <2>3. q.key \in Keys
    BY <2>1, <2>2, RequestForms
  <2>4. Leaves(q, files, files')
    BY <1>4, <2>2 DEF Leaves, Mutators
  <2>5. Unchanged(q, was[t], alone[t], files')
    BY <2>2 DEF Unchanged, Reading
  <2>6. r.cmd.name \notin Transfers
    BY <1>2, <2>1
  <2>7. ASSUME r.cmd.name = "226", alone[t] PROVE Agrees(files'[q.key], q.data)
    <3>1. files' = [files EXCEPT ![arg] = IF @ = None THEN None ELSE d] /\ files[q.key] # None
      BY <1>2, <2>1, <2>2, <2>7
    <3>2. files'[q.key] = d
      BY <1>3, <2>2, <2>3, <3>1 DEF FilesTyped
    <3> QED
      BY <2>1, <2>7, <3>2
  <2> QED
    BY <2>2, <2>4, <2>5, <2>6, <2>7 DEF EndsWell
<1> QED
  BY <1>1, <1>5, <1>6, EndTrue

LEMMA EndRetrTrue ==
    ASSUME Own, AllInStep, AllFit, AllTrue, NEW b \in Blobs, EndRetr(b)
    PROVE  AllTrue'
<1> DEFINE l == link[b]
           tr == l.transfer
<1>1. /\ tr # None /\ tr.cmd.name \in {"RETR", "LIST"} /\ UNCHANGED <<th, callers>>
      /\ dirs' = dirs /\ files' = files
  BY DEF EndRetr, server
<1>2. FilesTyped /\ Tree /\ Tree'
  BY <1>1 DEF AllFit, AllTrue, Tree
<1>3. ASSUME NEW t \in Threads, Uses[t] = b
      PROVE  LET q == call[t]
                 r == th[t]
             IN
             /\ q \in Calls /\ q.op # "put" /\ Moves(q, r, tr.cmd) /\ r.cmd.name # "226"
             /\ Unchanged(q, was[t], alone[t], files) /\ Leaves(q, files, files')
             /\ Brings(q, r, was[t], alone[t], tr.data)
  <2>1. /\ call[t] \in Calls /\ Moves(call[t], th[t], tr.cmd)
        /\ th[t].cmd.name = "226" => call[t].op = "put"
        /\ Unchanged(call[t], was[t], alone[t], files)
        /\ call[t].op # "put" => Brings(call[t], th[t], was[t], alone[t], tr.data)
    BY <1>1, <1>3, TransferThread
  <2>2. call[t].op # "put"
    BY <1>1, <2>1, MovesByName
  <2> QED
    BY <1>1, <2>1, <2>2 DEF Leaves
<1>4. CASE EndsTransfer(b, 426, Free)
  <2>1. \A t \in Threads : Uses[t] = b =>
            /\ Leaves(call[t], files, files')
            /\ Unchanged(call[t], was[t], alone[t], files')
            /\ 426 = 226 => EndsWell(call[t], th[t], Free, was[t], alone[t], files')
    BY <1>1, <1>3
  <2> QED
    BY <1>1, <1>2, <1>4, <2>1, EndTrue
<1>5. ASSUME NEW d \in {tr.data, Content(tr.cmd.name, tr.cmd.arg)} \ {None},
             EndsTransfer(b, 226, Chan("received", d))
      PROVE  AllTrue'
  <2> DEFINE c == Chan("received", d)
  <2>1. c.state = "received" /\ c.data = d
    BY DEF Chan
  <2> HIDE DEF c
  <2>2. ASSUME NEW t \in Threads, Uses[t] = b
        PROVE  EndsWell(call[t], th[t], c, was[t], alone[t], files')
    <3>1. /\ call[t] \in Calls /\ call[t].op # "put" /\ Moves(call[t], th[t], tr.cmd)
          /\ th[t].cmd.name # "226" /\ Unchanged(call[t], was[t], alone[t], files)
          /\ Brings(call[t], th[t], was[t], alone[t], tr.data)
      BY <1>3, <2>2
    <3>2. d # tr.data => Brings(call[t], th[t], was[t], alone[t], Content(tr.cmd.name, tr.cmd.arg))
      BY <1>2, <1>5, <3>1, ContentBrings
    <3>3. Brings(call[t], th[t], was[t], alone[t], d)
      BY <1>5, <3>1, <3>2
    <3> QED
      BY <2>1, <3>1, <3>3 DEF EndsWell
  <2>3. \A t \in Threads : Uses[t] = b =>
            /\ Leaves(call[t], files, files')
            /\ Unchanged(call[t], was[t], alone[t], files')
            /\ 226 = 226 => EndsWell(call[t], th[t], c, was[t], alone[t], files')
    BY <1>1, <1>3, <2>2
  <2>4. EndsTransfer(b, 226, c)
    BY <1>5 DEF c
  <2> QED
    BY <1>1, <1>2, <2>3, <2>4, EndTrue
<1>6. \/ EndsTransfer(b, 426, Free)
      \/ \E d \in {tr.data, Content(tr.cmd.name, tr.cmd.arg)} \ {None} :
            EndsTransfer(b, 226, Chan("received", d))
  BY DEF EndRetr
<1> QED
  BY <1>4, <1>5, <1>6

LEMMA AbortTrue ==
    ASSUME Own, AllInStep, AllFit, AllTrue, NEW b \in Blobs, AbortTransfer(b)
    PROVE  AllTrue'
<1> DEFINE c == IF Channel(b).state = "connected" THEN Chan("received", Torn) ELSE Free
<1>1. /\ link[b].transfer # None /\ UNCHANGED <<th, callers>> /\ EndsTransfer(b, 426, c)
      /\ files' = files /\ dirs' = dirs
  BY DEF AbortTransfer, server
<1> HIDE DEF c
<1>2. Tree'
  BY <1>1 DEF AllTrue, Tree
<1>3. \A t \in Threads : Uses[t] = b =>
          /\ Leaves(call[t], files, files')
          /\ Unchanged(call[t], was[t], alone[t], files')
          /\ 426 = 226 => EndsWell(call[t], th[t], c, was[t], alone[t], files')
  BY <1>1, TransferThread DEF Leaves
<1> QED
  BY <1>1, <1>2, <1>3, EndTrue

LEMMA ServerStepTrue ==
    ASSUME Own, NoneIsNoRecord, AllInStep, AllFit, AllTrue, NEW b \in Blobs, Server(b) \/ Faulty(b),
           Refuse(b) => Unambiguous
    PROVE  AllTrue'
<1>1. CASE \E name \in {"RETR", "LIST", "STOR"} : StartTransfer(b, name)
  BY <1>1, StartTrue DEF Transfers
<1> QED
  BY <1>1, ServeLoginTrue, ServeSessionTrue, ServeQuitTrue, ServeMkdTrue, ServeDeleTrue, ServePasvTrue,
     EndStorTrue, EndRetrTrue, RefuseTrue, AbortTrue, DropTrue
  DEF Server, Faulty

-----------------------------------------------------------------------------
(* The theorems. *)

LEMMA InitTrue ==
    ASSUME Init
    PROVE  AllTrue
<1>1. \A t \in Threads : th[t].pc = "idle" /\ call[t] = None
  BY OutsideForm DEF Init
<1>2. Tree /\ OutcomesTrue
  BY <1>1 DEF Init, Tree, OutcomesTrue
<1>3. Apart
  BY <1>1 DEF Apart, Clash, KeysOf
<1>4. KnownTrue
  BY <1>1, AgreesForms DEF Init, KnownTrue, Busy
<1>5. \A t \in Threads : Truthful(call[t], th[t], Link(t), was[t], alone[t], files)
  BY <1>1 DEF Truthful, Busy
<1> QED
  BY <1>2, <1>3, <1>4, <1>5 DEF AllTrue

LEMMA NextTrue ==
    ASSUME Own, NoneIsNoRecord, IInv, CInv, TInv, [Next]_vars
    PROVE  TInv'
<1>1. CASE UNCHANGED vars
  BY <1>1 DEF TInv, AllTrue, Tree, Apart, KnownTrue, OutcomesTrue, Link, vars, bounds, server, callers
<1>2. CASE Next
  <2>1. (timeouts' = 0 => timeouts = 0) /\ (faults' = 0 => faults = 0)
    BY <1>2, TimeoutsGrow, FaultsGrow DEF IInv
  <2> SUFFICES ASSUME timeouts' = 0, Unambiguous \/ faults' = 0 PROVE AllTrue'
    BY DEF TInv
  <2>2. timeouts = 0 /\ AllInStep /\ AllTrail /\ AllFit /\ AllTrue
    BY <2>1 DEF IInv, CInv, TInv
  <2>7. Fault => Unambiguous
    BY <2>1 DEF Fault
  <2>3. ASSUME NEW t \in Threads, Invoke(t) \/ Return(t) PROVE AllTrue'
    BY <2>2, <2>3, InvokeTrue, ReturnTrue
  <2>4. ASSUME NEW t \in Threads, Client(t) \/ Unlucky(t) PROVE AllTrue'
    BY <2>2, <2>4, ClientStepTrue
  <2>5. ASSUME NEW t \in Threads, Late(t) \/ Cancel(t) PROVE AllTrue'
    BY <2>2, <2>5, LateTrue
  <2>6. ASSUME NEW b \in Blobs, Server(b) \/ Faulty(b) PROVE AllTrue'
    BY <2>2, <2>6, <2>7, ServerStepTrue DEF Refuse
  <2> QED
    BY <1>2, <2>3, <2>4, <2>5, <2>6 DEF Next
<1> QED
  BY <1>1, <1>2

(***************************************************************************)
(* What the server says to a call and carries to it is true of the keys    *)
(* the call is alone on, whatever is refused, aborted or dropped, and what *)
(* the finished calls tell of a key is what the server holds; until a      *)
(* reply is late or a task is cancelled.                                   *)
(***************************************************************************)
THEOREM TruthInvariance ==
    ASSUME Own, NoneIsNoRecord
    PROVE  Spec => []TInv
<1>1. Init => TInv
  BY InitTrue DEF TInv
<1>2. IInv /\ CInv /\ TInv /\ [Next]_vars => TInv'
  BY NextTrue
<1> QED
  BY <1>1, <1>2, Invariance, CallInvariance, PTL DEF Spec

(***************************************************************************)
(* get(), exists() and delete() that no other call interferes with answer  *)
(* what the calls before them tell, and scan() yields nothing they tell is *)
(* not there, where the client sends what it is given to store whole and   *)
(* the server refuses nothing with the code for what is missing: no reply  *)
(* is taken for that to another command, and no part of a file for all of  *)
(* it.                                                                     *)
(***************************************************************************)
THEOREM ResultsAreTruthful ==
    ASSUME Own, NoneIsNoRecord, AllLeaves, Unambiguous
    PROVE  Spec => [](timeouts = 0 => ResultsTruthful)
<1>1. ASSUME TInv, timeouts = 0 PROVE ResultsTruthful
  <2> SUFFICES ASSUME NEW t \in Threads, Answered(t, call[t].op)
               PROVE  LET w == was[t][call[t].key] IN
                      /\ call[t].op = "get" /\ w # Unknown =>
                            ret[t] = IF w = None THEN Store!KeyError ELSE [value |-> w]
                      /\ call[t].op = "delete" /\ w # Unknown =>
                            ret[t] = IF w = None THEN Store!KeyError ELSE Store!Done
                      /\ call[t].op = "exists" /\ w # Unknown => ret[t] = [found |-> w # None]
                      /\ call[t].op = "scan" => \A k \in ret[t].keys : was[t][k] # None
    BY DEF ResultsTruthful, Answered
  <2>1. Answer(call[t], ret[t], was[t], alone[t]) /\ alone[t]
    BY <1>1 DEF TInv, AllTrue, OutcomesTrue, Answered
  <2>2. was[t][call[t].key] # Unknown => Sure(was[t], alone[t], call[t].key)
    BY <2>1 DEF Sure
  <2> QED
    BY <2>1, <2>2 DEF Answer
<1> QED
  BY <1>1, TruthInvariance, PTL

(***************************************************************************)
(* What scan() does list, as long as it is neither refused as missing nor  *)
(* disturbed: every file directly in the directory of that name, whatever  *)
(* was refused, aborted or dropped before or meanwhile.                    *)
(***************************************************************************)
ListsDirectory ==
    \A t \in Threads : Answered(t, "scan") =>
        \A k \in Store!Stored(was[t]) :
            was[t][k] # Unknown /\ Parent(k) = call[t].prefix => k \in ret[t].keys

(***************************************************************************)
(* No entry of a listing is lost between the server and the caller of      *)
(* scan(): a transfer cut short is never taken for a whole listing.  The   *)
(* files of the subdirectories are not among them (see                    *)
(* ScanYieldsPrefix).                                                      *)
(***************************************************************************)
THEOREM ScanListsTheDirectory ==
    ASSUME Own, NoneIsNoRecord, Unambiguous
    PROVE  Spec => [](timeouts = 0 => ListsDirectory)
<1>1. ASSUME TInv, timeouts = 0 PROVE ListsDirectory
  <2> SUFFICES ASSUME NEW t \in Threads, Answered(t, "scan")
               PROVE  \A k \in Store!Stored(was[t]) :
                            was[t][k] # Unknown /\ Parent(k) = call[t].prefix => k \in ret[t].keys
    BY DEF ListsDirectory
  <2>1. Answer(call[t], ret[t], was[t], alone[t])
    BY <1>1 DEF TInv, AllTrue, OutcomesTrue, Answered
  <2>2. call[t].op = "scan" /\ alone[t]
    BY DEF Answered
  <2> QED
    BY <2>1, <2>2 DEF Answer, Store!Stored
<1> QED
  BY <1>1, TruthInvariance, PTL

-----------------------------------------------------------------------------
(* Calls do not fail by themselves: the inductive invariant, as long as no *)
(* command is refused or transfer aborted and no connection dropped.  q is *)
(* the request, r the thread's record, l its link, d the directories.      *)

\* Files and directories have different names.
Distinct == Keys \cap AllDirs = {}

\* The asynchronous close() leaves its instance with a connection on which
\* the next call fails.
ClosesClean == "close" \notin Ops \/ Flavours \subseteq {"sync"}

\* The codes of the replies with which a call goes on, or ends well.
Accepted(name, code) ==
    /\ name = "220" => code = 220
    /\ name = "USER" => code \in {230, 331}
    /\ name \in {"PASS", "CWD", "TYPE", "PASV", "STOR", "226"} =>
          code = CASE name = "PASS" -> 230 [] name = "CWD"  -> 250 [] name = "TYPE" -> 200
                   [] name = "PASV" -> 227 [] name = "STOR" -> 150 [] name = "226"  -> 226
    /\ name = "MKD" => code \in {257, 550}
    /\ name = "DELE" => code \in {250, 550}
    /\ name \in {"RETR", "LIST"} => code \in {150, 550}

\* Reply p lets r go on, and what it goes on with is there.
Favours(r, l, d, p) ==
    /\ Accepted(r.cmd.name, p.code)
    /\ r.cmd.name \in {"USER", "PASS"} /\ p.code = 230 => l.loggedIn
    /\ r.cmd.name = "PASV" => l.chan[p.info.port].state = "listen"
    /\ r.cmd.name = "MKD" => Head(r.rest) \in d

Favoured(r, l, d) ==
    /\ r.pc = "await" => \A p : OneReply(l, p) => Favours(r, l, d, p)
    /\ r.pc = "await" => \A p, s : TwoReplies(l, p, s) => Accepted(r.cmd.name, p.code) /\ s.code = 226
    /\ r.pc \in {"data", "fill"} => \A s : OneReply(l, s) => s.code = 226

\* The parents of the key that are not left to be made are there.
Made(q, r, d) == \A i \in 1 .. Len(Parents(q.key)) - Len(r.rest) : Parents(q.key)[i] \in d

\* Only QUIT ends a connection, and only a login finds the server without one.
Connected(r, l) ==
    /\ l.sock = "dropped" => r.pc = "await" /\ r.cmd.name = "QUIT" /\ ~ Silent(l)
    /\ l.sock = "open" /\ ~ l.loggedIn => Busy(r) /\ r.cmd.name \in {"220", "USER", "PASS"}

Smooth(q, r, l, d) ==
    /\ Connected(r, l)
    /\ Busy(r) =>
          /\ q.op = "close" => l.flavour = "sync"
          /\ r.cmd.name # "226, failing"
          /\ r.cmd.name = "220" => r.pc = "await" /\ l.inbox = <<>>
          /\ r.pc = "dial" => l.chan[r.port].state = "listen"
          /\ q.op = "put" => Made(q, r, d)
          /\ Favoured(r, l, d)

AllSmooth == \A t \in Threads : ret[t] # Store!BlobError /\ Smooth(call[t], th[t], Link(t), dirs)

FInv == faults = 0 /\ timeouts = 0 => AllSmooth

-----------------------------------------------------------------------------
(* One thread moves, or the server of its instance. *)

LEMMA StaysSmooth ==
    ASSUME NEW q, NEW r, NEW l, NEW d, NEW e, Smooth(q, r, l, d), d \subseteq e
    PROVE  Smooth(q, r, l, e)
<1>1. Favoured(r, l, d) => Favoured(r, l, e)
  BY DEF Favoured, Favours
<1>2. Made(q, r, d) => Made(q, r, e)
  BY DEF Made
<1> QED
  BY <1>1, <1>2 DEF Smooth

LEMMA OneSmooth ==
    ASSUME Own, AllSmooth, NEW t \in Threads, dirs \subseteq dirs',
           \A u \in Threads \ {t} : th'[u] = th[u] /\ call'[u] = call[u] /\ ret'[u] = ret[u],
           \A b \in Blobs \ {Uses[t]} : link'[b] = link[b],
           ret'[t] # Store!BlobError, Smooth(call'[t], th'[t], link'[Uses[t]], dirs')
    PROVE  AllSmooth'
<1>1. \A u \in Threads : Uses[u] \in Blobs
  BY UsesAssumption
<1>2. ASSUME NEW u \in Threads \ {t}
      PROVE  ret'[u] # Store!BlobError /\ Smooth(call'[u], th'[u], link'[Uses[u]], dirs')
  <2>1. Smooth(call[u], th[u], link[Uses[u]], dirs) /\ ret[u] # Store!BlobError
    BY DEF AllSmooth, Link
  <2>2. link'[Uses[u]] = link[Uses[u]]
    BY <1>1 DEF Own
  <2>3. Smooth(call[u], th[u], link[Uses[u]], dirs')
    BY <2>1, StaysSmooth
  <2> QED
    BY <2>1, <2>2, <2>3
<1> QED
  BY <1>2 DEF AllSmooth, Link

LEMMA ServerSmooth ==
    ASSUME Own, AllInStep, AllSmooth, NEW b \in Blobs,
           link[b].sock = "open" \/ link[b].transfer # None,
           NEW m, UNCHANGED <<th, callers>>, link' = [link EXCEPT ![b] = m], dirs \subseteq dirs',
           \A t \in Threads : Uses[t] = b => Smooth(call[t], th[t], m, dirs')
    PROVE  AllSmooth'
<1>1. PICK t \in Threads : Uses[t] = b
  BY DEF AllInStep, Unused, AtRest, NoWork
<1>2. link'[Uses[t]] = m /\ \A d \in Blobs \ {Uses[t]} : link'[d] = link[d]
  BY <1>1 DEF AllInStep
<1>3. UNCHANGED <<th, call, ret>> /\ ret[t] # Store!BlobError
  BY DEF callers, AllSmooth
<1> QED
  BY <1>1, <1>2, <1>3, OneSmooth

LEMMA ContinuesSmooth ==
    ASSUME Own, AllInStep, AllSmooth, NEW t \in Threads, NEW r, NEW m, Continues(t, r, m),
           Smooth(call[t], r, m, dirs)
    PROVE  AllSmooth'
<1>1. Uses[t] \in Blobs
  BY UsesAssumption
<1>2. /\ th'[t] = r /\ link'[Uses[t]] = m
      /\ \A u \in Threads \ {t} : th'[u] = th[u]
      /\ \A b \in Blobs \ {Uses[t]} : link'[b] = link[b]
      /\ UNCHANGED <<dirs, call, ret>>
  BY <1>1 DEF AllInStep, Continues, server, callers
<1>3. ret[t] # Store!BlobError
  BY DEF AllSmooth
<1> QED
  BY <1>2, <1>3, OneSmooth

\* A call that ends leaves its instance unconnected, or logged in.
LEMMA FinishSmooth ==
    ASSUME Own, AllInStep, AllFit, AllSmooth, NEW t \in Threads, NEW o, NEW l, Finish(t, o, l),
           IsLink(l), o # Store!BlobError, l.sock # "dropped", l.sock = "open" => l.loggedIn
    PROVE  AllSmooth'
<1> DEFINE r == [Outside EXCEPT !.pc = "done"]
           m == CloseData(l, th[t].port)
<1>1. Uses[t] \in Blobs
  BY UsesAssumption
<1>2. /\ th'[t] = r /\ link'[Uses[t]] = m /\ ret'[t] = o
      /\ \A u \in Threads \ {t} : th'[u] = th[u] /\ ret'[u] = ret[u]
      /\ \A b \in Blobs \ {Uses[t]} : link'[b] = link[b]
      /\ UNCHANGED <<dirs, call>>
  BY <1>1 DEF AllInStep, AllFit, HistoryTyped, Finish, server
<1>3. ~ Busy(r)
  BY OutsideForm DEF Busy
<1>4. m.sock = l.sock /\ m.loggedIn = l.loggedIn
  BY DEF CloseData, IsLink
<1> HIDE DEF r, m
<1>5. Smooth(call[t], r, m, dirs)
  BY <1>3, <1>4 DEF Smooth, Connected
<1> QED
  BY <1>2, <1>5, OneSmooth

\* A thread that goes on with another command.
LEMMA GoesOnSmooth ==
    ASSUME Own, AllInStep, AllSmooth, NEW t \in Threads, Busy(th[t]), Link(t).sock # "dropped",
           NEW r, NEW m, Continues(t, r, m), r.pc = "send", r.cmd.name \notin {"220", "226, failing"},
           m.sock = Link(t).sock, m.flavour = Link(t).flavour, m.loggedIn = Link(t).loggedIn,
           m.sock = "open" => m.loggedIn \/ r.cmd.name \in {"USER", "PASS"},
           call[t].op = "put" => Made(call[t], r, dirs)
    PROVE  AllSmooth'
<1>1. call[t].op = "close" => m.flavour = "sync"
  BY DEF AllSmooth, Smooth
<1>2. Smooth(call[t], r, m, dirs)
  BY <1>1 DEF Smooth, Connected, Favoured, Busy
<1> QED
  BY <1>2, ContinuesSmooth

-----------------------------------------------------------------------------
(* What is known of a thread, and where it goes on. *)

LEMMA MadeParents ==
    ASSUME NEW r, IsPlace(r), NEW s
    PROVE  MakeParents(r, s).rest = s /\ MakeParents(r, s).cmd.name \in {"PASV", "MKD"}
<1> DEFINE u == [r EXCEPT !.rest = s]
           v == MakeParents(r, s)
<1>1. IsPlace(u) /\ u.rest = s
  BY DEF IsPlace
<1>2. v = IF s = <<>> THEN Sends(u, "PASV", None) ELSE Sends(u, "MKD", Head(s))
  BY DEF MakeParents
<1> HIDE DEF u, v
<1>3. v.rest = s /\ v.cmd.name \in {"PASV", "MKD"}
  BY <1>1, <1>2, SendsFields, SendsForm
<1> QED
  BY <1>3 DEF v

\* What holds of a thread in a call.
LEMMA SmoothOfThread ==
    ASSUME AllInStep, AllFit, AllSmooth, NEW t \in Threads, th[t].pc \notin {"idle", "done"}
    PROVE  LET q == call[t]
               r == th[t]
               l == Link(t)
           IN
           /\ Busy(r) /\ IsPlace(r) /\ IsLink(l) /\ InStep(r, l) /\ Fits(q, r, l) /\ Follows(q, r)
           /\ Asks(q, r) /\ q \in Calls
           /\ Connected(r, l) /\ Favoured(r, l, dirs)
           /\ q.op = "close" => l.flavour = "sync"
           /\ r.cmd.name # "226, failing"
           /\ r.cmd.name = "220" => r.pc = "await" /\ l.inbox = <<>>
           /\ r.pc = "dial" => l.chan[r.port].state = "listen"
           /\ q.op = "put" => Made(q, r, dirs)
<1>1. Smooth(call[t], th[t], Link(t), dirs)
  BY DEF AllSmooth
<1> QED
  BY <1>1, CallOfThread DEF Smooth

\* Outside transfers, the reply at hand.
LEMMA HearsSmooth ==
    ASSUME AllInStep, AllFit, AllSmooth, NEW t \in Threads, NEW names, Awaits(t, names),
           names \cap Transfers = {}
    PROVE  LET l == Link(t)
               m == Taken(t)
               p == Head(l.buffer)
           IN
           /\ th[t].pc = "await" /\ th[t].cmd.name \in names
           /\ Favours(th[t], l, dirs, p) /\ p.code = Code(t) /\ p.info = Info(t)
           /\ AtRest(m) /\ IsLink(m) /\ m.sock = l.sock /\ m.loggedIn = l.loggedIn
           /\ m.flavour = l.flavour /\ m.chan = l.chan
           /\ th[t].cmd.name # "QUIT" => m.sock # "dropped"
           /\ th[t].cmd.name \notin {"220", "USER", "PASS"} => (m.sock = "open" => m.loggedIn)
<1> DEFINE l == Link(t)
           p == Head(l.buffer)
<1>1. /\ th[t].pc = "await" /\ th[t].cmd.name \in names /\ th[t].cmd.name \notin Transfers
      /\ l.buffer # <<>>
  BY DEF Awaits
<1>2. InStep(th[t], l) /\ Connected(th[t], l) /\ Favoured(th[t], l, dirs) /\ IsLink(l)
  BY <1>1, SmoothOfThread
<1>3. OneReply(l, p)
  BY <1>1, <1>2, OnlyReply
<1>4. Favours(th[t], l, dirs, p) /\ p.code = Code(t) /\ p.info = Info(t)
  BY <1>1, <1>2, <1>3 DEF Favoured, Code, Info
<1>5. Taken(t).loggedIn = l.loggedIn
  BY <1>2 DEF Taken, IsLink
<1> QED
  BY <1>1, <1>2, <1>4, <1>5, CallOfThread, PlainTakeForm DEF Connected

-----------------------------------------------------------------------------
(* Calls, and the steps of the client. *)

LEMMA InvokeSmooth ==
    ASSUME Own, ClosesClean, AllInStep, AllFit, AllSmooth, NEW t \in Threads, Invoke(t)
    PROVE  AllSmooth'
<1> DEFINE l == Link(t)
<1>1. PICK q \in Calls :
        /\ q.op \in Ops /\ call' = [call EXCEPT ![t] = q] /\ th' = [th EXCEPT ![t] = Starts(q, Link(t))]
  BY DEF Invoke, Calls
<1> DEFINE r == Starts(q, l)
<1>2. /\ th[t].pc = "idle" /\ UNCHANGED <<link, dirs, ret>>
  BY DEF Invoke, server
<1>3. /\ th'[t] = r /\ call'[t] = q /\ \A u \in Threads \ {t} : th'[u] = th[u] /\ call'[u] = call[u]
  BY <1>1 DEF AllInStep, AllFit, HistoryTyped
<1>4. Connected(th[t], l) /\ ret[t] # Store!BlobError
  BY DEF AllSmooth, Smooth
<1>5. l.sock # "dropped" /\ (l.sock = "open" => l.loggedIn)
  BY <1>2, <1>4 DEF Connected, Busy
<1>6. q.op = "close" => l.flavour = "sync"
  BY <1>1, CallOfThread DEF ClosesClean, LinkTyped
<1>7. r.pc = "send" /\ Plain(r.cmd.name)
  BY StartsForm
<1>8. q.op = "put" => Made(q, r, dirs)
  <2> SUFFICES ASSUME q.op = "put" PROVE Made(q, r, dirs)
    OBVIOUS
  <2>1. r = MakeParents(Outside, Parents(q.key))
    BY DEF Starts
  <2>2. r.rest = Parents(q.key)
    BY <2>1, MadeParents, OutsideForm
  <2>3. Len(Parents(q.key)) \in Nat
    BY RequestForms, ParentsForm
  <2> QED
    BY <2>2, <2>3 DEF Made
<1> HIDE DEF r
<1>9. Smooth(q, r, l, dirs)
  BY <1>5, <1>6, <1>7, <1>8 DEF Smooth, Connected, Favoured, Plain, Logins, Ends
<1>10. link'[Uses[t]] = l
  BY <1>2 DEF Link
<1> QED
  BY <1>2, <1>3, <1>4, <1>9, <1>10, OneSmooth

LEMMA ReturnSmooth ==
    ASSUME Own, AllInStep, AllFit, AllSmooth, NEW t \in Threads, Return(t)
    PROVE  AllSmooth'
<1>1. /\ th'[t] = Outside /\ call'[t] = None /\ ret'[t] = None
      /\ \A u \in Threads \ {t} : th'[u] = th[u] /\ call'[u] = call[u] /\ ret'[u] = ret[u]
      /\ UNCHANGED <<link, dirs>> /\ th[t].pc = "done"
  BY DEF Return, AllInStep, AllFit, HistoryTyped, server
<1>2. ~ Busy(Outside) /\ ~ Busy(th[t])
  BY <1>1, OutsideForm DEF Busy
<1>3. Connected(th[t], Link(t))
  BY DEF AllSmooth, Smooth
<1>4. Smooth(None, Outside, link'[Uses[t]], dirs)
  BY <1>1, <1>2, <1>3 DEF Smooth, Connected, Busy, Link
<1>5. None # Store!BlobError
  BY NoneAssumption DEF Store!Outcomes
<1> QED
  BY <1>1, <1>4, <1>5, OneSmooth

LEMMA OpenAndCloseSmooth ==
    ASSUME Own, AllInStep, AllFit, AllSmooth, NEW t \in Threads, CloseNothing(t) \/ OpenDone(t)
    PROVE  AllSmooth'
<1>1. /\ Finish(t, Store!Done, Link(t)) /\ th[t].pc = "send"
      /\ Link(t).sock = "none" \/ th[t].cmd.name = "open"
  BY DEF CloseNothing, OpenDone, Ready
<1>2. IsLink(Link(t)) /\ Connected(th[t], Link(t))
  BY <1>1, SmoothOfThread
<1>3. Link(t).sock # "dropped" /\ (Link(t).sock = "open" => Link(t).loggedIn)
  BY <1>1, <1>2 DEF Connected
<1>4. Store!Done # Store!BlobError
  BY DEF Store!Done, Store!BlobError
<1> QED
  BY <1>1, <1>2, <1>3, <1>4, FinishSmooth

LEMMA ConnectSmooth ==
    ASSUME Own, AllInStep, AllFit, AllSmooth, NEW t \in Threads, Connect(t)
    PROVE  AllSmooth'
<1> DEFINE q == call[t]
           l == Link(t)
           u == [th[t] EXCEPT !.resume = Wanted(t)]
           r == Expects(u, "220")
           h == HangUp(l)
           p == Reply(220, None)
           m == [h EXCEPT !.sock = "open", !.wire = <<p>>]
<1>1. Continues(t, r, m) /\ th[t].pc = "send"
  BY DEF Connect, Connecting
<1>2. /\ IsPlace(th[t]) /\ AtRest(l)
      /\ q.op = "close" => l.flavour = "sync"
      /\ q.op = "put" => Made(q, th[t], dirs)
  BY <1>1, SmoothOfThread, PlaceOfThread
<1>3. IsPlace(u) /\ u.rest = th[t].rest
  BY <1>2 DEF IsPlace
<1> HIDE DEF u
<1>4. r.pc = "await" /\ r.cmd = Command("220", None) /\ r.rest = th[t].rest
  BY <1>3, ExpectsFields
<1>5. r.cmd.name = "220"
  BY <1>4 DEF Command
<1> HIDE DEF r
<1>6. IsLink(h) /\ h.flavour = l.flavour /\ h.buffer = <<>> /\ h.inbox = <<>>
  BY <1>2, HangUpForm DEF AtRest, Silent, NoWork, HangUp, Disconnected
<1>7. p.code = 220
  BY DEF Reply
<1> HIDE DEF h, p
<1>8. /\ m.sock = "open" /\ m.flavour = l.flavour /\ m.buffer = <<>> /\ m.inbox = <<>>
      /\ m.wire = <<p>>
  BY <1>6 DEF IsLink
<1> HIDE DEF m, l
<1>9. \A s : (OneReply(m, s) => s = p) /\ \A x : ~ TwoReplies(m, x, s)
  BY <1>8, RepliesApart DEF OneReply
<1>10. Favoured(r, m, dirs)
  BY <1>4, <1>5, <1>7, <1>9 DEF Favoured, Favours, Accepted
<1>11. Connected(r, m) /\ Busy(r)
  BY <1>4, <1>5, <1>8 DEF Connected, Busy
<1>12. q.op = "put" => Made(q, r, dirs)
  BY <1>2, <1>4 DEF Made
<1>13. Smooth(q, r, m, dirs)
  BY <1>2, <1>4, <1>5, <1>8, <1>10, <1>11, <1>12 DEF Smooth
<1> QED
  BY <1>1, <1>13, ContinuesSmooth

LEMMA SendSmooth ==
    ASSUME Own, AllInStep, AllFit, AllSmooth, NEW t \in Threads, Send(t)
    PROVE  AllSmooth'
<1> DEFINE q == call[t]
           l == Link(t)
           r == [th[t] EXCEPT !.pc = "await"]
           m == IF l.sock = "open" THEN [l EXCEPT !.inbox = Append(@, th[t].cmd)] ELSE l
<1>1. Continues(t, r, m) /\ th[t].pc = "send"
  BY DEF Send, Sending, Ready
<1>2. /\ IsPlace(th[t]) /\ IsLink(l) /\ AtRest(l) /\ Connected(th[t], l)
      /\ q.op = "close" => l.flavour = "sync"
      /\ th[t].cmd.name \notin {"220", "226, failing"}
      /\ q.op = "put" => Made(q, th[t], dirs)
  BY <1>1, SmoothOfThread, PlaceOfThread
<1>3. r.pc = "await" /\ r.cmd = th[t].cmd /\ r.rest = th[t].rest
  BY <1>2 DEF IsPlace
<1>4. /\ m.sock = l.sock /\ m.flavour = l.flavour /\ m.loggedIn = l.loggedIn
      /\ m.wire = l.wire /\ m.buffer = l.buffer
  BY <1>2 DEF IsLink
<1> HIDE DEF r, m, l
<1>5. Silent(m)
  BY <1>2, <1>4 DEF AtRest, Silent
<1>6. Favoured(r, m, dirs)
  BY <1>3, <1>5, RepliesApart DEF Favoured
<1>7. Connected(r, m)
  BY <1>1, <1>2, <1>3, <1>4 DEF Connected, Busy
<1>8. Smooth(q, r, m, dirs)
  BY <1>2, <1>3, <1>4, <1>6, <1>7 DEF Smooth, Made
<1> QED
  BY <1>1, <1>8, ContinuesSmooth

LEMMA RecvSmooth ==
    ASSUME Own, AllInStep, AllFit, AllSmooth, NEW t \in Threads, Recv(t)
    PROVE  AllSmooth'
<1> DEFINE q == call[t]
           r == th[t]
           l == Link(t)
<1>1. PICK n \in 1 .. Len(l.wire), rest \in {None, l.bye} :
        Continues(t, r, [l EXCEPT
            !.buffer = SubSeq(l.wire, 1, n),
            !.wire = SubSeq(l.wire, n + 1, Len(l.wire)),
            !.left = rest,
            !.bye = IF rest = None THEN @ ELSE None])
  BY DEF Recv
<1> DEFINE m == [l EXCEPT !.buffer = SubSeq(l.wire, 1, n),
                          !.wire = SubSeq(l.wire, n + 1, Len(l.wire)),
                          !.left = rest,
                          !.bye = IF rest = None THEN @ ELSE None]
<1>2. r.pc = "await" /\ l.buffer = <<>>
  BY DEF Recv, Reads
<1>3. /\ IsLink(l) /\ InStep(r, l) /\ Busy(r) /\ Connected(r, l) /\ Favoured(r, l, dirs)
      /\ q.op = "close" => l.flavour = "sync"
      /\ r.cmd.name # "226, failing"
      /\ r.cmd.name = "220" => r.pc = "await" /\ l.inbox = <<>>
      /\ q.op = "put" => Made(q, r, dirs)
  BY <1>2, SmoothOfThread
<1>4. /\ m.sock = l.sock /\ m.flavour = l.flavour /\ m.loggedIn = l.loggedIn
      /\ m.inbox = l.inbox /\ m.chan = l.chan
      /\ m.buffer = SubSeq(l.wire, 1, n) /\ m.wire = SubSeq(l.wire, n + 1, Len(l.wire))
  BY <1>3 DEF IsLink
<1>5. Continues(t, r, m)
  BY <1>1
<1> HIDE DEF m, l, r
<1>6. /\ \A p : OneReply(m, p) => OneReply(l, p)
      /\ \A p, s : TwoReplies(m, p, s) => TwoReplies(l, p, s)
      /\ ~ Silent(m)
  BY <1>2, <1>3, <1>4, RecvReplies
<1>7. \A p : Favours(r, l, dirs, p) => Favours(r, m, dirs, p)
  BY <1>4 DEF Favours
<1>8. Favoured(r, m, dirs)
  <2>1. \A p : OneReply(m, p) => Favours(r, m, dirs, p)
    BY <1>2, <1>3, <1>6, <1>7 DEF Favoured
  <2>2. ASSUME NEW p, NEW s, TwoReplies(m, p, s) PROVE Accepted(r.cmd.name, p.code) /\ s.code = 226
    <3>1. TwoReplies(l, p, s)
      BY <1>6, <2>2
    <3>2. r.pc = "await" /\ Favoured(r, l, dirs)
      BY <1>2, <1>3
    <3> QED
      BY ONLY <3>1, <3>2 DEF Favoured
  <2> QED
    BY <1>2, <2>1, <2>2 DEF Favoured
<1>9. Connected(r, m)
  BY <1>3, <1>4, <1>6 DEF Connected
<1>10. Smooth(q, r, m, dirs)
  BY <1>2, <1>3, <1>4, <1>8, <1>9 DEF Smooth
<1> QED
  BY <1>5, <1>10, ContinuesSmooth DEF r

LEMMA LoginSmooth ==
    ASSUME Own, AllInStep, AllFit, AllSmooth, NEW t \in Threads, TakeLogin(t)
    PROVE  AllSmooth'
<1> DEFINE q == call[t]
           name == th[t].cmd.name
           next == LoginNext(name, Code(t))
           l == Taken(t)
<1>1. Awaits(t, Logins) /\ Logins \cap Transfers = {}
  BY DEF TakeLogin, Logins, Awaits, Transfers
<1>2. /\ th[t].pc = "await" /\ name \in Logins /\ IsLink(l) /\ AtRest(l)
      /\ Accepted(name, Code(t))
      /\ name \in {"USER", "PASS"} /\ Code(t) = 230 => l.loggedIn
      /\ l.sock = Link(t).sock /\ l.flavour = Link(t).flavour /\ l.loggedIn = Link(t).loggedIn
      /\ name # "QUIT" => l.sock # "dropped"
      /\ name \notin {"220", "USER", "PASS"} => (l.sock = "open" => l.loggedIn)
  BY <1>1, HearsSmooth DEF Favours
<1>3. Busy(th[t]) /\ IsPlace(th[t]) /\ (q.op = "put" => Made(q, th[t], dirs))
  BY <1>2, SmoothOfThread
<1>4. Plain(th[t].resume.name)
  BY <1>1, <1>2, TakenForm DEF Awaits
<1>5. l.sock # "dropped"
  BY <1>2 DEF Logins
<1>6. /\ next # "failed"
      /\ l.sock = "open" => l.loggedIn \/ next \in {"USER", "PASS"}
      /\ next \in {"USER", "PASS", "CWD", "TYPE", "done"}
  BY <1>2 DEF LoginNext, Accepted, Logins
<1> HIDE DEF next
<1>7. CASE next = "done"
  <2> DEFINE r == [th[t] EXCEPT !.pc = "send", !.cmd = th[t].resume, !.resume = None]
  <2>1. Continues(t, r, l)
    BY <1>7 DEF TakeLogin, next
  <2>2. r.pc = "send" /\ r.cmd = th[t].resume /\ r.rest = th[t].rest
    BY <1>3 DEF IsPlace
  <2> HIDE DEF r, l
  <2>3. r.cmd.name \notin {"220", "226, failing"}
    BY <1>4, <2>2 DEF Plain, Logins, Ends
  <2>4. q.op = "put" => Made(q, r, dirs)
    BY <1>3, <2>2 DEF Made
  <2>5. l.sock = "open" => l.loggedIn
    BY <1>6, <1>7
  <2> QED
    BY <1>2, <1>3, <1>5, <2>1, <2>2, <2>3, <2>4, <2>5, GoesOnSmooth
<1>8. CASE next # "done"
  <2> DEFINE r == Sends(th[t], next, None)
  <2>1. Continues(t, r, l)
    BY <1>6, <1>8 DEF TakeLogin, next
  <2>2. r.pc = "send" /\ r.cmd = Command(next, None) /\ r.rest = th[t].rest
    BY <1>3, SendsFields
  <2> HIDE DEF r, l
  <2>3. r.cmd.name = next
    BY <2>2 DEF Command
  <2>4. q.op = "put" => Made(q, r, dirs)
    BY <1>3, <2>2 DEF Made
  <2>5. r.cmd.name \notin {"220", "226, failing"}
    BY <1>6, <2>3
  <2> QED
    BY <1>2, <1>3, <1>5, <1>6, <2>1, <2>2, <2>3, <2>4, <2>5, GoesOnSmooth
<1> QED
  BY <1>7, <1>8

LEMMA QuitReplySmooth ==
    ASSUME Own, AllInStep, AllFit, AllSmooth, NEW t \in Threads, TakeQuit(t)
    PROVE  AllSmooth'
<1>1. Awaits(t, {"QUIT"}) /\ {"QUIT"} \cap Transfers = {} /\ Plain("QUIT")
  BY DEF TakeQuit, Transfers, Plain, Logins, Ends
<1>2. th[t].pc = "await" /\ th[t].cmd.name = "QUIT"
  BY <1>1 DEF Awaits
<1>3. Asks(call[t], th[t]) /\ (call[t].op = "close" => Link(t).flavour = "sync")
  BY <1>2, SmoothOfThread
<1>4. Prepares(call[t], th[t], th[t].cmd)
  BY <1>1, <1>2, <1>3, AsksByName
<1>5. call[t].op = "close"
  <2>1. \A name, arg : Command(name, arg).name = name
    BY DEF Command
  <2> QED
    BY <1>2, <1>4, <2>1 DEF Prepares
<1>6. Finish(t, Store!Done, HangUp(Taken(t)))
  BY <1>2, <1>3, <1>5 DEF TakeQuit, HangsUp, Async
<1>7. Store!Done # Store!BlobError
  BY DEF Store!Done, Store!BlobError
<1>8. IsLink(HangUp(Taken(t))) /\ HangUp(Taken(t)).sock = "none"
  BY HangUpForm
<1> QED
  BY <1>6, <1>7, <1>8, FinishSmooth

LEMMA FeatReplySmooth ==
    ASSUME Own, AllInStep, AllFit, AllSmooth, NEW t \in Threads, TakeFeat(t)
    PROVE  AllSmooth'
<1> DEFINE q == call[t]
           f == IF Code(t) = 211 THEN Info(t) ELSE {}
           r == Probe(th[t], q, f)
           l == Taken(t)
           m == [l EXCEPT !.features = f]
<1>1. Continues(t, r, m) /\ Awaits(t, {"FEAT"}) /\ {"FEAT"} \cap Transfers = {} /\ Plain("FEAT")
  BY DEF TakeFeat, Transfers, Plain, Logins, Ends
<1>2. /\ th[t].pc = "await" /\ th[t].cmd.name = "FEAT" /\ IsLink(l)
      /\ l.sock = Link(t).sock /\ l.flavour = Link(t).flavour /\ l.loggedIn = Link(t).loggedIn
      /\ l.sock # "dropped" /\ (l.sock = "open" => l.loggedIn)
  BY <1>1, HearsSmooth
<1>3. Busy(th[t]) /\ IsPlace(th[t]) /\ Asks(q, th[t])
  BY <1>2, SmoothOfThread
<1>4. q.op # "put"
  <2>1. Prepares(q, th[t], th[t].cmd)
    BY <1>1, <1>2, <1>3, AsksByName
  <2>2. \A name, arg : Command(name, arg).name = name
    BY DEF Command
  <2> QED
    BY <1>2, <2>1, <2>2 DEF Prepares
<1>5. r.pc = "send" /\ Plain(r.cmd.name)
  BY <1>3, ProbeForm
<1>6. m.sock = l.sock /\ m.flavour = l.flavour /\ m.loggedIn = l.loggedIn
  BY <1>2 DEF IsLink
<1> HIDE DEF r, m, l
<1>7. r.cmd.name \notin {"220", "226, failing"}
  BY <1>5 DEF Plain, Logins, Ends
<1> QED
  BY <1>1, <1>2, <1>3, <1>4, <1>5, <1>6, <1>7, GoesOnSmooth

LEMMA ProbeReplySmooth ==
    ASSUME Own, AllInStep, AllFit, AllSmooth, NEW t \in Threads, TakeProbe(t)
    PROVE  AllSmooth'
<1> DEFINE q == call[t]
           l == Taken(t)
           name == th[t].cmd.name
           yes == \/ name = "SIZE" /\ Code(t) = 213
                  \/ name = "MLST" /\ Code(t) = 250 /\ Info(t) = [file |-> TRUE]
           no == \/ Code(t) = 550
                 \/ name = "MLST" /\ Code(t) = 250
           left == IF name = "SIZE" THEN Link(t).features \ {"SIZE"} ELSE {}
<1>1. /\ Awaits(t, {"SIZE", "MLST"}) /\ {"SIZE", "MLST"} \cap Transfers = {}
      /\ Plain("SIZE") /\ Plain("MLST")
  BY DEF TakeProbe, Transfers, Plain, Logins, Ends
<1>2. /\ th[t].pc = "await" /\ th[t].cmd.name \in {"SIZE", "MLST"} /\ IsLink(l)
      /\ l.sock = Link(t).sock /\ l.flavour = Link(t).flavour /\ l.loggedIn = Link(t).loggedIn
      /\ l.sock # "dropped" /\ (l.sock = "open" => l.loggedIn)
  BY <1>1, HearsSmooth
<1>3. Busy(th[t]) /\ IsPlace(th[t]) /\ Asks(q, th[t])
  BY <1>2, SmoothOfThread
<1>4. q.op = "exists"
  BY <1>1, <1>2, <1>3, AsksByName, PreparesByName
<1>5. Finish(t, [found |-> yes], l) \/ Continues(t, Probe(th[t], q, left), l)
  BY DEF TakeProbe
<1> HIDE DEF l, yes, left
<1>6. CASE Finish(t, [found |-> yes], l)
  <2>1. [found |-> yes] # Store!BlobError
    BY DEF Store!BlobError
  <2> QED
    BY <1>2, <1>6, <2>1, FinishSmooth
<1>7. CASE Continues(t, Probe(th[t], q, left), l)
  <2> DEFINE r == Probe(th[t], q, left)
  <2>1. r.pc = "send" /\ Plain(r.cmd.name)
    BY <1>3, ProbeForm
  <2>2. Continues(t, r, l)
    BY <1>7
  <2> HIDE DEF r
  <2>3. r.cmd.name \notin {"220", "226, failing"}
    BY <2>1 DEF Plain, Logins, Ends
  <2> QED
    BY <1>2, <1>3, <1>4, <2>1, <2>2, <2>3, GoesOnSmooth
<1> QED
  BY <1>5, <1>6, <1>7

LEMMA MkdReplySmooth ==
    ASSUME Own, AllInStep, AllFit, AllSmooth, NEW t \in Threads, TakeMkd(t)
    PROVE  AllSmooth'
<1> DEFINE q == call[t]
           l == Taken(t)
           r == MakeParents(th[t], Tail(th[t].rest))
           w == Parents(q.key)
<1>1. /\ Awaits(t, {"MKD"}) /\ {"MKD"} \cap Transfers = {} /\ Plain("MKD")
  BY DEF TakeMkd, Transfers, Plain, Logins, Ends
<1>2. /\ th[t].pc = "await" /\ th[t].cmd.name = "MKD" /\ IsLink(l)
      /\ Accepted("MKD", Code(t)) /\ Head(th[t].rest) \in dirs
      /\ l.sock = Link(t).sock /\ l.flavour = Link(t).flavour /\ l.loggedIn = Link(t).loggedIn
      /\ l.sock # "dropped" /\ (l.sock = "open" => l.loggedIn)
  BY <1>1, HearsSmooth DEF Favours
<1>3. /\ Busy(th[t]) /\ IsPlace(th[t]) /\ Asks(q, th[t]) /\ q \in Calls /\ Follows(q, th[t])
      /\ q.op = "put" => Made(q, th[t], dirs)
  BY <1>2, SmoothOfThread
<1>4. q.op = "put" /\ th[t].rest # <<>>
  BY <1>1, <1>2, <1>3, AsksByName, PreparesByName
<1>5. Continues(t, r, l)
  BY <1>2 DEF TakeMkd, Accepted
<1>6. r.pc = "send" /\ r.rest = Tail(th[t].rest) /\ r.cmd.name \notin {"220", "226, failing"}
  BY <1>3, MakeParentsForm, MadeParents
<1> HIDE DEF r, l
<1>7. q.key \in Keys /\ Suffix(th[t].rest, w)
  BY <1>3, <1>4, RequestForms DEF Follows, Whole
<1>8. w \in Seq(AllDirs) /\ Len(w) \in Nat
  BY <1>7, ParentsForm
<1> HIDE DEF w
<1>9. /\ Len(th[t].rest) \in 1 .. Len(w) /\ Len(Tail(th[t].rest)) = Len(th[t].rest) - 1
      /\ Head(th[t].rest) = w[Len(w) - Len(th[t].rest) + 1]
  BY <1>4, <1>7, <1>8, SuffixForms
<1>10. Made(q, r, dirs)
  <2> SUFFICES ASSUME NEW i \in 1 .. Len(w) - Len(r.rest) PROVE w[i] \in dirs
    BY DEF Made, w
  <2>1. CASE i = Len(w) - Len(th[t].rest) + 1
    BY <1>2, <1>9, <2>1
  <2>2. CASE i # Len(w) - Len(th[t].rest) + 1
    <3>1. Len(r.rest) = Len(th[t].rest) - 1
      BY <1>6, <1>9
    <3>2. i \in 1 .. Len(w) - Len(th[t].rest)
      BY ONLY <1>8, <1>9, <2>2, <3>1, i \in 1 .. Len(w) - Len(r.rest)
    <3> QED
      BY <1>3, <1>4, <3>2 DEF Made, w
  <2> QED
    BY <2>1, <2>2
<1> QED
  BY <1>2, <1>3, <1>5, <1>6, <1>10, GoesOnSmooth

LEMMA DeleReplySmooth ==
    ASSUME Own, AllInStep, AllFit, AllSmooth, NEW t \in Threads, TakeDele(t)
    PROVE  AllSmooth'
<1> DEFINE l == Taken(t)
<1>1. Awaits(t, {"DELE"}) /\ {"DELE"} \cap Transfers = {}
  BY DEF TakeDele, Transfers
<1>2. /\ IsLink(l) /\ Accepted("DELE", Code(t))
      /\ l.sock # "dropped" /\ (l.sock = "open" => l.loggedIn)
  BY <1>1, HearsSmooth DEF Favours
<1>3. Finish(t, Store!KeyError, l) \/ Finish(t, Store!Done, l)
  BY <1>2 DEF TakeDele, Accepted
<1>4. Store!Done # Store!BlobError /\ Store!KeyError # Store!BlobError
  BY DEF Store!Done, Store!BlobError, Store!KeyError
<1> QED
  BY <1>2, <1>3, <1>4, FinishSmooth

LEMMA PasvReplySmooth ==
    ASSUME Own, AllInStep, AllFit, AllSmooth, NEW t \in Threads, TakePasv(t)
    PROVE  AllSmooth'
<1> DEFINE q == call[t]
           l == Link(t)
           m == Taken(t)
           r == [th[t] EXCEPT !.pc = "dial", !.port = Info(t).port]
<1>1. Awaits(t, {"PASV"}) /\ {"PASV"} \cap Transfers = {}
  BY DEF TakePasv, Transfers
<1>2. /\ th[t].pc = "await" /\ th[t].cmd.name = "PASV" /\ Code(t) = 227
      /\ l.chan[Info(t).port].state = "listen" /\ m.chan = l.chan /\ m.flavour = l.flavour
      /\ m.sock # "dropped" /\ (m.sock = "open" => m.loggedIn)
  BY <1>1, HearsSmooth DEF Favours, Accepted
<1>3. /\ IsPlace(th[t]) /\ (q.op = "close" => l.flavour = "sync")
      /\ q.op = "put" => Made(q, th[t], dirs)
  BY <1>2, SmoothOfThread
<1>4. Continues(t, r, m)
  BY <1>2 DEF TakePasv
<1>5. r.pc = "dial" /\ r.port = Info(t).port /\ r.cmd = th[t].cmd /\ r.rest = th[t].rest
  BY <1>3 DEF IsPlace
<1> HIDE DEF r, m, l
<1>6. Smooth(q, r, m, dirs)
  BY <1>2, <1>3, <1>5 DEF Smooth, Connected, Favoured, Made
<1> QED
  BY <1>4, <1>6, ContinuesSmooth

LEMMA DialSmooth ==
    ASSUME Own, AllInStep, AllFit, AllSmooth, NEW t \in Threads, Dial(t) \/ DialRefused(t)
    PROVE  AllSmooth'
<1> DEFINE q == call[t]
           l == Link(t)
           c == Chan("connected", None)
           m == [l EXCEPT !.chan[th[t].port] = c]
           r == CASE q.op = "put" -> Sends(th[t], "STOR", q.key)
                  [] q.op = "get" -> Sends(th[t], "RETR", q.key)
                  [] OTHER        -> Sends(th[t], "LIST", Path(t))
<1>1. th[t].pc = "dial"
  BY DEF Dial, DialRefused
<1>2. /\ Busy(th[t]) /\ IsPlace(th[t]) /\ IsLink(l) /\ Asks(q, th[t]) /\ Connected(th[t], l)
      /\ l.chan[th[t].port].state = "listen"
      /\ q.op = "put" => Made(q, th[t], dirs)
  BY <1>1, SmoothOfThread
<1>3. th[t].cmd.name = "PASV"
  BY <1>1, <1>2 DEF Asks
<1>4. l.sock # "dropped" /\ (l.sock = "open" => l.loggedIn)
  BY <1>1, <1>2, <1>3 DEF Connected
<1>5. Continues(t, r, m)
  BY <1>2 DEF Dial, DialRefused
<1>6. PICK name \in Transfers : \E arg : r = Sends(th[t], name, arg)
  BY DEF Transfers
<1>7. PICK arg : r = Sends(th[t], name, arg)
  BY <1>6
<1>8. r.pc = "send" /\ r.cmd = Command(name, arg) /\ r.rest = th[t].rest
  BY <1>2, <1>7, SendsFields
<1>9. m.sock = l.sock /\ m.flavour = l.flavour /\ m.loggedIn = l.loggedIn
  BY <1>2 DEF IsLink
<1> HIDE DEF r, c, m
<1>10. r.cmd.name = name
  BY <1>8 DEF Command
<1>11. r.cmd.name \notin {"220", "226, failing"}
  BY <1>10 DEF Transfers
<1>12. q.op = "put" => Made(q, r, dirs)
  BY <1>2, <1>8 DEF Made
<1> QED
  BY <1>2, <1>4, <1>5, <1>8, <1>9, <1>11, <1>12, GoesOnSmooth

\* The connection is never found closed.
LEMMA NeverCutOff ==
    ASSUME AllInStep, AllFit, AllSmooth, NEW t \in Threads
    PROVE  ~ RecvEnds(t) /\ ~ SendFails(t) /\ ~ TakeFailing(t)
<1>1. ASSUME RecvEnds(t) PROVE FALSE
  <2>1. th[t].pc = "await" /\ Silent(Link(t)) /\ Link(t).sock = "dropped"
    BY <1>1 DEF RecvEnds, Reads, Silent
  <2> QED
    BY <2>1, SmoothOfThread DEF Connected
<1>2. ASSUME SendFails(t) PROVE FALSE
  <2>1. th[t].pc = "send" /\ Link(t).sock = "dropped"
    BY <1>2 DEF SendFails, Sending, Ready
  <2> QED
    BY <2>1, SmoothOfThread DEF Connected
<1>3. ASSUME TakeFailing(t) PROVE FALSE
  <2>1. th[t].pc = "await" /\ th[t].cmd.name = "226, failing"
    BY <1>3 DEF TakeFailing, Awaits
  <2> QED
    BY <2>1, SmoothOfThread
<1> QED
  BY <1>1, <1>2, <1>3

LEMMA YieldedSmooth ==
    ASSUME Own, AllInStep, AllFit, AllSmooth, NEW t \in Threads, NEW ks, NEW l, Yielded(t, ks, l),
           IsLink(l), l.sock # "dropped", l.sock = "open" => l.loggedIn
    PROVE  AllSmooth'
<1> DEFINE o == IF call[t].op = "scan" THEN [keys |-> ks] ELSE [found |-> call[t].key \in ks]
<1>1. Finish(t, o, l)
  BY DEF Yielded
<1>2. o # Store!BlobError
  BY DEF Store!BlobError
<1> HIDE DEF o
<1> QED
  BY <1>1, <1>2, FinishSmooth

LEMMA TransferReplySmooth ==
    ASSUME Own, AllInStep, AllFit, AllSmooth, NEW t \in Threads, TakeTransfer(t)
    PROVE  AllSmooth'
<1> DEFINE q == call[t]
           l == Link(t)
           m == Taken(t)
           name == th[t].cmd.name
           h == Head(l.buffer)
           r == [th[t] EXCEPT !.pc = IF name = "STOR" THEN "fill" ELSE "data"]
<1>1. th[t].pc = "await" /\ name \in Transfers /\ l.buffer # <<>>
  BY DEF TakeTransfer, Awaits, Transfers
<1>2. /\ Busy(th[t]) /\ IsPlace(th[t]) /\ IsLink(l) /\ InStep(th[t], l) /\ Connected(th[t], l)
      /\ Favoured(th[t], l, dirs)
      /\ q.op = "close" => l.flavour = "sync"
      /\ q.op = "put" => Made(q, th[t], dirs)
  BY <1>1, SmoothOfThread
<1>3. /\ m.sock = l.sock /\ m.flavour = l.flavour /\ m.loggedIn = l.loggedIn
      /\ m.wire = l.wire /\ m.buffer = Tail(l.buffer) /\ IsLink(m)
  BY <1>2 DEF Taken, IsLink
<1>4. name \notin {"220", "USER", "PASS", "QUIT", "226, failing"}
  BY <1>1 DEF Transfers
<1>5. m.sock # "dropped" /\ (m.sock = "open" => m.loggedIn)
  BY <1>2, <1>3, <1>4 DEF Connected
<1>6. h.code = Code(t)
  BY DEF Code
<1>7. CASE Code(t) \in {125, 150}
  <2>1. Continues(t, r, m)
    BY <1>7 DEF TakeTransfer
  <2>2. r.pc \in {"data", "fill"} /\ r.cmd = th[t].cmd /\ r.rest = th[t].rest
    BY <1>2 DEF IsPlace
  <2> HIDE DEF r, m, l, h
  <2>3. ASSUME NEW s, OneReply(m, s) PROVE s.code = 226
    <3>1. TwoReplies(l, h, s)
      BY <1>1, <1>2, <1>3, <2>3, SecondReply DEF h
    <3> QED
      BY <1>1, <1>2, <3>1 DEF Favoured
  <2>4. Favoured(r, m, dirs)
    BY <2>2, <2>3 DEF Favoured
  <2>5. Connected(r, m)
    BY <1>5 DEF Connected
  <2>6. q.op = "put" => Made(q, r, dirs)
    BY <1>2, <2>2 DEF Made
  <2>7. Smooth(q, r, m, dirs)
    BY <1>2, <1>3, <1>4, <2>2, <2>4, <2>5, <2>6 DEF Smooth
  <2> QED
    BY <2>1, <2>7, ContinuesSmooth
<1>8. CASE Code(t) \notin {125, 150}
  <2>1. OneReply(l, h)
    BY <1>1, <1>2, <1>6, <1>8, RefusalAlone DEF Begun
  <2>2. Accepted(name, Code(t))
    BY <1>1, <1>2, <1>6, <2>1 DEF Favoured, Favours
  <2>3. Code(t) = 550 /\ name \in {"RETR", "LIST"}
    <3>1. name = "STOR" => Code(t) = 150
      BY <2>2 DEF Accepted
    <3>2. name \in {"RETR", "LIST"} => Code(t) \in {150, 550}
      BY <2>2 DEF Accepted
    <3> QED
      BY <1>1, <1>8, <3>1, <3>2 DEF Transfers
  <2>4. Finish(t, Store!KeyError, m) \/ Yielded(t, th[t].got, m)
    BY <2>3 DEF TakeTransfer
  <2>5. Store!KeyError # Store!BlobError
    BY DEF Store!KeyError, Store!BlobError
  <2> HIDE DEF m
  <2> QED
    BY <1>3, <1>5, <2>4, <2>5, FinishSmooth, YieldedSmooth
<1> QED
  BY <1>7, <1>8

\* The transfer is over for the client, and the reply to it to come.
LEMMA AwaitEndSmooth ==
    ASSUME Own, AllInStep, AllFit, AllSmooth, NEW t \in Threads, th[t].pc \in {"data", "fill"},
           NEW r, NEW m, Continues(t, r, m), r.pc = "await", r.cmd.name = "226",
           r.rest = th[t].rest, m.sock = Link(t).sock, m.flavour = Link(t).flavour,
           m.loggedIn = Link(t).loggedIn, m.wire = Link(t).wire, m.buffer = Link(t).buffer
    PROVE  AllSmooth'
<1> DEFINE q == call[t]
           l == Link(t)
<1>1. /\ Busy(th[t]) /\ InStep(th[t], l) /\ Connected(th[t], l) /\ Favoured(th[t], l, dirs)
      /\ q.op = "close" => l.flavour = "sync"
      /\ q.op = "put" => Made(q, th[t], dirs)
  BY SmoothOfThread
<1>2. Moving(th[t], l)
  BY <1>1 DEF InStep, Between, ToSend, ToDial, Asking, Lost, AskingTransfer, Ending
<1>3. l.sock # "dropped" /\ (l.sock = "open" => l.loggedIn)
  BY <1>1, <1>2 DEF Connected, Moving, Transfers
<1>4. \A p, s : ~ TwoReplies(l, p, s)
  <2>1. Silent(l) \/ \E p : OneReply(l, p)
    BY <1>2 DEF Moving, Gone, AtRest
  <2> QED
    BY <2>1, RepliesApart
<1>5. /\ \A p : OneReply(m, p) => OneReply(l, p)
      /\ \A p, s : TwoReplies(m, p, s) => TwoReplies(l, p, s)
  BY DEF OneReply, TwoReplies
<1> HIDE DEF l
<1>6. \A p : OneReply(m, p) => p.code = 226
  BY <1>1, <1>5 DEF Favoured
<1>7. Favoured(r, m, dirs)
  <2>1. \A p : OneReply(m, p) => Favours(r, m, dirs, p)
    BY <1>6 DEF Favours, Accepted
  <2> QED
    BY <1>4, <1>5, <2>1 DEF Favoured
<1>8. Connected(r, m)
  BY <1>3 DEF Connected, l
<1>9. q.op = "put" => Made(q, r, dirs)
  BY <1>1 DEF Made
<1>10. Smooth(q, r, m, dirs)
  BY <1>1, <1>7, <1>8, <1>9 DEF Smooth, l
<1> QED
  BY <1>10, ContinuesSmooth

LEMMA DataSmooth ==
    ASSUME Own, AllInStep, AllFit, AllSmooth, NEW t \in Threads, ReadData(t) \/ FillData(t)
    PROVE  AllSmooth'
<1> DEFINE l == Link(t)
           e == Expects(th[t], "226")
<1>1. th[t].pc \in {"data", "fill"}
  BY DEF ReadData, FillData
<1>2. IsPlace(th[t]) /\ IsLink(l)
  BY <1>1, SmoothOfThread
<1>3. e.pc = "await" /\ e.cmd = Command("226", None) /\ e.rest = th[t].rest /\ IsPlace(e)
  BY <1>2, ExpectsFields, ExpectsForm
<1>4. e.cmd.name = "226"
  BY <1>3 DEF Command
<1>5. CASE ReadData(t)
  <2>1. PICK d : Continues(t, [e EXCEPT !.data = d], l)
    BY <1>5 DEF ReadData
  <2> DEFINE r == [e EXCEPT !.data = d]
  <2> HIDE DEF e, l
  <2>2. r.pc = "await" /\ r.cmd.name = "226" /\ r.rest = th[t].rest
    BY <1>3, <1>4 DEF IsPlace
  <2>3. Continues(t, r, l)
    BY <2>1
  <2> HIDE DEF r
  <2> QED
    BY <1>1, <2>2, <2>3, AwaitEndSmooth DEF l
<1>6. CASE FillData(t)
  <2>1. PICK d : Continues(t, e, IF MyChan(t).state # "connected" THEN l
                                 ELSE [l EXCEPT !.chan[th[t].port] = Chan("sent", d)])
    BY <1>6 DEF FillData
  <2> DEFINE s == [l EXCEPT !.chan[th[t].port] = Chan("sent", d)]
             m == IF MyChan(t).state # "connected" THEN l ELSE s
  <2>2. /\ s.sock = l.sock /\ s.flavour = l.flavour /\ s.loggedIn = l.loggedIn
        /\ s.wire = l.wire /\ s.buffer = l.buffer
    BY <1>2 DEF IsLink
  <2>3. Continues(t, e, m)
    BY <2>1
  <2> HIDE DEF s, e, l
  <2>4. /\ m.sock = l.sock /\ m.flavour = l.flavour /\ m.loggedIn = l.loggedIn
        /\ m.wire = l.wire /\ m.buffer = l.buffer
    BY <2>2
  <2> HIDE DEF m
  <2> QED
    BY <1>1, <1>3, <1>4, <2>3, <2>4, AwaitEndSmooth DEF l
<1> QED
  BY <1>5, <1>6

LEMMA DescendSmooth ==
    ASSUME Own, AllInStep, AllFit, AllSmooth, NEW t \in Threads, Awaits(t, {"226"}),
           call[t].op # "put", Descend(t)
    PROVE  AllSmooth'
<1> DEFINE m == Taken(t)
           u == [th[t] EXCEPT !.rest = Tail(@), !.port = None]
           r == Sends(u, "PASV", None)
           c == CloseData(m, th[t].port)
<1>1. {"226"} \cap Transfers = {}
  BY DEF Transfers
<1>2. /\ th[t].pc = "await" /\ IsLink(m) /\ m.sock # "dropped" /\ (m.sock = "open" => m.loggedIn)
      /\ m.sock = Link(t).sock /\ m.flavour = Link(t).flavour /\ m.loggedIn = Link(t).loggedIn
  BY <1>1, HearsSmooth
<1>3. Busy(th[t]) /\ IsPlace(th[t])
  BY <1>2, SmoothOfThread
<1>4. (\E ks : Yielded(t, ks, m)) \/ Continues(t, r, c)
  BY DEF Descend
<1>5. CASE \E ks : Yielded(t, ks, m)
  <2>1. PICK ks : Yielded(t, ks, m)
    BY <1>5
  <2> QED
    BY <1>2, <2>1, YieldedSmooth
<1>6. CASE Continues(t, r, c)
  <2>1. IsPlace(u)
    BY <1>3 DEF IsPlace
  <2> HIDE DEF u
  <2>2. r.pc = "send" /\ r.cmd.name = "PASV"
    BY <2>1, SendsForm
  <2>3. c.sock = m.sock /\ c.flavour = m.flavour /\ c.loggedIn = m.loggedIn
    BY <1>2 DEF CloseData, IsLink
  <2> HIDE DEF r, c, m
  <2> QED
    BY <1>2, <1>3, <1>6, <2>2, <2>3, GoesOnSmooth
<1> QED
  BY <1>4, <1>5, <1>6

LEMMA DoneReplySmooth ==
    ASSUME Own, AllInStep, AllFit, AllSmooth, NEW t \in Threads, TakeDone(t)
    PROVE  AllSmooth'
<1> DEFINE m == Taken(t)
<1>1. Awaits(t, {"226"}) /\ {"226"} \cap Transfers = {}
  BY DEF TakeDone, Transfers
<1>2. /\ IsLink(m) /\ m.sock # "dropped" /\ (m.sock = "open" => m.loggedIn) /\ Code(t) = 226
  BY <1>1, HearsSmooth DEF Favours, Accepted
<1>3. \/ Finish(t, Store!Done, m) \/ Finish(t, [value |-> th[t].data], m)
      \/ call[t].op # "put" /\ Descend(t)
  BY <1>2 DEF TakeDone
<1>4. Store!Done # Store!BlobError /\ \A d : [value |-> d] # Store!BlobError
  BY DEF Store!Done, Store!BlobError
<1> HIDE DEF m
<1> QED
  BY <1>1, <1>2, <1>3, <1>4, FinishSmooth, DescendSmooth

\* Nor has it said anything unasked.
LEMMA NothingTrails ==
    ASSUME AllTrail, faults = 0, NEW t \in Threads
    PROVE  ~ RecvRest(t) /\ ~ RecvJoins(t) /\ ~ TakeFarewell(t)
<1>1. Link(t).bye = None /\ Link(t).left = None
  BY UsesAssumption DEF AllTrail, Trailless, Link
<1> QED
  BY <1>1, ValuesAssumption DEF RecvRest, RecvJoins, TakeFarewell

LEMMA ClientStepSmooth ==
    ASSUME Own, AllInStep, AllTrail, faults = 0, AllFit, AllSmooth, NEW t \in Threads,
           Client(t) \/ SendFails(t)
    PROVE  AllSmooth'
<1>1. ~ RecvEnds(t) /\ ~ SendFails(t) /\ ~ TakeFailing(t)
  BY NeverCutOff
<1>2. ~ RecvRest(t) /\ ~ RecvJoins(t) /\ ~ TakeFarewell(t)
  BY NothingTrails
<1> QED
  BY <1>1, <1>2, OpenAndCloseSmooth, ConnectSmooth, SendSmooth, RecvSmooth, LoginSmooth, QuitReplySmooth,
     FeatReplySmooth, MkdReplySmooth, DeleReplySmooth, ProbeReplySmooth, PasvReplySmooth, DialSmooth,
     TransferReplySmooth, DataSmooth, DoneReplySmooth DEF Client

\* A client in step with the server is out of patience only when it is late.
LEMMA NeverLate ==
    ASSUME Own, AllInStep, AllTrail, AllFit, AllTrue, AllSmooth, timeouts = 0, timeouts' = 0, faults = 0,
           NEW t \in Threads
    PROVE  ~ Late(t) /\ ~ Cancel(t)
<1> DEFINE l == Link(t)
<1>1. ~ Cancel(t)
  BY DEF Cancel
<1>2. Timeout(t) => Quiet(Uses[t]) /\ ~ (timeouts < MaxTimeouts)
  BY DEF Timeout
<1>3. ASSUME RecvTimesOut(t) PROVE FALSE
  <2>1. Quiet(Uses[t]) /\ th[t].pc = "await" /\ l.buffer = <<>> /\ l.sock = "open"
    BY <1>2, <1>3 DEF RecvTimesOut, Reads, Quiet, Link
  <2>2. Lost(th[t], l)
    BY <2>1, NoWait
  <2> QED
    BY <2>1, <2>2 DEF AllTrail
<1>4. ASSUME DataTimesOut(t) PROVE FALSE
  <2>1. Quiet(Uses[t]) /\ th[t].pc = "data" /\ MyChan(t).state = "connected"
    BY <1>2, <1>4 DEF DataTimesOut
  <2>2. l.buffer # <<>>
    BY <2>1, NoWait DEF Lost
  <2>3. /\ InStep(th[t], l) /\ Completes(call[t], th[t], l, was[t], alone[t])
        /\ Favoured(th[t], l, dirs)
    BY <2>1, TruthOfThread, SmoothOfThread
  <2>4. Moving(th[t], l)
    BY <2>1, <2>3 DEF InStep, Between, ToSend, ToDial, Asking, Lost, AskingTransfer, Ending
  <2>5. PICK s : OneReply(l, s)
    BY <2>2, <2>4 DEF Moving, Gone, AtRest, Silent
  <2>6. s.code = 226
    BY <2>1, <2>3, <2>5 DEF Favoured
  <2>7. th[t].cmd.name \in Transfers /\ Closing(th[t], l, s)
    BY <2>1, <2>4, <2>5 DEF Moving, Closing
  <2>8. l.chan[th[t].port].state = "received"
    BY <2>3, <2>6, <2>7 DEF Completes
  <2> QED
    BY <2>1, <2>8 DEF MyChan
<1> QED
  BY <1>1, <1>3, <1>4 DEF Late

-----------------------------------------------------------------------------
(* Steps of the server. *)

\* The server answers the command of the thread of b with p.
LEMMA AnswersSmooth ==
    ASSUME Own, AllInStep, AllFit, AllTrue, AllSmooth, NEW b \in Blobs, Pending(b),
           UNCHANGED <<th, callers>>, dirs \subseteq dirs',
           NEW m, NEW p, link' = [link EXCEPT ![b] = m],
           m.sock = "dropped" => Head(link[b].inbox).name = "QUIT",
           m.flavour = link[b].flavour, m.loggedIn \in {link[b].loggedIn, TRUE},
           m.buffer = link[b].buffer, m.wire = Append(link[b].wire, p),
           \A t \in Threads : Uses[t] = b => Favours(th[t], m, dirs', p)
    PROVE  AllSmooth'
<1> DEFINE l == link[b]
<1>1. ASSUME NEW t \in Threads, Uses[t] = b PROVE Smooth(call[t], th[t], m, dirs')
  <2> DEFINE q == call[t]
             r == th[t]
  <2>1. /\ r.pc = "await" /\ Busy(r) /\ Silent(l) /\ l.sock = "open" /\ l.inbox # <<>>
        /\ Head(l.inbox) = r.cmd
    BY <1>1, AskedThread
  <2>2. Smooth(q, r, l, dirs)
    BY <1>1 DEF AllSmooth, Link
  <2>3. Smooth(q, r, l, dirs')
    BY <2>2, StaysSmooth
  <2>4. /\ q.op = "close" => l.flavour = "sync"
        /\ r.cmd.name \notin {"220", "226, failing"}
        /\ q.op = "put" => Made(q, r, dirs')
        /\ ~ l.loggedIn => r.cmd.name \in {"USER", "PASS"}
    BY <2>1, <2>3 DEF Smooth, Connected
  <2>5. OneReply(m, p)
    BY <2>1, SequencesOfOne DEF Silent, OneReply
  <2>6. Head(l.inbox).name = r.cmd.name
    BY <2>1
  <2> HIDE DEF l
  <2>7. Favoured(r, m, dirs')
    <3>1. \A x : OneReply(m, x) => Favours(r, m, dirs', x)
      BY <1>1, <2>5, RepliesApart
    <3>2. \A x, s : ~ TwoReplies(m, x, s)
      BY <2>5, RepliesApart
    <3> QED
      BY <2>1, <3>1, <3>2 DEF Favoured
  <2>8. Connected(r, m)
    <3>1. ~ Silent(m)
      BY <2>5, RepliesApart
    <3> QED
      BY <2>1, <2>4, <2>6, <3>1 DEF Connected, l
  <2> QED
    BY <2>1, <2>4, <2>7, <2>8 DEF Smooth, l
<1>2. l.sock = "open" \/ l.transfer # None
  BY DEF Pending
<1> QED
  BY <1>1, <1>2, ServerSmooth

LEMMA AnswerSmooth ==
    ASSUME Own, AllInStep, AllFit, AllTrue, AllSmooth, NEW b \in Blobs, Pending(b),
           UNCHANGED <<th, callers>>, dirs \subseteq dirs',
           NEW code, NEW info, Answers(b, code, info),
           Accepted(Head(link[b].inbox).name, code), code # 230,
           Head(link[b].inbox).name # "PASV",
           \A t \in Threads : Uses[t] = b /\ th[t].cmd.name = "MKD" => Head(th[t].rest) \in dirs'
    PROVE  AllSmooth'
<1> DEFINE l == link[b]
           p == Reply(code, info)
           m == [l EXCEPT !.inbox = Tail(@), !.wire = Append(@, p)]
<1>1. IsLink(l) /\ l.sock = "open" /\ link' = [link EXCEPT ![b] = m]
  BY DEF AllInStep, Pending, Answers
<1>2. p.code = code
  BY DEF Reply
<1> HIDE DEF p
<1>3. /\ m.sock # "dropped" /\ m.flavour = l.flavour /\ m.loggedIn = l.loggedIn
      /\ m.buffer = l.buffer /\ m.wire = Append(l.wire, p)
  BY <1>1 DEF IsLink
<1> HIDE DEF m
<1>4. ASSUME NEW t \in Threads, Uses[t] = b PROVE Favours(th[t], m, dirs', p)
  <2>1. Head(link[b].inbox) = th[t].cmd
    BY <1>4, AskedThread
  <2> QED
    BY <1>2, <1>4, <2>1 DEF Favours
<1> QED
  BY <1>1, <1>3, <1>4, AnswersSmooth

LEMMA ServeLoginSmooth ==
    ASSUME Own, AllInStep, AllFit, AllTrue, AllSmooth, NEW b \in Blobs, ServeLogin(b)
    PROVE  AllSmooth'
<1> DEFINE c == Head(link[b].inbox)
<1>1. UNCHANGED <<th, callers>> /\ dirs \subseteq dirs' /\ Pending(b)
  BY DEF ServeLogin, Serves, server
<1>2. PICK t \in Threads : Uses[t] = b
  BY <1>1 DEF AllInStep, Unused, Pending
<1>3. /\ th[t].pc = "await" /\ Busy(th[t]) /\ c = th[t].cmd
      /\ link[b].inbox # <<>> /\ link[b].sock = "open"
  BY <1>1, <1>2, AskedThread
<1>4. \A u \in Threads : Uses[u] = b => u = t
  BY <1>2 DEF Own
<1>5. ~ link[b].loggedIn => c.name \in {"USER", "PASS"}
  <2>1. Smooth(call[t], th[t], link[b], dirs)
    BY <1>2 DEF AllSmooth, Link
  <2> QED
    BY <1>3, <2>1 DEF Smooth, Connected
<1> HIDE DEF c
<1>6. CASE Serves(b, "USER") /\ Answers(b, 331, None)
  <2>1. c.name = "USER"
    BY <1>6 DEF Serves, c
  <2>2. Accepted(c.name, 331)
    BY <2>1 DEF Accepted
  <2>3. \A u \in Threads : Uses[u] = b => th[u].cmd.name # "MKD"
    BY <1>3, <1>4, <2>1
  <2> QED
    BY <1>1, <1>6, <2>1, <2>2, <2>3, AnswerSmooth DEF c
<1>7. CASE (Serves(b, "USER") \/ Serves(b, "PASS")) /\ AnswersAs(b, 230, None, TRUE)
  <2> DEFINE l == link[b]
             p == Reply(230, None)
             m == [l EXCEPT !.inbox = Tail(@), !.wire = Append(@, p), !.loggedIn = TRUE]
  <2>1. c.name \in {"USER", "PASS"} /\ IsLink(l) /\ link' = [link EXCEPT ![b] = m]
    BY <1>7 DEF AllInStep, AnswersAs, Serves, c
  <2>2. p.code = 230
    BY DEF Reply
  <2> HIDE DEF p
  <2>3. /\ m.sock # "dropped" /\ m.flavour = l.flavour /\ m.loggedIn = TRUE
        /\ m.buffer = l.buffer /\ m.wire = Append(l.wire, p)
    BY <1>3, <2>1 DEF IsLink
  <2> HIDE DEF m
  <2>4. Accepted(th[t].cmd.name, p.code)
    BY <1>3, <2>1, <2>2 DEF Accepted
  <2>5. \A u \in Threads : Uses[u] = b => Favours(th[u], m, dirs', p)
    BY <1>3, <1>4, <2>1, <2>3, <2>4 DEF Favours
  <2> QED
    BY <1>1, <2>1, <2>3, <2>5, AnswersSmooth
<1>8. \/ Serves(b, "USER") /\ Answers(b, 331, None)
      \/ (Serves(b, "USER") \/ Serves(b, "PASS")) /\ AnswersAs(b, 230, None, TRUE)
  BY <1>5 DEF ServeLogin, AnswersAs, c
<1> QED
  BY <1>6, <1>7, <1>8

LEMMA ServeSessionSmooth ==
    ASSUME Own, AllInStep, AllFit, AllTrue, AllSmooth, NEW b \in Blobs,
           ServeSession(b) \/ ServeDele(b)
    PROVE  AllSmooth'
<1> DEFINE c == Head(link[b].inbox)
<1>1. UNCHANGED <<th, callers>> /\ dirs \subseteq dirs' /\ Pending(b)
  BY DEF ServeSession, ServeDele, Serves, server
<1>2. \A name : Serves(b, name) => c.name = name
  BY DEF Serves
<1>3. \A t \in Threads : Uses[t] = b => c = th[t].cmd
  BY <1>1, AskedThread
<1> HIDE DEF c
<1>4. \E code, info : /\ Answers(b, code, info)
                      /\ \/ c.name = "CWD" /\ code = 250
                         \/ c.name = "TYPE" /\ code = 200
                         \/ c.name = "FEAT" /\ code = 211
                         \/ c.name = "SIZE" /\ code \in {213, 550}
                         \/ c.name \in {"MLST", "DELE"} /\ code \in {250, 550}
  BY <1>2 DEF ServeSession, ServeDele
<1>5. PICK code, info : /\ Answers(b, code, info)
                        /\ \/ c.name = "CWD" /\ code = 250
                           \/ c.name = "TYPE" /\ code = 200
                           \/ c.name = "FEAT" /\ code = 211
                           \/ c.name = "SIZE" /\ code \in {213, 550}
                           \/ c.name \in {"MLST", "DELE"} /\ code \in {250, 550}
  BY <1>4
<1>6. Accepted(c.name, code) /\ code # 230 /\ c.name \notin {"MKD", "PASV"}
  BY <1>5 DEF Accepted
<1>7. \A t \in Threads : Uses[t] = b => th[t].cmd.name # "MKD"
  BY <1>3, <1>6
<1> QED
  BY <1>1, <1>5, <1>6, <1>7, AnswerSmooth DEF c

LEMMA ServeQuitSmooth ==
    ASSUME Own, AllInStep, AllFit, AllTrue, AllSmooth, NEW b \in Blobs, ServeQuit(b)
    PROVE  AllSmooth'
<1> DEFINE l == link[b]
           p == Reply(221, None)
           e == [l EXCEPT !.wire = Append(@, p)]
           m == Ended(e)
<1>1. /\ UNCHANGED <<th, callers>> /\ dirs \subseteq dirs' /\ Pending(b) /\ link' = [link EXCEPT ![b] = m]
      /\ Head(l.inbox).name = "QUIT"
  BY DEF ServeQuit, Serves, server
<1>2. IsLink(l)
  BY DEF AllInStep
<1>3. /\ IsLink(e) /\ e.wire = Append(l.wire, p) /\ e.buffer = l.buffer /\ e.flavour = l.flavour
      /\ e.loggedIn = l.loggedIn
  BY <1>2 DEF IsLink
<1>4. p.code = 221
  BY DEF Reply
<1> HIDE DEF e
<1>5. m.buffer = l.buffer /\ m.wire = Append(l.wire, p)
  BY <1>3, EndedForm
<1>6. m.flavour = l.flavour /\ m.loggedIn = l.loggedIn
  BY <1>3 DEF Ended, IsLink
<1>7. ASSUME NEW t \in Threads, Uses[t] = b PROVE Favours(th[t], m, dirs', p)
  <2>1. th[t].cmd.name = "QUIT"
    BY <1>1, <1>7, AskedThread
  <2> QED
    BY <2>1 DEF Favours, Accepted
<1> HIDE DEF m, p, l
<1> QED
  BY <1>1, <1>5, <1>6, <1>7, AnswersSmooth DEF l

LEMMA ServePasvSmooth ==
    ASSUME Own, AllInStep, AllFit, AllTrue, AllSmooth, NEW b \in Blobs, ServePasv(b)
    PROVE  AllSmooth'
<1> DEFINE l == link[b]
<1>1. PICK o \in Ports :
        link' = [link EXCEPT
            ![b].inbox = Tail(@),
            ![b].wire = Append(@, Reply(227, [port |-> o])),
            ![b].listen = o,
            ![b].chan = [q \in Ports |->
                IF q = o THEN Chan("listen", None)
                ELSE IF @[q].state \in {"listen", "cut"} THEN Free ELSE @[q]]]
  BY DEF ServePasv
<1> DEFINE c == [q \in Ports |->
                IF q = o THEN Chan("listen", None)
                ELSE IF l.chan[q].state \in {"listen", "cut"} THEN Free ELSE l.chan[q]]
           p == Reply(227, [port |-> o])
           m == [l EXCEPT !.inbox = Tail(@), !.wire = Append(@, p), !.listen = o, !.chan = c]
<1>2. /\ IsLink(l) /\ l.sock = "open" /\ Pending(b) /\ UNCHANGED <<th, callers>> /\ dirs \subseteq dirs'
      /\ Head(l.inbox).name = "PASV"
  BY DEF AllInStep, ServePasv, Serves, Pending, server
<1>3. link' = [link EXCEPT ![b] = m]
  BY <1>1
<1>4. p.code = 227 /\ p.info.port = o
  BY DEF Reply
<1>5. c[o].state = "listen"
  BY DEF Chan
<1> HIDE DEF c, p
<1>6. /\ m.sock # "dropped" /\ m.flavour = l.flavour /\ m.loggedIn = l.loggedIn
      /\ m.buffer = l.buffer /\ m.wire = Append(l.wire, p) /\ m.chan = c
  BY <1>2 DEF IsLink
<1> HIDE DEF m
<1>7. ASSUME NEW t \in Threads, Uses[t] = b PROVE Favours(th[t], m, dirs', p)
  <2>1. th[t].cmd.name = "PASV"
    BY <1>2, <1>7, AskedThread
  <2>2. Accepted("PASV", 227)
    BY DEF Accepted
  <2> QED
    BY <1>4, <1>5, <1>6, <2>1, <2>2 DEF Favours
<1> QED
  BY <1>2, <1>3, <1>6, <1>7, AnswersSmooth

\* The directory a put() is to make, or the key where there is none left, is
\* in one that is there.
LEMMA MadeAbove ==
    ASSUME Distinct, FilesTyped, NEW q \in Calls, q.op = "put", NEW r, Suffix(r.rest, Parents(q.key)),
           Made(q, r, dirs)
    PROVE  /\ r.rest # <<>> =>
                 /\ Head(r.rest) \in AllDirs /\ ~ IsFile(Head(r.rest)) /\ IsDir(Parent(Head(r.rest)))
                 /\ IsDir(Head(r.rest)) => Head(r.rest) \in dirs
           /\ r.rest = <<>> => IsDir(Parent(q.key)) /\ ~ IsDir(q.key)
<1> DEFINE k == q.key
           w == Parents(k)
           i == Len(w) - Len(r.rest) + 1
<1>1. k \in Keys
  BY RequestForms
<1> HIDE DEF k
<1>2. /\ k \in Seq(STRING) /\ Len(k) \in Nat \ {0} /\ w \in Seq(AllDirs) /\ Len(w) = Len(k) - 1
      /\ \A x \in 1 .. Len(k) - 1 : w[x] = Prefix(k, x) /\ Prefix(k, x) \in AllDirs
  BY <1>1, ParentsForm
<1>3. \A x \in 1 .. Len(w) - Len(r.rest) : w[x] \in dirs
  BY DEF Made, k
<1>4. Suffix(r.rest, w)
  BY DEF k
<1> HIDE DEF w
<1>5. Len(r.rest) \in 0 .. Len(w) /\ (r.rest = <<>> <=> Len(r.rest) = 0)
  BY <1>2, <1>4, SuffixForms
<1>6. i \in 1 .. Len(k)
  BY <1>2, <1>5
<1>7. IsDir(Parent(Prefix(k, i)))
  <2>1. Parent(Prefix(k, i)) = Prefix(k, i - 1)
    BY <1>2, <1>6, ParentOfPrefix
  <2>2. CASE i = 1
    <3>1. Prefix(k, i - 1) = <<>>
      BY <1>2, <2>2, SubSeqEmpty DEF Prefix
    <3> QED
      BY <2>1, <3>1 DEF IsDir
  <2>3. CASE i # 1
    <3>1. i - 1 \in 1 .. Len(w) - Len(r.rest) /\ i - 1 \in 1 .. Len(k) - 1
      BY <1>2, <1>5, <1>6, <2>3
    <3> HIDE DEF i
    <3>2. Prefix(k, i - 1) \in dirs
      BY <1>2, <1>3, <3>1
    <3> QED
      BY <2>1, <3>2 DEF IsDir
  <2> QED
    BY <2>2, <2>3
<1>8. ASSUME r.rest # <<>>
      PROVE  /\ Head(r.rest) \in AllDirs /\ ~ IsFile(Head(r.rest)) /\ IsDir(Parent(Head(r.rest)))
             /\ IsDir(Head(r.rest)) => Head(r.rest) \in dirs
  <2>1. Head(r.rest) = w[i] /\ Len(r.rest) \in 1 .. Len(w)
    BY <1>2, <1>4, <1>8, SuffixForms
  <2>2. i \in 1 .. Len(k) - 1
    BY <1>2, <2>1
  <2> HIDE DEF i
  <2>3. Head(r.rest) = Prefix(k, i) /\ Prefix(k, i) \in AllDirs
    BY <1>2, <2>1, <2>2
  <2>4. Head(r.rest) # <<>>
    <3>1. Len(Prefix(k, i)) = i /\ i # 0
      BY <1>2, <2>2, PrefixForms
    <3> QED
      BY <2>3, <3>1, EmptySeq
  <2> QED
    BY <1>7, <2>3, <2>4 DEF Distinct, IsFile, IsDir
<1>9. ASSUME r.rest = <<>> PROVE IsDir(Parent(k)) /\ ~ IsDir(k)
  <2>1. i = Len(k)
    BY <1>2, <1>5, <1>9
  <2> HIDE DEF i
  <2>2. Prefix(k, i) = k
    BY <1>2, <2>1, SubSeqFull DEF Prefix
  <2>3. k # <<>>
    BY <1>1, PathsAssumption
  <2> QED
    BY <1>1, <1>7, <2>2, <2>3 DEF Distinct, IsDir, FilesTyped
<1> QED
  BY <1>8, <1>9 DEF k

LEMMA ServeMkdSmooth ==
    ASSUME Own, Distinct, AllInStep, AllFit, AllTrue, AllSmooth, NEW b \in Blobs, ServeMkd(b)
    PROVE  AllSmooth'
<1> DEFINE c == Head(link[b].inbox)
           made == IsDir(Parent(Told(b))) /\ ~ IsDir(Told(b)) /\ ~ IsFile(Told(b))
           code == IF made THEN 257 ELSE 550
<1>1. /\ UNCHANGED <<th, callers>> /\ Pending(b) /\ c.name = "MKD"
      /\ dirs' = IF made THEN dirs \cup {Told(b)} ELSE dirs
      /\ Answers(b, code, None)
  BY DEF ServeMkd, Serves
<1>2. dirs \subseteq dirs'
  BY <1>1
<1>3. ASSUME NEW t \in Threads, Uses[t] = b PROVE Head(th[t].rest) \in dirs'
  <2> DEFINE q == call[t]
             r == th[t]
  <2>1. /\ Follows(q, r) /\ q \in Calls /\ c = r.cmd /\ Told(b) = r.cmd.arg
        /\ Plain(r.cmd.name) => Prepares(q, r, r.cmd)
        /\ r.pc = "await"
    BY <1>1, <1>3, AskedThread
  <2>2. Plain("MKD")
    BY DEF Plain, Transfers, Logins, Ends
  <2>3. q.op = "put" /\ r.rest # <<>> /\ Told(b) = Head(r.rest)
    BY <1>1, <2>1, <2>2, PreparesByName
  <2>4. Suffix(r.rest, Parents(q.key))
    BY <2>1, <2>3 DEF Follows, Whole
  <2>5. Made(q, r, dirs) /\ FilesTyped
    BY <2>1, <2>3, SmoothOfThread DEF AllFit
  <2>6. /\ ~ IsFile(Told(b)) /\ IsDir(Parent(Told(b)))
        /\ IsDir(Told(b)) => Told(b) \in dirs
    BY <2>1, <2>3, <2>4, <2>5, MadeAbove
  <2> QED
    BY <1>1, <2>3, <2>6
<1>4. code \in {257, 550}
  OBVIOUS
<1> HIDE DEF code, c
<1>5. Accepted(c.name, code) /\ code # 230
  BY <1>1, <1>4 DEF Accepted
<1> QED
  BY <1>1, <1>2, <1>3, <1>5, AnswerSmooth DEF c

LEMMA StartSmooth ==
    ASSUME Own, Distinct, AllInStep, AllFit, AllTrue, AllSmooth, NEW b \in Blobs,
           NEW name \in Transfers, StartTransfer(b, name)
    PROVE  AllSmooth'
<1> DEFINE l == link[b]
           c == Head(l.inbox)
           tr == [cmd |-> c, port |-> l.listen, data |-> Content(name, Told(b))]
           p == Reply(150, None)
           m == [l EXCEPT !.inbox = Tail(@), !.wire = Append(@, p), !.transfer = tr]
           able == Transferable(name, Told(b))
<1>1. /\ IsLink(l) /\ l.sock = "open" /\ l.transfer = None /\ l.inbox # <<>>
      /\ c.name = name /\ Pending(b) /\ UNCHANGED <<th, callers>> /\ dirs \subseteq dirs'
  BY DEF AllInStep, StartTransfer, Serves, Pending
<1>2. PICK t \in Threads : Uses[t] = b
  BY <1>1 DEF AllInStep, Unused, Pending
<1> DEFINE q == call[t]
           r == th[t]
<1>3. /\ r.pc = "await" /\ Busy(r) /\ q \in Calls /\ r.cmd = c
      /\ Told(b) = r.cmd.arg /\ Fits(q, r, l)
      /\ Moves(q, r, r.cmd) /\ l.listen = r.port /\ Follows(q, r)
  BY <1>1, <1>2, AskedThread
<1>4. \A u \in Threads : Uses[u] = b => u = t
  BY <1>2 DEF Own
<1>5. Attached(b)
  <2>1. l.chan[r.port].state = "connected"
    BY <1>1, <1>3 DEF Fits, Holds, Begins
  <2>2. r.port \in Ports
    BY <1>1, <1>3, AsksByName DEF Follows
  <2> QED
    BY <1>3, <2>1, <2>2, PortsAssumption DEF Attached
<1>6. CASE able
  <2>1. link' = [link EXCEPT ![b] = m]
    BY <1>1, <1>5, <1>6 DEF AllInStep, StartTransfer
  <2>2. p.code = 150
    BY DEF Reply
  <2> HIDE DEF tr, p
  <2>3. /\ m.sock # "dropped" /\ m.flavour = l.flavour /\ m.loggedIn = l.loggedIn
        /\ m.buffer = l.buffer /\ m.wire = Append(l.wire, p)
    BY <1>1 DEF IsLink
  <2> HIDE DEF m
  <2>4. Accepted(name, 150) /\ name \notin {"USER", "PASS", "PASV", "MKD"}
    BY DEF Accepted, Transfers
  <2>5. \A u \in Threads : Uses[u] = b => Favours(th[u], m, dirs', p)
    BY <1>1, <1>3, <1>4, <2>2, <2>4 DEF Favours
  <2> QED
    BY <1>1, <2>1, <2>3, <2>5, AnswersSmooth
<1>7. CASE ~ able
  <2>1. Answers(b, 550, None)
    BY <1>7 DEF StartTransfer
  <2>2. name # "STOR"
    <3> SUFFICES ASSUME name = "STOR" PROVE FALSE
      OBVIOUS
    <3>1. q.op = "put" /\ Told(b) = q.key /\ r.rest = <<>>
      <4>1. q.op = "put" /\ Told(b) = q.key
        BY <1>1, <1>3, MovesByName
      <4> QED
        BY <1>3, <4>1 DEF Moves
    <3>2. Suffix(r.rest, Parents(q.key))
      BY <1>3, <3>1 DEF Follows, Whole
    <3>3. Made(q, r, dirs) /\ FilesTyped
      BY <1>3, <3>1, SmoothOfThread DEF AllFit
    <3>4. IsDir(Parent(Told(b))) /\ ~ IsDir(Told(b))
      BY <1>3, <3>1, <3>2, <3>3, MadeAbove
    <3> QED
      BY <1>7, <3>4 DEF Transferable
  <2>3. Accepted(name, 550) /\ name \notin {"PASV", "MKD"}
    BY <2>2 DEF Accepted, Transfers
  <2>4. \A u \in Threads : Uses[u] = b => th[u].cmd.name # "MKD"
    BY <1>1, <1>3, <1>4, <2>3
  <2> HIDE DEF able, r, q
  <2> QED
    BY <1>1, <2>1, <2>3, <2>4, AnswerSmooth
<1> QED
  BY <1>6, <1>7

\* What the end of a transfer makes of the link.
LEMMA EndedLink ==
    ASSUME AllInStep, NEW b \in Blobs, NEW code, NEW c, EndsTransfer(b, code, c)
    PROVE  \E m :
               /\ link' = [link EXCEPT ![b] = m]
               /\ m.sock = link[b].sock /\ m.flavour = link[b].flavour
               /\ m.loggedIn = link[b].loggedIn /\ m.inbox = link[b].inbox
               /\ m.buffer = link[b].buffer /\ m.wire = Append(link[b].wire, Reply(code, None))
<1> DEFINE l == link[b]
           p == Reply(code, None)
           m == [l EXCEPT !.transfer = None, !.wire = Append(@, p), !.chan[l.transfer.port] = c]
<1>1. IsLink(l) /\ link' = [link EXCEPT ![b] = m]
  BY DEF AllInStep, EndsTransfer
<1> HIDE DEF p
<1>2. /\ m.sock = l.sock /\ m.flavour = l.flavour /\ m.loggedIn = l.loggedIn /\ m.inbox = l.inbox
      /\ m.buffer = l.buffer /\ m.wire = Append(l.wire, p)
  BY <1>1 DEF IsLink
<1> HIDE DEF m
<1>3. \E x : /\ link' = [link EXCEPT ![b] = x]
              /\ x.sock = l.sock /\ x.flavour = l.flavour
              /\ x.loggedIn = l.loggedIn /\ x.inbox = l.inbox
              /\ x.buffer = l.buffer /\ x.wire = Append(l.wire, p)
  BY <1>1, <1>2
<1> QED
  BY <1>3 DEF p

\* The server ends a transfer well.
LEMMA EndSmooth ==
    ASSUME Own, AllInStep, AllFit, AllTrue, AllSmooth, NEW b \in Blobs, link[b].transfer # None,
           UNCHANGED <<th, callers>>, dirs' = dirs, NEW c, EndsTransfer(b, 226, c)
    PROVE  AllSmooth'
<1> DEFINE l == link[b]
           p == Reply(226, None)
<1>1. PICK m :
          /\ link' = [link EXCEPT ![b] = m]
          /\ m.sock = l.sock /\ m.flavour = l.flavour
          /\ m.loggedIn = l.loggedIn /\ m.inbox = l.inbox
          /\ m.buffer = l.buffer /\ m.wire = Append(l.wire, p)
  BY EndedLink
<1>2. p.code = 226
  BY DEF Reply
<1> HIDE DEF p
<1>3. IsLink(l)
  BY DEF AllInStep
<1>4. ASSUME NEW t \in Threads, Uses[t] = b PROVE Smooth(call[t], th[t], m, dirs')
  <2> DEFINE q == call[t]
             r == th[t]
  <2>1. /\ InStep(r, l) /\ Fits(q, r, l)
    BY <1>4, CallOfThread DEF Link
  <2>2. /\ r.pc \in {"await", "data", "fill"} /\ Busy(r) /\ r.cmd.name \in Transfers \cup Ends
        /\ l.sock = "open"
    BY <2>1, InTransfer
  <2>3. /\ Favoured(r, l, dirs) /\ Connected(r, l)
        /\ q.op = "close" => l.flavour = "sync"
        /\ r.cmd.name # "226, failing"
        /\ q.op = "put" => Made(q, r, dirs)
    BY <1>4, <2>2, SmoothOfThread DEF Link
  <2>4. r.cmd.name \notin {"220", "USER", "PASS"}
    BY <2>2 DEF Transfers, Ends
  <2>5. Connected(r, m)
    BY <1>1, <2>2, <2>3, <2>4 DEF Connected
  <2>6. CASE r.pc = "await" /\ r.cmd.name \in Transfers
    <3>1. \E x : OneReply(l, x)
      BY <2>1, <2>2, <2>6 DEF InStep, Between, ToSend, ToDial, Asking, Lost, AskingTransfer, Moving, Ending,
                              Asked, Gone, AtRest, NoWork, Transfers, Ends
    <3>2. PICK x : OneReply(l, x)
      BY <3>1
    <3>3. TwoReplies(m, x, p)
      <4>1. CASE l.wire = <<x>> /\ l.buffer = << >>
        <5>1. m.wire = <<x, p>> /\ m.buffer = << >>
          BY <1>1, <4>1, SequencesOfTwo
        <5> QED
          BY <5>1 DEF TwoReplies
      <4>2. CASE l.wire = << >> /\ l.buffer = <<x>>
        <5>1. m.wire = <<p>> /\ m.buffer = <<x>>
          BY <1>1, <4>2, SequencesOfOne
        <5> QED
          BY <5>1 DEF TwoReplies
      <4> QED
        BY <3>2, <4>1, <4>2 DEF OneReply
    <3>4. Accepted(r.cmd.name, x.code)
      BY <2>3, <2>6, <3>2 DEF Favoured, Favours
    <3>5. ASSUME NEW y, NEW s, TwoReplies(m, y, s) PROVE Accepted(r.cmd.name, y.code) /\ s.code = 226
      <4>1. y = x /\ s = p
        BY <3>3, <3>5, RepliesApart
      <4> QED
        BY <1>2, <3>4, <4>1
    <3>6. \A y : ~ OneReply(m, y)
      BY <3>3, RepliesApart
    <3>7. Favoured(r, m, dirs')
      BY <2>6, <3>5, <3>6 DEF Favoured
    <3> QED
      BY <1>1, <2>2, <2>3, <2>4, <2>5, <2>6, <3>7 DEF Smooth
  <2>7. CASE ~ (r.pc = "await" /\ r.cmd.name \in Transfers)
    <3>1. OneReply(m, p)
      BY <1>1, <2>1, <2>7, EndReplies
    <3>2. /\ \A y : OneReply(m, y) => y.code = 226
          /\ \A y, s : ~ TwoReplies(m, y, s)
      BY <1>2, <3>1, RepliesApart
    <3>3. r.pc = "await" => r.cmd.name = "226"
      BY <2>2, <2>3, <2>7 DEF Ends
    <3>4. r.pc = "await" => \A y : OneReply(m, y) => Favours(r, m, dirs', y)
      BY <3>2, <3>3 DEF Favours, Accepted
    <3>5. Favoured(r, m, dirs')
      BY <3>2, <3>4 DEF Favoured
    <3>6. r.pc # "dial"
      BY <2>2
    <3> QED
      BY <1>1, <2>2, <2>3, <2>4, <2>5, <3>5, <3>6 DEF Smooth
  <2> QED
    BY <2>6, <2>7
<1> QED
  BY <1>1, <1>4, ServerSmooth

LEMMA EndStorSmooth ==
    ASSUME Own, AllInStep, AllFit, AllTrue, AllSmooth, NEW b \in Blobs, EndStor(b)
    PROVE  AllSmooth'
  BY EndSmooth DEF EndStor

\* A call that reads does not let go of the data connection.
LEMMA EndRetrSmooth ==
    ASSUME Own, AllInStep, AllFit, AllTrue, AllSmooth, NEW b \in Blobs, EndRetr(b)
    PROVE  AllSmooth'
<1> DEFINE tr == link[b].transfer
<1>1. tr # None /\ tr.cmd.name \in {"RETR", "LIST"} /\ UNCHANGED <<th, callers>> /\ dirs' = dirs
  BY DEF EndRetr, server
<1>2. PICK t \in Threads : Uses[t] = b
  BY <1>1 DEF AllInStep, Unused, AtRest, NoWork
<1>3. Channel(b).state = "connected"
  <2>1. /\ Moves(call[t], th[t], tr.cmd)
        /\ th[t].cmd.name \in Transfers => Channel(b).state = "connected"
        /\ th[t].cmd.name = "226" => call[t].op = "put"
    BY <1>1, <1>2, TransferThread
  <2>2. call[t].op # "put"
    BY <1>1, <2>1, MovesByName
  <2>3. InStep(th[t], link[b]) /\ Fits(call[t], th[t], link[b])
    BY <1>2, CallOfThread DEF Link
  <2>4. Busy(th[t]) /\ th[t].cmd.name \in Transfers \cup Ends
    BY <1>1, <2>3, InTransfer
  <2>5. th[t].cmd.name # "226, failing"
    BY <2>4, SmoothOfThread DEF Busy
  <2> QED
    BY <2>1, <2>2, <2>4, <2>5 DEF Ends
<1>4. \E d : EndsTransfer(b, 226, Chan("received", d))
  BY <1>3 DEF EndRetr
<1> QED
  BY <1>1, <1>4, EndSmooth

LEMMA ServerStepSmooth ==
    ASSUME Own, Distinct, AllInStep, AllFit, AllTrue, AllSmooth, NEW b \in Blobs, Server(b)
    PROVE  AllSmooth'
<1>1. ASSUME NEW name \in {"RETR", "LIST", "STOR"}, StartTransfer(b, name) PROVE AllSmooth'
  BY <1>1, StartSmooth DEF Transfers
<1> QED
  BY <1>1, ServeLoginSmooth, ServeSessionSmooth, ServeQuitSmooth, ServeMkdSmooth, ServePasvSmooth,
     EndStorSmooth, EndRetrSmooth DEF Server

-----------------------------------------------------------------------------
(* The invariant, and what follows. *)

LEMMA InitSmooth ==
    ASSUME Init
    PROVE  AllSmooth
<1> SUFFICES ASSUME NEW t \in Threads PROVE ret[t] # Store!BlobError /\ Smooth(call[t], th[t], Link(t), dirs)
  BY DEF AllSmooth
<1>1. th[t] = Outside /\ ret[t] = None /\ Uses[t] \in Blobs
  BY UsesAssumption DEF Init
<1>2. None # Store!BlobError
  BY NoneAssumption DEF Store!Outcomes
<1>3. ~ Busy(th[t])
  BY <1>1, OutsideForm DEF Busy
<1>4. PICK f \in Flavours : Link(t) = Disconnected(f)
  BY <1>1 DEF Init, Link
<1>5. Link(t).sock = "none"
  BY <1>4 DEF Disconnected
<1> QED
  BY <1>1, <1>2, <1>3, <1>5 DEF Smooth, Connected

LEMMA NextSmooth ==
    ASSUME Own, Distinct, ClosesClean, IInv, CInv, TInv, FInv, [Next]_vars
    PROVE  FInv'
<1>1. CASE UNCHANGED vars
  BY <1>1 DEF FInv, AllSmooth, Link, vars, bounds, server, callers
<1>2. CASE Next
  <2>1. (timeouts' = 0 => timeouts = 0) /\ (faults' = 0 => faults = 0)
    BY <1>2, TimeoutsGrow, FaultsGrow DEF IInv
  <2> SUFFICES ASSUME faults' = 0, timeouts' = 0 PROVE AllSmooth'
    BY DEF FInv
  <2>2. timeouts = 0 /\ faults = 0 /\ AllInStep /\ AllTrail /\ AllFit /\ AllTrue /\ AllSmooth
    BY <2>1 DEF IInv, CInv, TInv, FInv
  <2>3. ~ Fault
    BY <2>2 DEF Fault
  <2>4. ASSUME NEW t \in Threads, Invoke(t) \/ Return(t) PROVE AllSmooth'
    BY <2>2, <2>4, InvokeSmooth, ReturnSmooth
  <2>5. ASSUME NEW t \in Threads, Client(t) \/ Unlucky(t) PROVE AllSmooth'
    BY <2>2, <2>3, <2>5, ClientStepSmooth DEF Unlucky, ConnectFails, DialFails, DataFails
  <2>6. ASSUME NEW t \in Threads, Late(t) \/ Cancel(t) PROVE AllSmooth'
    BY <2>2, <2>6, NeverLate
  <2>7. ASSUME NEW b \in Blobs, Server(b) \/ Faulty(b) PROVE AllSmooth'
    BY <2>2, <2>3, <2>7, ServerStepSmooth DEF Faulty, AbortTransfer, Refuse, Drop
  <2> QED
    BY <1>2, <2>4, <2>5, <2>6, <2>7 DEF Next
<1> QED
  BY <1>1, <1>2

(***************************************************************************)
(* Clients with instances of their own do not disturb each other: where no *)
(* directory has the name of a key and no asynchronous instance is closed, *)
(* no call fails as long as no command is refused, no transfer aborted, no *)
(* connection dropped and no reply late, though puts may race to make the  *)
(* same parents.                                                           *)
(***************************************************************************)
THEOREM NoCallFailsByItself ==
    ASSUME Own, NoneIsNoRecord, Distinct, ClosesClean
    PROVE  Spec => []NoSpuriousFailure
<1>1. Init => FInv
  BY InitSmooth DEF FInv
<1>2. IInv /\ CInv /\ TInv /\ FInv /\ [Next]_vars => FInv'
  BY NextSmooth
<1>3. FInv => NoSpuriousFailure
  BY DEF FInv, AllSmooth, NoSpuriousFailure
<1> QED
  BY <1>1, <1>2, <1>3, Invariance, CallInvariance, TruthInvariance, PTL DEF Spec

=============================================================================
