---------------------------- MODULE FTPBlobProofs ----------------------------
(***************************************************************************)
(* FTPBlob for every number of clients with an instance each, every mix of *)
(* the two variants, every set of features, keys and values and every      *)
(* number of refusals, aborts and drops: as long as no reply is late and   *)
(* no task cancelled, a connection is in step between calls, whatever the  *)
(* ones before it have left behind, and client and server never wait for   *)
(* each other, but for a greeting read as part of what was left.           *)
(***************************************************************************)
EXTENDS FTPBlob, SequenceTheorems, TLAPS

\* Each thread has an instance of its own.
Own == \A t, u \in Threads : Uses[t] = Uses[u] => t = u

\* None is not a transfer.
NoneIsNoRecord == \A c, p, d : [cmd |-> c, port |-> p, data |-> d] # None

-----------------------------------------------------------------------------
(* The inductive invariant: how far the two ends of a connection can be    *)
(* apart, by what the thread that uses it is at.  r is the thread's record *)
(* th[t], l the link of its instance.                                      *)

Transfers == {"RETR", "LIST", "STOR"}
Logins == {"220", "USER", "PASS", "CWD", "TYPE"}
Ends == {"226", "226, failing"}
Plain(name) == name \notin Transfers \cup Logins \cup Ends

IsPlace(r) ==
    r = [f \in {"pc", "cmd", "resume", "port", "rest", "data", "got"} |-> r[f]]

IsLink(l) ==
    /\ l = [f \in {"flavour", "sock", "buffer", "features", "inbox", "wire", "bye", "left",
                   "transfer", "loggedIn", "listen", "chan"} |-> l[f]]
    /\ l.sock \in {"none", "open", "dropped"}
    /\ l.listen \in Ports \cup {None}
    /\ l.chan = [p \in Ports |-> l.chan[p]]

\* The replies the client has yet to act on, read or not: none, q, or q and s.
Silent(l) == l.wire = <<>> /\ l.buffer = <<>>
OneReply(l, q) ==
    \/ l.wire = <<q>> /\ l.buffer = <<>>
    \/ l.wire = <<>> /\ l.buffer = <<q>>
TwoReplies(l, q, s) ==
    \/ l.wire = <<q, s>> /\ l.buffer = <<>>
    \/ l.wire = <<s>> /\ l.buffer = <<q>>
    \/ l.wire = <<>> /\ l.buffer = <<q, s>>

Begun(q) == q.code \in {125, 150}

\* What the server has to do: nothing, the command asked, or its transfer.
NoWork(l) == l.inbox = <<>> /\ l.transfer = None
Asked(r, l) == l.sock = "open" /\ l.inbox = <<r.cmd>> /\ l.transfer = None /\ Silent(l)
Running(r, l) ==
    /\ l.sock = "open" /\ l.inbox = <<>>
    /\ l.transfer # None /\ l.transfer.cmd = r.cmd /\ l.transfer.port = r.port
    /\ r.port \in Ports /\ r.port # None

AtRest(l) == Silent(l) /\ NoWork(l)
Gone(l) == l.sock = "dropped" /\ AtRest(l)

Between(r, l) == r.pc \in {"idle", "done"} /\ AtRest(l)

ToSend(r, l) ==
    /\ r.pc = "send" /\ AtRest(l)
    /\ r.cmd.name \notin Ends \cup {"220"}
    /\ l.sock = "none" => Plain(r.cmd.name)
    /\ l.sock = "open" /\ r.cmd.name \in Transfers => l.listen = r.port
    /\ r.cmd.name \in Logins => Plain(r.resume.name)

ToDial(r, l) ==
    /\ r.pc = "dial" /\ AtRest(l)
    /\ l.sock # "none"
    /\ l.sock = "open" => l.listen = r.port

\* A reply that answers the command of r.
Answering(r, l, q) ==
    /\ OneReply(l, q)
    /\ r.cmd.name = "PASV" /\ q.code = 227 /\ l.sock = "open" => q.info.port = l.listen

\* The greeting was read as part of a line of the connection before.
Lost(r, l) == r.pc = "await" /\ r.cmd.name = "220" /\ AtRest(l)

Asking(r, l) ==
    /\ r.pc = "await" /\ l.sock # "none"
    /\ r.cmd.name \notin Transfers \cup Ends
    /\ r.cmd.name \in Logins => Plain(r.resume.name)
    /\ \/ Asked(r, l)
       \/ Gone(l)
       \/ Lost(r, l)
       \/ NoWork(l) /\ \E q : Answering(r, l, q)

\* A transfer is under way, over, or was refused.
AskingTransfer(r, l) ==
    /\ r.pc = "await" /\ l.sock # "none"
    /\ r.cmd.name \in Transfers
    /\ \/ Asked(r, l) /\ l.listen = r.port
       \/ Gone(l)
       \/ NoWork(l) /\ \E q : OneReply(l, q) /\ (l.sock = "open" => ~ Begun(q))
       \/ NoWork(l) /\ \E q, s : TwoReplies(l, q, s) /\ Begun(q)
       \/ Running(r, l) /\ \E q : OneReply(l, q) /\ Begun(q)

Moving(r, l) ==
    /\ r.pc \in {"data", "fill"} /\ l.sock # "none"
    /\ r.cmd.name \in Transfers
    /\ r.pc = "data" => r.cmd.name # "STOR"
    /\ \/ Running(r, l) /\ Silent(l)
       \/ Gone(l)
       \/ NoWork(l) /\ \E q : OneReply(l, q)

\* A server that is still to store data finds the end of it.
Finishing(l) ==
    /\ l.sock = "open" /\ l.inbox = <<>> /\ l.transfer # None
    /\ l.transfer.cmd.name = "STOR" => l.chan[l.transfer.port].state # "connected"

Ending(r, l) ==
    /\ r.pc = "await" /\ l.sock # "none"
    /\ r.cmd.name \in Ends
    /\ \/ Finishing(l) /\ Silent(l)
       \/ Gone(l)
       \/ NoWork(l) /\ \E q : OneReply(l, q)

InStep(r, l) ==
    \/ Between(r, l) \/ ToSend(r, l) \/ ToDial(r, l) \/ Asking(r, l)
    \/ AskingTransfer(r, l) \/ Moving(r, l) \/ Ending(r, l)

\* An instance that no thread uses stays as it was.
Unused(l) == l.sock = "none" /\ AtRest(l)

AllInStep ==
    /\ th = [t \in Threads |-> th[t]]
    /\ link = [b \in Blobs |-> link[b]]
    /\ \A t \in Threads : IsPlace(th[t]) /\ InStep(th[t], Link(t))
    /\ \A b \in Blobs : IsLink(link[b])
    /\ \A b \in Blobs : (\A t \in Threads : Uses[t] # b) => Unused(link[b])

\* What a server says unasked is the last of its connection.  What is left of
\* it is either at the end of a connection that is over, or in front of the
\* greeting of the next one.
Trails(r, l) ==
    /\ l.bye # None => l.sock = "dropped"
    /\ l.left # None =>
          \/ l.sock # "open" /\ l.wire = <<>>
          \/ r.pc = "await" /\ r.cmd.name = "220" /\ l.buffer = <<>> /\ l.wire # <<>>

Trailless(l) == l.bye = None /\ l.left = None

AllTrail ==
    /\ \A t \in Threads :
          /\ Trails(th[t], Link(t))
          /\ Lost(th[t], Link(t)) /\ Link(t).sock = "open" => faults # 0
    /\ faults = 0 => \A b \in Blobs : Trailless(link[b])

IInv ==
    /\ timeouts \in 0 .. MaxTimeouts
    /\ faults \in 0 .. MaxFaults
    /\ timeouts = 0 => AllInStep /\ AllTrail

-----------------------------------------------------------------------------
(* Sequences of one or two replies. *)

LEMMA SequencesOfOne ==
    ASSUME NEW x
    PROVE  /\ Append(<<>>, x) = <<x>> /\ <<x>> # <<>>
           /\ Head(<<x>>) = x /\ Tail(<<x>>) = <<>> /\ Len(<<x>>) = 1
           /\ SubSeq(<<x>>, 1, 1) = <<x>> /\ SubSeq(<<x>>, 2, 1) = <<>>
<1>1. <<x>> \in Seq({x}) /\ Len(<<x>>) = 1 /\ <<x>> # <<>>
  OBVIOUS
<1>2. Append(<<>>, x) = <<x>>
  OBVIOUS
<1>3. Head(<<x>>) = x /\ Tail(<<x>>) = <<>>
  OBVIOUS
<1>4. SubSeq(<<x>>, 1, 1) = <<x>>
  BY <1>1, SubSeqFull
<1>5. SubSeq(<<x>>, 2, 1) = <<>>
  BY SubSeqEmpty
<1> QED
  BY <1>1, <1>2, <1>3, <1>4, <1>5

LEMMA SequencesOfTwo ==
    ASSUME NEW x, NEW y
    PROVE  /\ Append(<<x>>, y) = <<x, y>> /\ <<x, y>> # <<>>
           /\ Head(<<x, y>>) = x /\ Tail(<<x, y>>) = <<y>> /\ Len(<<x, y>>) = 2
           /\ SubSeq(<<x, y>>, 1, 1) = <<x>> /\ SubSeq(<<x, y>>, 2, 2) = <<y>>
           /\ SubSeq(<<x, y>>, 1, 2) = <<x, y>> /\ SubSeq(<<x, y>>, 3, 2) = <<>>
<1>1. /\ <<x, y>> \in Seq({x, y}) /\ Len(<<x, y>>) = 2
      /\ <<x>> \in Seq({x, y}) /\ Len(<<x>>) = 1
      /\ <<y>> \in Seq({x, y}) /\ Len(<<y>>) = 1
  OBVIOUS
<1>2. Append(<<x>>, y) = <<x, y>>
  <2>1. Append(<<x>>, y) \in Seq({x, y}) /\ Len(Append(<<x>>, y)) = 2
    BY <1>1
  <2>2. \A i \in 1 .. 2 : Append(<<x>>, y)[i] = <<x, y>>[i]
    OBVIOUS
  <2> QED
    BY <1>1, <2>1, <2>2, SeqEqual
<1>3. Head(<<x, y>>) = x /\ <<x, y>> # <<>>
  OBVIOUS
<1>4. Tail(<<x, y>>) = <<y>>
  <2>1. Tail(<<x, y>>) \in Seq({x, y}) /\ Len(Tail(<<x, y>>)) = 1
    BY <1>1
  <2>2. \A i \in 1 .. 1 : Tail(<<x, y>>)[i] = <<y>>[i]
    BY <1>1
  <2> QED
    BY <1>1, <2>1, <2>2, SeqEqual
<1>5. SubSeq(<<x, y>>, 1, 1) = <<x>>
  <2> DEFINE s == SubSeq(<<x, y>>, 1, 1)
  <2>1. s \in Seq({x, y}) /\ Len(s) = 1 /\ s[1] = x
    BY <1>1, SubSeqProperties
  <2>2. \A i \in 1 .. Len(s) : s[i] = <<x>>[i]
    BY <2>1
  <2> QED
    BY <1>1, <2>1, <2>2, SeqEqual
<1>6. SubSeq(<<x, y>>, 2, 2) = <<y>>
  <2> DEFINE s == SubSeq(<<x, y>>, 2, 2)
  <2>1. s \in Seq({x, y}) /\ Len(s) = 1 /\ s[1] = y
    BY <1>1, SubSeqProperties
  <2>2. \A i \in 1 .. Len(s) : s[i] = <<y>>[i]
    BY <2>1
  <2> QED
    BY <1>1, <2>1, <2>2, SeqEqual
<1>7. SubSeq(<<x, y>>, 1, 2) = <<x, y>>
  BY <1>1, SubSeqFull
<1>8. SubSeq(<<x, y>>, 3, 2) = <<>>
  BY SubSeqEmpty
<1> QED
  BY <1>1, <1>2, <1>3, <1>4, <1>5, <1>6, <1>7, <1>8

-----------------------------------------------------------------------------
(* What the server does keeps the two ends in step. *)

\* Only a command that was just asked awaits the server.
LEMMA PendingIsAsked ==
    ASSUME NEW r, NEW l, InStep(r, l),
           l.sock = "open", l.transfer = None, l.inbox # <<>>
    PROVE  /\ r.pc = "await" /\ Asked(r, l)
           /\ Head(l.inbox) = r.cmd /\ Tail(l.inbox) = <<>>
           /\ \/ r.cmd.name \notin Transfers \cup Ends
                 /\ (r.cmd.name \in Logins => Plain(r.resume.name))
              \/ r.cmd.name \in Transfers /\ l.listen = r.port
<1>1. Asking(r, l) \/ AskingTransfer(r, l)
  BY DEF InStep, Between, ToSend, ToDial, Moving, Ending, AtRest, Gone, NoWork, Running, Finishing
<1>2. r.pc = "await" /\ Asked(r, l)
  BY <1>1 DEF Asking, Lost, AskingTransfer, Gone, AtRest, NoWork, Running
<1>3. Head(<<r.cmd>>) = r.cmd /\ Tail(<<r.cmd>>) = <<>>
  BY SequencesOfOne
<1>4. CASE Asking(r, l)
  BY <1>2, <1>3, <1>4 DEF Asked, Asking
<1>5. CASE AskingTransfer(r, l)
  BY <1>2, <1>3, <1>5 DEF Asked, AskingTransfer, Gone, AtRest, NoWork, Running
<1> QED
  BY <1>1, <1>4, <1>5

\* The answer to a command, which begins no transfer.
LEMMA AnswerKeepsStep ==
    ASSUME NEW r, NEW l, NEW m, NEW q, InStep(r, l),
           l.sock = "open", l.transfer = None, l.inbox # <<>>,
           m.sock \in {"open", "dropped"}, m.transfer = None, m.inbox = Tail(l.inbox),
           m.buffer = l.buffer, m.wire = Append(l.wire, q),
           ~ Begun(q), q.code = 227 => q.info.port = m.listen
    PROVE  InStep(r, m)
<1>1. /\ r.pc = "await" /\ Asked(r, l) /\ Tail(l.inbox) = <<>>
      /\ \/ r.cmd.name \notin Transfers \cup Ends
            /\ (r.cmd.name \in Logins => Plain(r.resume.name))
         \/ r.cmd.name \in Transfers /\ l.listen = r.port
  BY PendingIsAsked
<1>2. NoWork(m) /\ OneReply(m, q)
  BY <1>1, SequencesOfOne DEF Asked, Silent, NoWork, OneReply
<1>3. CASE r.cmd.name \notin Transfers \cup Ends /\ (r.cmd.name \in Logins => Plain(r.resume.name))
  BY <1>1, <1>2, <1>3 DEF InStep, Asking, Answering
<1>4. CASE r.cmd.name \in Transfers
  BY <1>1, <1>2, <1>4 DEF InStep, AskingTransfer
<1> QED
  BY <1>1, <1>3, <1>4

\* The answer that begins a transfer.
LEMMA BeginKeepsStep ==
    ASSUME NEW r, NEW l, NEW m, NEW q, InStep(r, l),
           l.sock = "open", l.transfer = None, l.inbox # <<>>, l.listen \in Ports, l.listen # None,
           Head(l.inbox).name \in Transfers,
           m.sock = "open", m.transfer # None, m.transfer.cmd = Head(l.inbox),
           m.transfer.port = l.listen, m.inbox = Tail(l.inbox),
           m.buffer = l.buffer, m.wire = Append(l.wire, q), Begun(q)
    PROVE  InStep(r, m)
<1>1. /\ r.pc = "await" /\ Asked(r, l) /\ Tail(l.inbox) = <<>> /\ Head(l.inbox) = r.cmd
      /\ r.cmd.name \in Transfers /\ l.listen = r.port
  BY PendingIsAsked
<1>2. Running(r, m) /\ OneReply(m, q)
  BY <1>1, SequencesOfOne DEF Asked, Silent, Running, OneReply
<1> QED
  BY <1>1, <1>2 DEF InStep, AskingTransfer

\* The answer that ends one.
LEMMA EndKeepsStep ==
    ASSUME NEW r, NEW l, NEW m, NEW q, InStep(r, l), l.transfer # None,
           m.sock = l.sock, m.transfer = None, m.inbox = l.inbox,
           m.buffer = l.buffer, m.wire = Append(l.wire, q)
    PROVE  InStep(r, m)
<1>1. \/ AskingTransfer(r, l) /\ Running(r, l)
      \/ Moving(r, l) /\ Running(r, l) /\ Silent(l)
      \/ Ending(r, l) /\ Finishing(l) /\ Silent(l)
  BY DEF InStep, Between, ToSend, ToDial, Asking, Lost, AskingTransfer, Moving, Ending, Asked,
         AtRest, Gone, NoWork
<1>2. CASE AskingTransfer(r, l) /\ Running(r, l)
  <2>1. PICK p : OneReply(l, p) /\ Begun(p)
    BY <1>2 DEF AskingTransfer, Asked, Gone, AtRest, NoWork, Running
  <2>2. TwoReplies(m, p, q)
    <3>1. CASE l.wire = <<p>> /\ l.buffer = <<>>
      <4>1. m.wire = <<p, q>> /\ m.buffer = <<>>
        BY <3>1, SequencesOfTwo
      <4> QED
        BY <4>1 DEF TwoReplies
    <3>2. CASE l.wire = <<>> /\ l.buffer = <<p>>
      <4>1. m.wire = <<q>> /\ m.buffer = <<p>>
        BY <3>2, SequencesOfOne
      <4> QED
        BY <4>1 DEF TwoReplies
    <3> QED
      BY <2>1, <3>1, <3>2 DEF OneReply
  <2>3. NoWork(m)
    BY <1>2 DEF Running, NoWork
  <2>4. \E u, s : TwoReplies(m, u, s) /\ Begun(u)
    BY <2>1, <2>2
  <2>5. r.pc = "await" /\ r.cmd.name \in Transfers /\ m.sock # "none"
    BY <1>2 DEF AskingTransfer
  <2> QED
    BY <2>3, <2>4, <2>5 DEF InStep, AskingTransfer
<1>3. CASE Moving(r, l) /\ Running(r, l) /\ Silent(l)
  <2>1. NoWork(m) /\ OneReply(m, q)
    BY <1>3, SequencesOfOne DEF Running, Silent, NoWork, OneReply
  <2> QED
    BY <1>3, <2>1 DEF InStep, Moving
<1>4. CASE Ending(r, l) /\ Finishing(l) /\ Silent(l)
  <2>1. NoWork(m) /\ OneReply(m, q)
    BY <1>4, SequencesOfOne DEF Finishing, Silent, NoWork, OneReply
  <2> QED
    BY <1>4, <2>1 DEF InStep, Ending
<1> QED
  BY <1>1, <1>2, <1>3, <1>4

\* The end of the connection: no reply is lost, and none is added.
LEMMA DropKeepsStep ==
    ASSUME NEW r, NEW l, NEW m, InStep(r, l), l.sock = "open",
           m.sock = "dropped", m.transfer = None, m.inbox = <<>>,
           m.buffer = l.buffer, m.wire = l.wire
    PROVE  InStep(r, m)
<1>1. NoWork(m)
  BY DEF NoWork
<1>2. ASSUME Silent(l) PROVE AtRest(m) /\ Gone(m)
  BY <1>2 DEF NoWork, Silent, AtRest, Gone
<1>3. ASSUME NEW q, OneReply(l, q) PROVE OneReply(m, q)
  BY <1>3 DEF OneReply
<1>4. ASSUME NEW q, NEW s, TwoReplies(l, q, s) PROVE TwoReplies(m, q, s)
  BY <1>4 DEF TwoReplies
<1>5. CASE Between(r, l)
  <2>1. AtRest(m)
    BY <1>2, <1>5 DEF Between, AtRest
  <2> QED
    BY <1>5, <2>1 DEF InStep, Between
<1>6. CASE ToSend(r, l)
  <2>1. AtRest(m)
    BY <1>2, <1>6 DEF ToSend, AtRest
  <2> QED
    BY <1>6, <2>1 DEF InStep, ToSend
<1>7. CASE ToDial(r, l)
  <2>1. AtRest(m)
    BY <1>2, <1>7 DEF ToDial, AtRest
  <2> QED
    BY <1>7, <2>1 DEF InStep, ToDial
<1>8. CASE Asking(r, l)
  <2>1. Silent(l) \/ \E q : Answering(r, l, q)
    BY <1>8 DEF Asking, Lost, Asked, Gone, AtRest
  <2>2. ASSUME NEW q, Answering(r, l, q) PROVE Answering(r, m, q)
    BY <1>3, <2>2 DEF Answering
  <2>3. CASE Silent(l)
    BY <1>2, <1>8, <2>3 DEF InStep, Asking
  <2>4. CASE \E q : Answering(r, l, q)
    <3>1. \E q : Answering(r, m, q)
      BY <2>2, <2>4
    <3> QED
      BY <1>1, <1>8, <3>1 DEF InStep, Asking
  <2> QED
    BY <2>1, <2>3, <2>4
<1>9. CASE AskingTransfer(r, l)
  <2>1. \/ Silent(l)
        \/ \E q : OneReply(l, q)
        \/ \E q, s : TwoReplies(l, q, s) /\ Begun(q)
    BY <1>9 DEF AskingTransfer, Asked, Gone, AtRest
  <2>2. CASE Silent(l)
    BY <1>2, <1>9, <2>2 DEF InStep, AskingTransfer
  <2>3. CASE \E q : OneReply(l, q)
    <3>1. \E q : OneReply(m, q)
      BY <1>3, <2>3
    <3> QED
      BY <1>1, <1>9, <3>1 DEF InStep, AskingTransfer
  <2>4. CASE \E q, s : TwoReplies(l, q, s) /\ Begun(q)
    <3>1. \E q, s : TwoReplies(m, q, s) /\ Begun(q)
      <4>1. PICK q, s : TwoReplies(l, q, s) /\ Begun(q)
        BY <2>4
      <4>2. TwoReplies(m, q, s) /\ Begun(q)
        BY <1>4, <4>1
      <4> QED
        BY <4>2
    <3> QED
      BY <1>1, <1>9, <3>1 DEF InStep, AskingTransfer
  <2> QED
    BY <2>1, <2>2, <2>3, <2>4
<1>10. CASE Moving(r, l)
  <2>1. Silent(l) \/ \E q : OneReply(l, q)
    BY <1>10 DEF Moving, Gone, AtRest
  <2>2. CASE Silent(l)
    BY <1>2, <1>10, <2>2 DEF InStep, Moving
  <2>3. CASE \E q : OneReply(l, q)
    <3>1. \E q : OneReply(m, q)
      BY <1>3, <2>3
    <3> QED
      BY <1>1, <1>10, <3>1 DEF InStep, Moving
  <2> QED
    BY <2>1, <2>2, <2>3
<1>11. CASE Ending(r, l)
  <2>1. Silent(l) \/ \E q : OneReply(l, q)
    BY <1>11 DEF Ending, Gone, AtRest
  <2>2. CASE Silent(l)
    BY <1>2, <1>11, <2>2 DEF InStep, Ending
  <2>3. CASE \E q : OneReply(l, q)
    <3>1. \E q : OneReply(m, q)
      BY <1>3, <2>3
    <3> QED
      BY <1>1, <1>11, <3>1 DEF InStep, Ending
  <2> QED
    BY <2>1, <2>2, <2>3
<1> QED
  BY <1>5, <1>6, <1>7, <1>8, <1>9, <1>10, <1>11 DEF InStep

-----------------------------------------------------------------------------
(* The client's side of a reply. *)

\* One recv() brings some of the replies under way nearer.
LEMMA RecvKeepsStep ==
    ASSUME NEW r, NEW l, NEW m, NEW n \in 1 .. Len(l.wire),
           InStep(r, l), r.pc = "await", l.buffer = <<>>,
           m.sock = l.sock, m.transfer = l.transfer, m.inbox = l.inbox,
           m.listen = l.listen, m.chan = l.chan,
           m.buffer = SubSeq(l.wire, 1, n), m.wire = SubSeq(l.wire, n + 1, Len(l.wire))
    PROVE  InStep(r, m)
<1>1. ~ Silent(l)
  BY DEF Silent
<1>2. ASSUME NEW q, OneReply(l, q) PROVE OneReply(m, q)
  <2>1. l.wire = <<q>>
    BY <1>2, SequencesOfOne DEF OneReply
  <2>2. n = 1 /\ Len(l.wire) = 1
    BY <2>1, SequencesOfOne
  <2>3. m.buffer = <<q>> /\ m.wire = <<>>
    BY <2>1, <2>2, SequencesOfOne
  <2> QED
    BY <2>3 DEF OneReply
<1>3. ASSUME NEW q, NEW s, TwoReplies(l, q, s) PROVE TwoReplies(m, q, s)
  <2>1. l.wire = <<q, s>>
    BY <1>3, SequencesOfOne, SequencesOfTwo DEF TwoReplies
  <2>2. (n = 1 \/ n = 2) /\ Len(l.wire) = 2
    BY <2>1, SequencesOfTwo
  <2>3. CASE n = 1
    <3>1. m.buffer = <<q>> /\ m.wire = <<s>>
      <4>1. m.buffer = SubSeq(<<q, s>>, 1, 1) /\ m.wire = SubSeq(<<q, s>>, 2, 2)
        BY <2>1, <2>2, <2>3
      <4> QED
        BY <4>1, SequencesOfTwo
    <3> QED
      BY <3>1 DEF TwoReplies
  <2>4. CASE n = 2
    <3>1. m.buffer = <<q, s>> /\ m.wire = <<>>
      <4>1. m.buffer = SubSeq(<<q, s>>, 1, 2) /\ m.wire = SubSeq(<<q, s>>, 3, 2)
        BY <2>1, <2>2, <2>4
      <4> QED
        BY <4>1, SequencesOfTwo
    <3> QED
      BY <3>1 DEF TwoReplies
  <2> QED
    BY <2>2, <2>3, <2>4
<1>4. NoWork(l) => NoWork(m)
  BY DEF NoWork
<1>5. CASE Asking(r, l)
  <2>1. NoWork(l) /\ \E q : Answering(r, l, q)
    BY <1>1, <1>5 DEF Asking, Lost, Asked, Gone, AtRest
  <2>2. ASSUME NEW q, Answering(r, l, q) PROVE Answering(r, m, q)
    BY <1>2, <2>2 DEF Answering
  <2>3. NoWork(m) /\ \E q : Answering(r, m, q)
    BY <1>4, <2>1, <2>2
  <2> QED
    BY <1>5, <2>3 DEF InStep, Asking
<1>6. CASE AskingTransfer(r, l)
  <2>1. CASE NoWork(l) /\ \E q : OneReply(l, q) /\ (l.sock = "open" => ~ Begun(q))
    <3>1. PICK q : OneReply(l, q) /\ (l.sock = "open" => ~ Begun(q))
      BY <2>1
    <3>2. NoWork(m) /\ OneReply(m, q) /\ (m.sock = "open" => ~ Begun(q))
      BY <1>2, <1>4, <2>1, <3>1
    <3> QED
      BY <1>6, <3>2 DEF InStep, AskingTransfer
  <2>2. CASE NoWork(l) /\ \E q, s : TwoReplies(l, q, s) /\ Begun(q)
    <3>1. PICK q, s : TwoReplies(l, q, s) /\ Begun(q)
      BY <2>2
    <3>2. NoWork(m) /\ TwoReplies(m, q, s) /\ Begun(q)
      BY <1>3, <1>4, <2>2, <3>1
    <3> QED
      BY <1>6, <3>2 DEF InStep, AskingTransfer
  <2>3. CASE Running(r, l) /\ \E q : OneReply(l, q) /\ Begun(q)
    <3>1. PICK q : OneReply(l, q) /\ Begun(q)
      BY <2>3
    <3>2. Running(r, m) /\ OneReply(m, q) /\ Begun(q)
      BY <1>2, <2>3, <3>1 DEF Running
    <3> QED
      BY <1>6, <3>2 DEF InStep, AskingTransfer
  <2> QED
    BY <1>1, <1>6, <2>1, <2>2, <2>3 DEF AskingTransfer, Asked, Gone, AtRest
<1>7. CASE Ending(r, l)
  <2>1. NoWork(l) /\ \E q : OneReply(l, q)
    BY <1>1, <1>7 DEF Ending, Gone, AtRest
  <2>2. NoWork(m) /\ \E q : OneReply(m, q)
    BY <1>2, <1>4, <2>1
  <2> QED
    BY <1>7, <2>2 DEF InStep, Ending
<1> QED
  BY <1>5, <1>6, <1>7 DEF InStep, Between, ToSend, ToDial, Moving

\* A reply to a command that is no transfer leaves nothing behind.
LEMMA PlainReply ==
    ASSUME NEW r, NEW l, InStep(r, l), r.pc = "await",
           r.cmd.name \notin Transfers, l.buffer # <<>>
    PROVE  /\ NoWork(l) /\ l.wire = <<>> /\ Tail(l.buffer) = <<>> /\ l.sock # "none"
           /\ r.cmd.name = "PASV" /\ Head(l.buffer).code = 227 /\ l.sock = "open" =>
                  Head(l.buffer).info.port = l.listen
           /\ r.cmd.name \in Logins => Plain(r.resume.name)
<1>1. ASSUME NEW q, OneReply(l, q)
      PROVE  l.wire = <<>> /\ Tail(l.buffer) = <<>> /\ Head(l.buffer) = q
  BY <1>1, SequencesOfOne DEF OneReply
<1>2. CASE Asking(r, l)
  <2>1. PICK q : NoWork(l) /\ Answering(r, l, q)
    BY <1>2 DEF Asking, Lost, Asked, Gone, AtRest, Silent
  <2> QED
    BY <1>1, <1>2, <2>1 DEF Answering, Asking
<1>3. CASE Ending(r, l)
  <2>1. PICK q : NoWork(l) /\ OneReply(l, q)
    BY <1>3 DEF Ending, Gone, AtRest, Silent
  <2> QED
    BY <1>1, <1>3, <2>1 DEF Ending, Ends, Logins
<1> QED
  BY <1>2, <1>3 DEF InStep, Between, ToSend, ToDial, Moving, AskingTransfer

\* The first reply to a transfer that has not begun is the only one; if it
\* has, the rest of the exchange is what follows.
LEMMA TransferReply ==
    ASSUME NEW r, NEW l, NEW m, InStep(r, l), r.pc = "await",
           r.cmd.name \in Transfers, l.buffer # <<>>,
           m.sock = l.sock, m.transfer = l.transfer, m.inbox = l.inbox,
           m.listen = l.listen, m.chan = l.chan, m.wire = l.wire, m.buffer = Tail(l.buffer),
           l.sock \in {"none", "open", "dropped"}
    PROVE  /\ m.sock # "none"
           /\ ~ Begun(Head(l.buffer)) => AtRest(m)
           /\ \/ Running(r, m) /\ Silent(m)
              \/ Gone(m)
              \/ NoWork(m) /\ \E q : OneReply(m, q)
              \/ ~ Begun(Head(l.buffer))
<1>1. AskingTransfer(r, l)
  BY DEF InStep, Between, ToSend, ToDial, Moving, Asking, Ending, Transfers, Ends
<1>2. ASSUME NEW q, OneReply(l, q) PROVE Silent(m) /\ Head(l.buffer) = q
  BY <1>2, SequencesOfOne DEF OneReply, Silent
<1>3. NoWork(l) => NoWork(m)
  BY DEF NoWork
<1>4. CASE NoWork(l) /\ \E q : OneReply(l, q) /\ (l.sock = "open" => ~ Begun(q))
  <2>1. PICK q : OneReply(l, q) /\ (l.sock = "open" => ~ Begun(q))
    BY <1>4
  <2>2. Silent(m) /\ Head(l.buffer) = q /\ NoWork(m)
    BY <1>2, <1>3, <1>4, <2>1
  <2>3. m.sock # "none"
    BY <1>1 DEF AskingTransfer
  <2> QED
    BY <2>1, <2>2, <2>3 DEF AtRest, Gone
<1>5. CASE NoWork(l) /\ \E q, s : TwoReplies(l, q, s) /\ Begun(q)
  <2>1. PICK q, s : TwoReplies(l, q, s) /\ Begun(q)
    BY <1>5
  <2>2. Head(l.buffer) = q /\ OneReply(m, s)
    <3>1. CASE l.wire = <<s>> /\ l.buffer = <<q>>
      BY <3>1, SequencesOfOne DEF OneReply
    <3>2. CASE l.wire = <<>> /\ l.buffer = <<q, s>>
      BY <3>2, SequencesOfTwo DEF OneReply
    <3> QED
      BY <2>1, <3>1, <3>2 DEF TwoReplies
  <2>3. m.sock # "none" /\ NoWork(m)
    BY <1>1, <1>3, <1>5 DEF AskingTransfer
  <2> QED
    BY <2>1, <2>2, <2>3
<1>6. CASE Running(r, l) /\ \E q : OneReply(l, q) /\ Begun(q)
  <2>1. PICK q : OneReply(l, q) /\ Begun(q)
    BY <1>6
  <2>2. Running(r, m)
    BY <1>6 DEF Running
  <2>3. m.sock # "none"
    BY <1>1 DEF AskingTransfer
  <2> QED
    BY <1>2, <2>1, <2>2, <2>3
<1> QED
  BY <1>1, <1>4, <1>5, <1>6 DEF AskingTransfer, Asked, Gone, AtRest, Silent

-----------------------------------------------------------------------------
(* The parts of a step. *)

LEMMA CloseDataForm ==
    ASSUME NEW l, NEW p, IsLink(l)
    PROVE  LET m == CloseData(l, p) IN
           /\ IsLink(m) /\ m.sock = l.sock /\ m.buffer = l.buffer /\ m.inbox = l.inbox
           /\ m.wire = l.wire /\ m.transfer = l.transfer /\ m.listen = l.listen
           /\ m.bye = l.bye /\ m.left = l.left
           /\ p \in Ports /\ p # None => m.chan[p].state # "connected"
<1>1. CASE p = None
  BY <1>1 DEF CloseData
<1>2. CASE p # None
  <2> DEFINE c == CASE l.chan[p].state = "connected"       -> Chan("cut", None)
                    [] l.chan[p].state \in {"sent", "cut"} -> l.chan[p]
                    [] OTHER                               -> Free
  <2>1. CloseData(l, p) = [l EXCEPT !.chan[p] = c]
    BY <1>2 DEF CloseData
  <2>2. c.state # "connected"
    BY DEF Chan, Free
  <2> HIDE DEF c
  <2>3. IsLink([l EXCEPT !.chan[p] = c])
    BY DEF IsLink
  <2>4. p \in Ports => [l EXCEPT !.chan[p] = c].chan[p] = c
    BY DEF IsLink
  <2>5. LET m == [l EXCEPT !.chan[p] = c] IN
        /\ m.sock = l.sock /\ m.buffer = l.buffer /\ m.inbox = l.inbox
        /\ m.wire = l.wire /\ m.transfer = l.transfer /\ m.listen = l.listen
        /\ m.bye = l.bye /\ m.left = l.left
    BY DEF IsLink
  <2> QED
    BY <2>1, <2>2, <2>3, <2>4, <2>5
<1> QED
  BY <1>1, <1>2

LEMMA HangUpForm ==
    ASSUME NEW l
    PROVE  /\ IsLink(HangUp(l)) /\ HangUp(l).sock = "none" /\ HangUp(l).buffer = l.buffer
           /\ HangUp(l).bye = None /\ HangUp(l).left = l.left
           /\ NoWork(HangUp(l)) /\ HangUp(l).wire = <<>>
           /\ l.buffer = <<>> => AtRest(HangUp(l))
<1> DEFINE d == Disconnected(l.flavour)
<1>1. IsLink(d) /\ d.sock = "none" /\ d.inbox = <<>> /\ d.transfer = None /\ d.wire = <<>>
      /\ d.bye = None
  BY DEF Disconnected, IsLink
<1> HIDE DEF d
<1>2. LET m == [d EXCEPT !.buffer = l.buffer, !.left = l.left, !.features = l.features] IN
      /\ IsLink(m) /\ m.sock = "none" /\ m.inbox = <<>> /\ m.transfer = None
      /\ m.wire = <<>> /\ m.buffer = l.buffer /\ m.bye = None /\ m.left = l.left
  BY <1>1 DEF IsLink
<1>3. HangUp(l) = [d EXCEPT !.buffer = l.buffer, !.left = l.left, !.features = l.features]
  BY DEF HangUp, d
<1> QED
  BY <1>2, <1>3 DEF NoWork, AtRest, Silent

LEMMA SendsForm ==
    ASSUME NEW r, IsPlace(r), NEW name, NEW arg
    PROVE  LET s == Sends(r, name, arg) IN
           /\ IsPlace(s) /\ s.pc = "send" /\ s.cmd.name = name
           /\ s.resume = r.resume /\ s.port = r.port
<1> DEFINE c == Command(name, arg)
<1>1. c.name = name
  BY DEF Command
<1> HIDE DEF c
<1>2. LET s == [r EXCEPT !.pc = "send", !.cmd = c] IN
      s.pc = "send" /\ s.cmd = c /\ s.resume = r.resume /\ s.port = r.port
  BY DEF IsPlace
<1>3. IsPlace([r EXCEPT !.pc = "send", !.cmd = c])
  BY DEF IsPlace
<1>4. Sends(r, name, arg) = [r EXCEPT !.pc = "send", !.cmd = c]
  BY DEF Sends, c
<1> QED
  BY <1>1, <1>2, <1>3, <1>4

LEMMA ExpectsForm ==
    ASSUME NEW r, IsPlace(r), NEW name
    PROVE  LET s == Expects(r, name) IN
           /\ IsPlace(s) /\ s.pc = "await" /\ s.cmd.name = name
           /\ s.resume = r.resume /\ s.port = r.port
<1> DEFINE c == Command(name, None)
<1>1. c.name = name
  BY DEF Command
<1> HIDE DEF c
<1>2. LET s == [r EXCEPT !.pc = "await", !.cmd = c] IN
      s.pc = "await" /\ s.cmd = c /\ s.resume = r.resume /\ s.port = r.port
  BY DEF IsPlace
<1>3. IsPlace([r EXCEPT !.pc = "await", !.cmd = c])
  BY DEF IsPlace
<1>4. Expects(r, name) = [r EXCEPT !.pc = "await", !.cmd = c]
  BY DEF Expects, c
<1> QED
  BY <1>1, <1>2, <1>3, <1>4

LEMMA OutsideForm ==
    /\ IsPlace(Outside) /\ Outside.pc = "idle"
    /\ IsPlace([Outside EXCEPT !.pc = "done"]) /\ [Outside EXCEPT !.pc = "done"].pc = "done"
<1>1. IsPlace(Outside) /\ Outside.pc = "idle"
  BY DEF Outside, IsPlace
<1>2. LET r == [Outside EXCEPT !.pc = "done"] IN IsPlace(r) /\ r.pc = "done"
  BY <1>1 DEF IsPlace
<1> QED
  BY <1>1, <1>2

\* One thread moves, or the server of its instance.
LEMMA OneMoves ==
    ASSUME Own, AllInStep, NEW t \in Threads,
           th' = [u \in Threads |-> th'[u]], link' = [b \in Blobs |-> link'[b]],
           \A u \in Threads \ {t} : th'[u] = th[u],
           \A b \in Blobs \ {Uses[t]} : link'[b] = link[b],
           IsPlace(th'[t]), IsLink(link'[Uses[t]]), InStep(th'[t], link'[Uses[t]])
    PROVE  AllInStep'
<1>1. Uses[t] \in Blobs /\ \A u \in Threads : Uses[u] \in Blobs
  BY UsesAssumption
<1>2. \A u \in Threads \ {t} : Uses[u] # Uses[t]
  BY DEF Own
<1>3. \A u \in Threads : IsPlace(th'[u]) /\ InStep(th'[u], link'[Uses[u]])
  BY <1>1, <1>2 DEF AllInStep, Link
<1>4. \A b \in Blobs : IsLink(link'[b])
  BY <1>1 DEF AllInStep
<1>5. \A b \in Blobs : (\A u \in Threads : Uses[u] # b) => Unused(link'[b])
  BY DEF AllInStep
<1> QED
  BY <1>3, <1>4, <1>5 DEF AllInStep, Link

LEMMA ContinuesKeepsStep ==
    ASSUME Own, AllInStep, NEW t \in Threads, NEW r, NEW l, Continues(t, r, l),
           IsPlace(r), IsLink(l), InStep(r, l)
    PROVE  AllInStep'
<1>1. Uses[t] \in Blobs
  BY UsesAssumption
<1>2. /\ th' = [u \in Threads |-> th'[u]] /\ link' = [b \in Blobs |-> link'[b]]
      /\ th'[t] = r /\ link'[Uses[t]] = l
      /\ \A u \in Threads \ {t} : th'[u] = th[u]
      /\ \A b \in Blobs \ {Uses[t]} : link'[b] = link[b]
  BY <1>1 DEF AllInStep, Continues
<1> QED
  BY <1>2, OneMoves

LEMMA FinishKeepsStep ==
    ASSUME Own, AllInStep, NEW t \in Threads, NEW o, NEW l, Finish(t, o, l),
           IsLink(l), AtRest(l)
    PROVE  AllInStep'
<1> DEFINE r == [Outside EXCEPT !.pc = "done"]
           m == CloseData(l, th[t].port)
<1>1. Uses[t] \in Blobs
  BY UsesAssumption
<1>2. /\ th' = [u \in Threads |-> th'[u]] /\ link' = [b \in Blobs |-> link'[b]]
      /\ th'[t] = r /\ link'[Uses[t]] = m
      /\ \A u \in Threads \ {t} : th'[u] = th[u]
      /\ \A b \in Blobs \ {Uses[t]} : link'[b] = link[b]
  BY <1>1 DEF AllInStep, Finish
<1>3. IsLink(m) /\ AtRest(m)
  BY CloseDataForm DEF AtRest, Silent, NoWork
<1>4. IsPlace(r) /\ InStep(r, m)
  BY <1>3, OutsideForm DEF InStep, Between
<1> QED
  BY <1>2, <1>3, <1>4, OneMoves

LEMMA ServerKeepsStep ==
    ASSUME Own, AllInStep, NEW b \in Blobs, link[b].sock = "open" \/ link[b].transfer # None,
           NEW l, UNCHANGED th, link' = [link EXCEPT ![b] = l], IsLink(l),
           \A t \in Threads : InStep(th[t], link[b]) => InStep(th[t], l)
    PROVE  AllInStep'
<1>1. PICK t \in Threads : Uses[t] = b
  BY DEF AllInStep, Unused, AtRest, NoWork
<1>2. /\ th' = [u \in Threads |-> th'[u]] /\ link' = [d \in Blobs |-> link'[d]]
      /\ th'[t] = th[t] /\ link'[Uses[t]] = l
      /\ \A u \in Threads \ {t} : th'[u] = th[u]
      /\ \A d \in Blobs \ {Uses[t]} : link'[d] = link[d]
  BY <1>1 DEF AllInStep
<1>3. IsPlace(th[t]) /\ InStep(th[t], l)
  BY <1>1 DEF AllInStep, Link
<1> QED
  BY <1>2, <1>3, OneMoves

-----------------------------------------------------------------------------
(* The steps of the server. *)

\* An answer after which `loggedIn` is in.
AnswersAs(b, code, info, in) ==
    link' = [link EXCEPT ![b].inbox = Tail(@), ![b].wire = Append(@, Reply(code, info)),
                         ![b].loggedIn = in]

LEMMA AnswersKeepsStep ==
    ASSUME Own, AllInStep, NEW b \in Blobs, Pending(b), UNCHANGED th,
           NEW code, code \notin {125, 150, 227}, NEW info, NEW in, AnswersAs(b, code, info, in)
    PROVE  AllInStep'
<1> DEFINE l == link[b]
           q == Reply(code, info)
           m == [l EXCEPT !.inbox = Tail(@), !.wire = Append(@, q), !.loggedIn = in]
<1>1. link' = [link EXCEPT ![b] = m]
  BY DEF AllInStep, AnswersAs
<1>2. IsLink(l) /\ l.sock = "open" /\ l.transfer = None /\ l.inbox # <<>>
  BY DEF AllInStep, Pending
<1>3. /\ IsLink(m) /\ m.sock = "open" /\ m.transfer = None /\ m.inbox = Tail(l.inbox)
      /\ m.buffer = l.buffer /\ m.wire = Append(l.wire, q)
  BY <1>2 DEF IsLink
<1>4. ~ Begun(q) /\ q.code # 227
  BY DEF Begun, Reply
<1> HIDE DEF m, l, q
<1>5. \A t \in Threads : InStep(th[t], l) => InStep(th[t], m)
  BY <1>2, <1>3, <1>4, AnswerKeepsStep
<1> QED
  BY <1>1, <1>2, <1>3, <1>5, ServerKeepsStep DEF l

LEMMA PlainAnswersKeepsStep ==
    ASSUME Own, AllInStep, NEW b \in Blobs, Pending(b), UNCHANGED th,
           NEW code, code \notin {125, 150, 227}, NEW info, Answers(b, code, info)
    PROVE  AllInStep'
<1>1. AnswersAs(b, code, info, link[b].loggedIn)
  BY DEF AllInStep, Answers, AnswersAs, IsLink
<1> QED
  BY <1>1, AnswersKeepsStep

LEMMA EndedForm ==
    ASSUME NEW l, IsLink(l)
    PROVE  LET m == Ended(l) IN
           /\ IsLink(m) /\ m.sock = "dropped" /\ m.inbox = <<>> /\ m.transfer = None
           /\ m.buffer = l.buffer /\ m.wire = l.wire /\ m.listen = None
           /\ m.bye = l.bye /\ m.left = l.left
<1> DEFINE c == [p \in Ports |->
                  CASE l.chan[p].state = "received"  -> l.chan[p]
                    [] l.chan[p].state = "connected" -> Chan("received", Torn)
                    [] OTHER                         -> Free]
<1>1. Ended(l) = [l EXCEPT !.sock = "dropped", !.inbox = <<>>, !.transfer = None, !.listen = None,
                           !.chan = c]
  BY DEF Ended, IsLink
<1>2. c = [p \in Ports |-> c[p]]
  OBVIOUS
<1> HIDE DEF c
<1>3. LET m == [l EXCEPT !.sock = "dropped", !.inbox = <<>>, !.transfer = None, !.listen = None,
                         !.chan = c] IN
      /\ m.sock = "dropped" /\ m.inbox = <<>> /\ m.transfer = None
      /\ m.buffer = l.buffer /\ m.wire = l.wire /\ m.listen = None /\ m.chan = c
      /\ m.bye = l.bye /\ m.left = l.left
  BY DEF IsLink
<1>4. IsLink([l EXCEPT !.sock = "dropped", !.inbox = <<>>, !.transfer = None, !.listen = None,
                       !.chan = c])
  BY <1>2, <1>3 DEF IsLink
<1> QED
  BY <1>1, <1>3, <1>4

\* With what the server says as it closes.
LEMMA DroppedForm ==
    ASSUME NEW l, IsLink(l), NEW bye
    PROVE  LET m == [Ended(l) EXCEPT !.bye = bye] IN
           /\ IsLink(m) /\ m.sock = "dropped" /\ m.inbox = <<>> /\ m.transfer = None
           /\ m.buffer = l.buffer /\ m.wire = l.wire /\ m.listen = None /\ m.left = l.left
           /\ m.chan = Ended(l).chan /\ m.flavour = Ended(l).flavour
<1> DEFINE e == Ended(l)
<1>1. /\ IsLink(e) /\ e.sock = "dropped" /\ e.inbox = <<>> /\ e.transfer = None
      /\ e.buffer = l.buffer /\ e.wire = l.wire /\ e.listen = None /\ e.left = l.left
  BY EndedForm
<1> HIDE DEF e
<1>2. LET m == [e EXCEPT !.bye = bye] IN
      /\ m.sock = e.sock /\ m.inbox = e.inbox /\ m.transfer = e.transfer
      /\ m.buffer = e.buffer /\ m.wire = e.wire /\ m.listen = e.listen /\ m.left = e.left
      /\ m.chan = e.chan /\ m.flavour = e.flavour /\ IsLink(m)
  BY <1>1 DEF IsLink
<1> QED
  BY <1>1, <1>2 DEF e

LEMMA DropStep ==
    ASSUME Own, AllInStep, NEW b \in Blobs, Drop(b)
    PROVE  AllInStep'
<1> DEFINE l == link[b]
<1>1. PICK bye : link' = [link EXCEPT ![b] = [Ended(l) EXCEPT !.bye = bye]]
  BY DEF Drop
<1> DEFINE m == [Ended(l) EXCEPT !.bye = bye]
<1>2. IsLink(l) /\ l.sock = "open" /\ link' = [link EXCEPT ![b] = m] /\ UNCHANGED th
  BY <1>1 DEF AllInStep, Drop
<1>3. /\ IsLink(m) /\ m.sock = "dropped" /\ m.inbox = <<>> /\ m.transfer = None
      /\ m.buffer = l.buffer /\ m.wire = l.wire
  BY <1>2, DroppedForm
<1> HIDE DEF m
<1>4. \A t \in Threads : InStep(th[t], l) => InStep(th[t], m)
  BY <1>2, <1>3, DropKeepsStep
<1> QED
  BY <1>2, <1>3, <1>4, ServerKeepsStep

\* The answer to QUIT, after which the connection ends.
LEMMA QuitStep ==
    ASSUME Own, AllInStep, NEW b \in Blobs, ServeQuit(b)
    PROVE  AllInStep'
<1> DEFINE l == link[b]
           q == Reply(221, None)
           e == [l EXCEPT !.wire = Append(@, q)]
           m == Ended(e)
<1>1. /\ IsLink(l) /\ l.sock = "open" /\ l.transfer = None /\ l.inbox # <<>>
      /\ link' = [link EXCEPT ![b] = m] /\ UNCHANGED th
  <2>1. link' = [link EXCEPT ![b] = m]
    BY DEF ServeQuit
  <2> QED
    BY <2>1 DEF AllInStep, ServeQuit, Serves, Pending
<1>2. IsLink(e) /\ e.wire = Append(l.wire, q) /\ e.buffer = l.buffer
  BY <1>1 DEF IsLink
<1> HIDE DEF e
<1>3. /\ IsLink(m) /\ m.sock = "dropped" /\ m.inbox = <<>> /\ m.transfer = None
      /\ m.buffer = l.buffer /\ m.wire = Append(l.wire, q)
  BY <1>2, EndedForm
<1>4. ~ Begun(q) /\ q.code # 227
  BY DEF Begun, Reply
<1> HIDE DEF m, q
<1>5. \A t \in Threads : InStep(th[t], l) => InStep(th[t], m)
  <2> SUFFICES ASSUME NEW t \in Threads, InStep(th[t], l) PROVE InStep(th[t], m)
    OBVIOUS
  <2>1. m.inbox = Tail(l.inbox)
    BY <1>1, <1>3, PendingIsAsked
  <2> QED
    BY <1>1, <1>3, <1>4, <2>1, AnswerKeepsStep
<1> QED
  BY <1>1, <1>3, <1>5, ServerKeepsStep

LEMMA PasvStep ==
    ASSUME Own, AllInStep, NEW b \in Blobs, ServePasv(b)
    PROVE  AllInStep'
<1> DEFINE l == link[b]
<1>1. PICK p \in Ports :
        link' = [link EXCEPT
            ![b].inbox = Tail(@),
            ![b].wire = Append(@, Reply(227, [port |-> p])),
            ![b].listen = p,
            ![b].chan = [q \in Ports |->
                IF q = p THEN Chan("listen", None)
                ELSE IF @[q].state \in {"listen", "cut"} THEN Free ELSE @[q]]]
  BY DEF ServePasv
<1> DEFINE c == [q \in Ports |->
                IF q = p THEN Chan("listen", None)
                ELSE IF l.chan[q].state \in {"listen", "cut"} THEN Free ELSE l.chan[q]]
           q == Reply(227, [port |-> p])
           m == [l EXCEPT !.inbox = Tail(@), !.wire = Append(@, q), !.listen = p, !.chan = c]
<1>2. /\ IsLink(l) /\ l.sock = "open" /\ l.transfer = None /\ l.inbox # <<>> /\ UNCHANGED th
      /\ link' = [link EXCEPT ![b] = m]
  <2>1. IsLink(l) /\ l.sock = "open" /\ l.transfer = None /\ l.inbox # <<>> /\ UNCHANGED th
    BY DEF AllInStep, ServePasv, Serves, Pending
  <2>2. link' = [link EXCEPT ![b] = m]
    BY <1>1
  <2> QED
    BY <2>1, <2>2
<1>3. c = [r \in Ports |-> c[r]]
  OBVIOUS
<1>4. ~ Begun(q) /\ q.info.port = p
  BY DEF Begun, Reply
<1> HIDE DEF c, q
<1>5. /\ m.sock = "open" /\ m.transfer = None /\ m.inbox = Tail(l.inbox)
      /\ m.buffer = l.buffer /\ m.wire = Append(l.wire, q) /\ m.listen = p /\ m.chan = c
  BY <1>2 DEF IsLink
<1>6. IsLink(m)
  BY <1>2, <1>3, <1>5 DEF IsLink
<1> HIDE DEF m
<1>7. \A t \in Threads : InStep(th[t], l) => InStep(th[t], m)
  BY <1>2, <1>4, <1>5, AnswerKeepsStep
<1> QED
  BY <1>2, <1>6, <1>7, ServerKeepsStep

LEMMA StartStep ==
    ASSUME Own, NoneIsNoRecord, AllInStep, NEW b \in Blobs, NEW name \in Transfers,
           StartTransfer(b, name)
    PROVE  AllInStep'
<1> DEFINE l == link[b]
           tr == [cmd |-> Head(l.inbox), port |-> l.listen, data |-> Content(name, Told(b))]
           q == Reply(150, None)
           m == [l EXCEPT !.inbox = Tail(@), !.wire = Append(@, q), !.transfer = tr]
<1>1. /\ IsLink(l) /\ l.sock = "open" /\ l.transfer = None /\ l.inbox # <<>>
      /\ Head(l.inbox).name = name /\ Pending(b) /\ UNCHANGED th
  BY DEF AllInStep, StartTransfer, Serves, Pending
<1>2. CASE Transferable(name, Told(b)) /\ Attached(b)
  <2>1. link' = [link EXCEPT ![b] = m]
    BY <1>1, <1>2 DEF AllInStep, StartTransfer
  <2>2. l.listen \in Ports /\ l.listen # None
    BY <1>1, <1>2 DEF Attached, IsLink
  <2>3. tr # None /\ tr.cmd = Head(l.inbox) /\ tr.port = l.listen
    BY DEF NoneIsNoRecord
  <2>4. Begun(q)
    BY DEF Begun, Reply
  <2> HIDE DEF tr, q
  <2>5. /\ m.sock = "open" /\ m.transfer = tr /\ m.inbox = Tail(l.inbox)
        /\ m.buffer = l.buffer /\ m.wire = Append(l.wire, q) /\ IsLink(m)
    BY <1>1 DEF IsLink
  <2> HIDE DEF m
  <2>6. \A t \in Threads : InStep(th[t], l) => InStep(th[t], m)
    BY <1>1, <2>2, <2>3, <2>4, <2>5, BeginKeepsStep
  <2> QED
    BY <1>1, <2>1, <2>5, <2>6, ServerKeepsStep
<1>3. CASE ~ (Transferable(name, Told(b)) /\ Attached(b))
  <2>1. Answers(b, IF Transferable(name, Told(b)) THEN 425 ELSE 550, None)
    BY <1>3 DEF StartTransfer
  <2>2. (IF Transferable(name, Told(b)) THEN 425 ELSE 550) \notin {125, 150, 227}
    OBVIOUS
  <2> QED
    BY <1>1, <2>1, <2>2, PlainAnswersKeepsStep
<1> QED
  BY <1>2, <1>3

LEMMA EndsStep ==
    ASSUME Own, AllInStep, NEW b \in Blobs, link[b].transfer # None,
           NEW code, NEW c, EndsTransfer(b, code, c), UNCHANGED th
    PROVE  AllInStep'
<1> DEFINE l == link[b]
           q == Reply(code, None)
           m == [l EXCEPT !.transfer = None, !.wire = Append(@, q), !.chan[l.transfer.port] = c]
<1>1. IsLink(l) /\ link' = [link EXCEPT ![b] = m]
  BY DEF AllInStep, EndsTransfer
<1>2. /\ m.sock = l.sock /\ m.transfer = None /\ m.inbox = l.inbox
      /\ m.buffer = l.buffer /\ m.wire = Append(l.wire, q) /\ m.listen = l.listen
      /\ m.chan = [l.chan EXCEPT ![l.transfer.port] = c]
  BY <1>1 DEF IsLink
<1>3. IsLink(m)
  BY <1>1, <1>2 DEF IsLink
<1> HIDE DEF m, q
<1>4. \A t \in Threads : InStep(th[t], l) => InStep(th[t], m)
  BY <1>2, EndKeepsStep
<1> QED
  BY <1>1, <1>3, <1>4, ServerKeepsStep

LEMMA ServerStep ==
    ASSUME Own, NoneIsNoRecord, AllInStep, NEW b \in Blobs, Server(b) \/ Faulty(b)
    PROVE  AllInStep'
<1> USE DEF Serves
<1>1. CASE ServeLogin(b)
  <2>1. UNCHANGED th /\ Pending(b)
    BY <1>1 DEF ServeLogin
  <2>2. CASE Answers(b, 331, None)
    BY <2>1, <2>2, PlainAnswersKeepsStep
  <2>3. CASE AnswersAs(b, 230, None, TRUE)
    <3>1. \E in : AnswersAs(b, 230, None, in)
      BY <2>3, Zenon
    <3> QED
      BY <2>1, <3>1, AnswersKeepsStep
  <2>4. CASE Answers(b, 530, None)
    BY <2>1, <2>4, PlainAnswersKeepsStep
  <2> QED
    BY <1>1, <2>2, <2>3, <2>4 DEF ServeLogin, AnswersAs
<1>2. CASE ServeSession(b)
  <2>1. UNCHANGED th /\ Pending(b)
    BY <1>2 DEF ServeSession
  <2>2. \E code \in {250, 200, 211, 213, 550} : \E info : Answers(b, code, info)
    BY <1>2 DEF ServeSession
  <2> QED
    BY <2>1, <2>2, PlainAnswersKeepsStep
<1>3. CASE ServeQuit(b)
  BY <1>3, QuitStep
<1>4. CASE ServeMkd(b)
  <2>1. UNCHANGED th /\ Pending(b)
    BY <1>4 DEF ServeMkd
  <2>2. \E code \in {257, 550} : \E info : Answers(b, code, info)
    BY <1>4 DEF ServeMkd
  <2> QED
    BY <2>1, <2>2, PlainAnswersKeepsStep
<1>5. CASE ServeDele(b)
  <2>1. UNCHANGED th /\ Pending(b)
    BY <1>5 DEF ServeDele
  <2>2. \E code \in {250, 550} : \E info : Answers(b, code, info)
    BY <1>5 DEF ServeDele
  <2> QED
    BY <2>1, <2>2, PlainAnswersKeepsStep
<1>6. CASE ServePasv(b)
  BY <1>6, PasvStep
<1>7. CASE \E name \in {"RETR", "LIST", "STOR"} : StartTransfer(b, name)
  BY <1>7, StartStep DEF Transfers
<1>8. CASE EndStor(b)
  BY <1>8, EndsStep DEF EndStor
<1>9. CASE EndRetr(b)
  <2>1. link[b].transfer # None /\ UNCHANGED th /\ \E code, c : EndsTransfer(b, code, c)
    BY <1>9 DEF EndRetr
  <2> QED
    BY <2>1, EndsStep
<1>10. CASE AbortTransfer(b)
  BY <1>10, EndsStep DEF AbortTransfer
<1>11. CASE Refuse(b)
  <2>1. PICK code \in Refusals : UNCHANGED th /\ Pending(b) /\ Answers(b, code, None)
    BY <1>11 DEF Refuse
  <2>2. code \notin {125, 150, 227}
    BY RefusalsAssumption
  <2> QED
    BY <2>1, <2>2, PlainAnswersKeepsStep
<1>12. CASE Drop(b)
  BY <1>12, DropStep
<1> QED
  BY <1>1, <1>2, <1>3, <1>4, <1>5, <1>6, <1>7, <1>8, <1>9, <1>10, <1>11, <1>12 DEF Server, Faulty

-----------------------------------------------------------------------------
(* The steps of a client. *)

\* What is known of the thread that moves.
LEMMA PlaceOfThread ==
    ASSUME AllInStep, NEW t \in Threads
    PROVE  /\ IsPlace(th[t]) /\ IsLink(Link(t)) /\ InStep(th[t], Link(t))
           /\ th[t].pc \in {"idle", "done", "send", "dial"} => AtRest(Link(t))
           /\ th[t].pc \in {"dial", "await", "data", "fill"} => Link(t).sock # "none"
<1>1. IsPlace(th[t]) /\ IsLink(Link(t)) /\ InStep(th[t], Link(t))
  BY UsesAssumption DEF AllInStep, Link
<1>2. th[t].pc \in {"idle", "done", "send", "dial"} => AtRest(Link(t))
  BY <1>1 DEF InStep, Between, ToSend, ToDial, Asking, AskingTransfer, Moving, Ending
<1>3. th[t].pc \in {"dial", "await", "data", "fill"} => Link(t).sock # "none"
  BY <1>1 DEF InStep, Between, ToSend, ToDial, Asking, AskingTransfer, Moving, Ending
<1> QED
  BY <1>1, <1>2, <1>3

\* A client with no reply at hand waits for a server that waits for it only
\* where the greeting is lost.
LEMMA NoWait ==
    ASSUME AllInStep, NEW t \in Threads, Quiet(Uses[t]), Link(t).buffer = <<>>,
           th[t].pc \in {"await", "data"}
    PROVE  Lost(th[t], Link(t))
<1> DEFINE r == th[t]
           l == Link(t)
<1>1. /\ InStep(r, l) /\ l.sock = "open" /\ Silent(l)
      /\ \/ l.transfer = None /\ l.inbox = <<>>
         \/ l.transfer # None /\ l.transfer.cmd.name = "STOR"
            /\ l.chan[l.transfer.port].state = "connected"
  BY PlaceOfThread DEF Quiet, Link, Channel, Silent
<1>2. \A q : ~ OneReply(l, q)
  BY <1>1, SequencesOfOne DEF OneReply, Silent
<1>3. \A q, s : ~ TwoReplies(l, q, s)
  BY <1>1, SequencesOfOne, SequencesOfTwo DEF TwoReplies, Silent
<1>4. \A c : <<c>> # <<>>
  BY SequencesOfOne
<1>5. Asking(r, l) => Lost(r, l)
  BY <1>1, <1>2, <1>4 DEF Asking, Answering, Asked, Gone
<1>6. ~ AskingTransfer(r, l)
  BY <1>1, <1>2, <1>3, <1>4 DEF AskingTransfer, Asked, Gone
<1>7. ~ Ending(r, l)
  BY <1>1, <1>2 DEF Ending, Finishing, Gone
<1>8. r.pc = "data" => ~ Moving(r, l)
  BY <1>1, <1>2 DEF Moving, Running, Gone, NoWork
<1> QED
  BY <1>1, <1>5, <1>6, <1>7, <1>8 DEF InStep, Between, ToSend, ToDial, Moving

\* The link without the reply just taken, where that was the only one.
LEMMA TakenForm ==
    ASSUME AllInStep, NEW t \in Threads, th[t].pc = "await",
           th[t].cmd.name \notin Transfers, Link(t).buffer # <<>>
    PROVE  /\ IsLink(Taken(t)) /\ AtRest(Taken(t)) /\ Taken(t).buffer = <<>>
           /\ Taken(t).sock # "none" /\ Taken(t).sock = Link(t).sock
           /\ Taken(t).listen = Link(t).listen
           /\ th[t].cmd.name = "PASV" /\ Code(t) = 227 /\ Link(t).sock = "open" =>
                  Info(t).port = Link(t).listen
           /\ th[t].cmd.name \in Logins => Plain(th[t].resume.name)
<1> DEFINE l == Link(t)
           m == [l EXCEPT !.buffer = Tail(@)]
<1>1. IsLink(l) /\ InStep(th[t], l)
  BY PlaceOfThread
<1>2. /\ NoWork(l) /\ l.wire = <<>> /\ Tail(l.buffer) = <<>> /\ l.sock # "none"
      /\ th[t].cmd.name = "PASV" /\ Head(l.buffer).code = 227 /\ l.sock = "open" =>
             Head(l.buffer).info.port = l.listen
      /\ th[t].cmd.name \in Logins => Plain(th[t].resume.name)
  BY <1>1, PlainReply
<1>3. /\ IsLink(m) /\ m.sock = l.sock /\ m.listen = l.listen /\ m.wire = l.wire
      /\ m.buffer = Tail(l.buffer) /\ m.inbox = l.inbox /\ m.transfer = l.transfer
  BY <1>1 DEF IsLink
<1> QED
  BY <1>2, <1>3 DEF Taken, Code, Info, AtRest, NoWork, Silent

LEMMA FailsKeepsStep ==
    ASSUME Own, AllInStep, NEW t \in Threads, NEW l, Fails(t, l), IsLink(l), AtRest(l)
    PROVE  AllInStep'
BY FinishKeepsStep DEF Fails

LEMMA BreaksKeepsStep ==
    ASSUME Own, AllInStep, NEW t \in Threads, Breaks(t), AtRest(Link(t))
    PROVE  AllInStep'
<1> DEFINE l == IF HangsUp(t) THEN HangUp(Link(t)) ELSE Link(t)
<1>1. IsLink(l) /\ AtRest(l)
  BY PlaceOfThread, HangUpForm DEF AtRest, Silent
<1>2. Fails(t, l)
  BY DEF Breaks
<1> QED
  BY <1>1, <1>2, FailsKeepsStep

\* On with a command that is sent on a connection at rest.
LEMMA GoesOnKeepsStep ==
    ASSUME Own, AllInStep, NEW t \in Threads, NEW r, NEW l, Continues(t, r, l),
           IsPlace(r), r.pc = "send", Plain(r.cmd.name), IsLink(l), AtRest(l)
    PROVE  AllInStep'
<1>1. ToSend(r, l)
  BY DEF ToSend, Plain, Logins
<1> QED
  BY <1>1, ContinuesKeepsStep DEF InStep

LEMMA ProbeForm ==
    ASSUME NEW r, IsPlace(r), NEW q, NEW features
    PROVE  LET s == Probe(r, q, features) IN IsPlace(s) /\ s.pc = "send" /\ Plain(s.cmd.name)
<1> DEFINE u == [r EXCEPT !.rest = IF q.op = "scan" THEN q.prefix ELSE q.key]
           Good(s) == IsPlace(s) /\ s.pc = "send" /\ Plain(s.cmd.name)
<1>1. Plain("SIZE") /\ Plain("MLST") /\ Plain("PASV")
  BY DEF Plain, Transfers, Logins, Ends
<1>2. IsPlace(u)
  BY DEF IsPlace
<1> HIDE DEF u
<1>3. Good(Sends(r, "SIZE", q.key))
  BY <1>1, SendsForm
<1>4. Good(Sends(r, "MLST", q.key))
  BY <1>1, SendsForm
<1>5. Good(Sends(u, "PASV", None))
  BY <1>1, <1>2, SendsForm
<1> HIDE DEF Good
<1>6. Probe(r, q, features) \in {Sends(r, "SIZE", q.key), Sends(r, "MLST", q.key),
                                 Sends(u, "PASV", None)}
  BY DEF Probe, u
<1>7. Good(Probe(r, q, features))
  BY <1>3, <1>4, <1>5, <1>6
<1> QED
  BY <1>7 DEF Good

LEMMA MakeParentsForm ==
    ASSUME NEW r, IsPlace(r), NEW parents
    PROVE  LET s == MakeParents(r, parents) IN IsPlace(s) /\ s.pc = "send" /\ Plain(s.cmd.name)
<1> DEFINE u == [r EXCEPT !.rest = parents]
<1>1. Plain("MKD") /\ Plain("PASV")
  BY DEF Plain, Transfers, Logins, Ends
<1>2. IsPlace(u)
  BY DEF IsPlace
<1>3. MakeParents(r, parents) = IF parents = <<>> THEN Sends(u, "PASV", None)
                                ELSE Sends(u, "MKD", Head(parents))
  BY DEF MakeParents
<1> HIDE DEF u
<1>4. CASE parents = <<>>
  BY <1>1, <1>2, <1>3, <1>4, SendsForm
<1>5. CASE parents # <<>>
  BY <1>1, <1>2, <1>3, <1>5, SendsForm
<1> QED
  BY <1>4, <1>5

LEMMA StartsForm ==
    ASSUME NEW q, NEW l
    PROVE  LET s == Starts(q, l) IN IsPlace(s) /\ s.pc = "send" /\ Plain(s.cmd.name)
<1> DEFINE Good(s) == IsPlace(s) /\ s.pc = "send" /\ Plain(s.cmd.name)
           closing == IF l.flavour = "aio" THEN "close" ELSE "QUIT"
<1>1. /\ Plain("open") /\ Plain("close") /\ Plain("QUIT") /\ Plain("PASV")
      /\ Plain("DELE") /\ Plain("FEAT")
  BY DEF Plain, Transfers, Logins, Ends
<1>2. \A name, arg : Plain(name) => Good(Sends(Outside, name, arg))
  <2> TAKE name, arg
  <2>1. LET s == Sends(Outside, name, arg) IN IsPlace(s) /\ s.pc = "send" /\ s.cmd.name = name
    BY OutsideForm, SendsForm
  <2> QED
    BY <2>1
<1>3. Plain(closing)
  BY <1>1
<1>4. Good(MakeParents(Outside, Parents(q.key))) /\ Good(Probe(Outside, q, l.features))
  BY OutsideForm, MakeParentsForm, ProbeForm
<1> HIDE DEF Good, closing
<1>5. Starts(q, l) \in {Sends(Outside, "open", None), Sends(Outside, closing, None),
                        MakeParents(Outside, Parents(q.key)), Sends(Outside, "PASV", None),
                        Sends(Outside, "DELE", q.key), Sends(Outside, "FEAT", None),
                        Probe(Outside, q, l.features)}
  BY DEF Starts, closing
<1>6. Good(Starts(q, l))
  BY <1>1, <1>2, <1>3, <1>4, <1>5
<1> QED
  BY <1>6 DEF Good

\* A call begins, and ends.
LEMMA InvokeStep ==
    ASSUME Own, AllInStep, NEW t \in Threads, Invoke(t)
    PROVE  AllInStep'
<1>1. PICK q : th' = [th EXCEPT ![t] = Starts(q, Link(t))]
  BY DEF Invoke
<1> DEFINE s == Starts(q, Link(t))
<1>2. IsPlace(s) /\ s.pc = "send" /\ Plain(s.cmd.name)
  BY StartsForm
<1>3. IsLink(Link(t)) /\ AtRest(Link(t))
  BY PlaceOfThread DEF Invoke
<1> HIDE DEF s
<1>4. ToSend(s, Link(t))
  BY <1>2, <1>3 DEF ToSend, Plain, Logins
<1>5. /\ th' = [u \in Threads |-> th'[u]] /\ th'[t] = s /\ \A u \in Threads \ {t} : th'[u] = th[u]
      /\ link' = link
  BY <1>1 DEF AllInStep, Invoke, s
<1>6. link' = [b \in Blobs |-> link'[b]]
  BY <1>5 DEF AllInStep
<1> QED
  BY <1>2, <1>3, <1>4, <1>5, <1>6, OneMoves DEF InStep, Link

LEMMA ReturnStep ==
    ASSUME Own, AllInStep, NEW t \in Threads, Return(t)
    PROVE  AllInStep'
<1>1. IsLink(Link(t)) /\ AtRest(Link(t))
  BY PlaceOfThread DEF Return
<1>2. Between(Outside, Link(t))
  BY <1>1, OutsideForm DEF Between
<1>3. /\ th' = [u \in Threads |-> th'[u]] /\ th'[t] = Outside
      /\ \A u \in Threads \ {t} : th'[u] = th[u] /\ link' = link
  BY DEF AllInStep, Return
<1>4. link' = link /\ link' = [b \in Blobs |-> link'[b]]
  BY DEF AllInStep, Return
<1> QED
  BY <1>1, <1>2, <1>3, <1>4, OutsideForm, OneMoves DEF InStep, Link

LEMMA CloseNothingStep ==
    ASSUME Own, AllInStep, NEW t \in Threads, CloseNothing(t) \/ OpenDone(t)
    PROVE  AllInStep'
BY PlaceOfThread, FinishKeepsStep DEF CloseNothing, OpenDone, Ready

LEMMA ConnectStep ==
    ASSUME Own, AllInStep, NEW t \in Threads, Connect(t)
    PROVE  AllInStep'
<1> DEFINE u == [th[t] EXCEPT !.resume = Wanted(t)]
           r == Expects(u, "220")
           h == HangUp(Link(t))
           q == Reply(220, None)
           l == [h EXCEPT !.sock = "open", !.wire = <<q>>]
<1>1. Continues(t, r, l) /\ Connecting(t)
  BY DEF Connect
<1>2. /\ IsPlace(th[t]) /\ InStep(th[t], Link(t)) /\ AtRest(Link(t))
  BY <1>1, PlaceOfThread DEF Connecting
<1>3. ToSend(th[t], Link(t))
  BY <1>1, <1>2 DEF Connecting, InStep, Between, ToDial, Asking, AskingTransfer, Moving, Ending
<1>4. Plain(Wanted(t).name)
  <2>1. Plain("QUIT")
    BY DEF Plain, Transfers, Logins, Ends
  <2>2. th[t].cmd.name # "close" => Plain(th[t].cmd.name)
    BY <1>1, <1>3 DEF Connecting, ToSend
  <2> QED
    BY <2>1, <2>2 DEF Wanted, Command
<1>5. IsPlace(u) /\ u.resume = Wanted(t)
  BY <1>2 DEF IsPlace
<1> HIDE DEF u
<1>6. IsPlace(r) /\ r.pc = "await" /\ r.cmd.name = "220" /\ r.resume = Wanted(t)
  BY <1>5, ExpectsForm
<1>7. /\ IsLink(h) /\ h.buffer = <<>> /\ h.inbox = <<>> /\ h.transfer = None
  BY <1>2, HangUpForm DEF AtRest, Silent, NoWork
<1> HIDE DEF h
<1>8. /\ IsLink(l) /\ l.sock = "open" /\ l.wire = <<q>> /\ l.buffer = <<>> /\ NoWork(l)
  BY <1>7 DEF IsLink, NoWork
<1> HIDE DEF r, l, q
<1>9. Answering(r, l, q)
  BY <1>6, <1>8 DEF Answering, OneReply
<1>10. Asking(r, l)
  BY <1>4, <1>6, <1>8, <1>9 DEF Asking, Transfers, Ends
<1> QED
  BY <1>1, <1>6, <1>8, <1>10, ContinuesKeepsStep DEF InStep

LEMMA ConnectFailsStep ==
    ASSUME Own, AllInStep, NEW t \in Threads, ConnectFails(t)
    PROVE  AllInStep'
<1>1. AtRest(Link(t)) /\ Fails(t, HangUp(Link(t)))
  BY PlaceOfThread DEF ConnectFails, Connecting
<1> QED
  BY <1>1, HangUpForm, FailsKeepsStep DEF AtRest, Silent

LEMMA SendStep ==
    ASSUME Own, AllInStep, NEW t \in Threads, Send(t)
    PROVE  AllInStep'
<1> DEFINE l == Link(t)
           r == [th[t] EXCEPT !.pc = "await"]
           m == IF l.sock = "open" THEN [l EXCEPT !.inbox = Append(@, th[t].cmd)] ELSE l
<1>1. Continues(t, r, m) /\ Sending(t)
  BY DEF Send
<1>2. /\ IsPlace(th[t]) /\ IsLink(l) /\ InStep(th[t], l) /\ AtRest(l)
      /\ th[t].pc = "send" /\ l.sock \in {"open", "dropped"}
  BY <1>1, PlaceOfThread DEF Sending, Ready, IsLink
<1>3. ToSend(th[t], l)
  BY <1>2 DEF InStep, Between, ToDial, Asking, AskingTransfer, Moving, Ending
<1>4. IsPlace(r) /\ r.pc = "await" /\ r.cmd = th[t].cmd /\ r.resume = th[t].resume /\ r.port = th[t].port
  BY <1>2 DEF IsPlace
<1>5. IsLink(m) /\ m.sock = l.sock /\ m.listen = l.listen /\ m.sock # "none"
  BY <1>2 DEF IsLink
<1>6. l.sock = "open" => Asked(r, m)
  <2> SUFFICES ASSUME l.sock = "open" PROVE Asked(r, m)
    OBVIOUS
  <2>1. m.inbox = <<th[t].cmd>> /\ m.sock = "open" /\ m.transfer = None /\ m.wire = <<>> /\ m.buffer = <<>>
    BY <1>2, SequencesOfOne DEF AtRest, Silent, NoWork, IsLink
  <2> QED
    BY <1>4, <2>1 DEF Asked, Silent
<1>7. l.sock = "dropped" => Gone(m)
  BY <1>2 DEF Gone
<1> HIDE DEF r, m
<1>8. CASE th[t].cmd.name \in Transfers
  <2>1. (Asked(r, m) /\ m.listen = r.port) \/ Gone(m)
    BY <1>2, <1>3, <1>4, <1>5, <1>6, <1>7, <1>8 DEF ToSend
  <2>2. AskingTransfer(r, m)
    BY <1>4, <1>5, <1>8, <2>1 DEF AskingTransfer
  <2> QED
    BY <1>1, <1>4, <1>5, <2>2, ContinuesKeepsStep DEF InStep
<1>9. CASE th[t].cmd.name \notin Transfers
  <2>1. Asking(r, m)
    BY <1>2, <1>3, <1>4, <1>5, <1>6, <1>7, <1>9 DEF Asking, ToSend
  <2> QED
    BY <1>1, <1>4, <1>5, <2>1, ContinuesKeepsStep DEF InStep
<1> QED
  BY <1>8, <1>9

\* What the two ends are apart by is in these fields.
LEMMA SameStep ==
    ASSUME NEW r, NEW l, NEW m, InStep(r, l),
           m.sock = l.sock, m.buffer = l.buffer, m.inbox = l.inbox, m.wire = l.wire,
           m.transfer = l.transfer, m.listen = l.listen, m.chan = l.chan
    PROVE  InStep(r, m)
<1>1. /\ Silent(m) <=> Silent(l)
      /\ NoWork(m) <=> NoWork(l)
      /\ \A q : OneReply(m, q) <=> OneReply(l, q)
      /\ \A q, s : TwoReplies(m, q, s) <=> TwoReplies(l, q, s)
  BY DEF Silent, NoWork, OneReply, TwoReplies
<1>2. /\ AtRest(m) <=> AtRest(l)
      /\ Gone(m) <=> Gone(l)
      /\ Asked(r, m) <=> Asked(r, l)
      /\ Running(r, m) <=> Running(r, l)
      /\ Finishing(m) <=> Finishing(l)
      /\ Lost(r, m) <=> Lost(r, l)
      /\ \A q : Answering(r, m, q) <=> Answering(r, l, q)
  BY <1>1 DEF AtRest, Gone, Asked, Running, Finishing, Lost, Answering
<1>3. Between(r, m) <=> Between(r, l)
  BY <1>2 DEF Between
<1>4. ToSend(r, m) <=> ToSend(r, l)
  BY <1>2 DEF ToSend
<1>5. ToDial(r, m) <=> ToDial(r, l)
  BY <1>2 DEF ToDial
<1>6. Asking(r, m) <=> Asking(r, l)
  BY <1>1, <1>2 DEF Asking
<1>7. AskingTransfer(r, m) <=> AskingTransfer(r, l)
  BY <1>1, <1>2 DEF AskingTransfer
<1>8. Moving(r, m) <=> Moving(r, l)
  BY <1>1, <1>2 DEF Moving
<1>9. Ending(r, m) <=> Ending(r, l)
  BY <1>1, <1>2 DEF Ending
<1> QED
  BY <1>3, <1>4, <1>5, <1>6, <1>7, <1>8, <1>9 DEF InStep

LEMMA RecvStep ==
    ASSUME Own, AllInStep, NEW t \in Threads, Recv(t)
    PROVE  AllInStep'
<1> DEFINE l == Link(t)
<1>1. PICK n \in 1 .. Len(l.wire), rest \in {None, l.bye} :
        Continues(t, th[t], [l EXCEPT
            !.buffer = SubSeq(l.wire, 1, n),
            !.wire = SubSeq(l.wire, n + 1, Len(l.wire)),
            !.left = rest,
            !.bye = IF rest = None THEN @ ELSE None])
  BY DEF Recv
<1> DEFINE m == [l EXCEPT !.buffer = SubSeq(l.wire, 1, n),
                          !.wire = SubSeq(l.wire, n + 1, Len(l.wire)),
                          !.left = rest,
                          !.bye = IF rest = None THEN @ ELSE None]
<1>2. /\ IsPlace(th[t]) /\ IsLink(l) /\ InStep(th[t], l)
      /\ th[t].pc = "await" /\ l.buffer = <<>>
  BY PlaceOfThread DEF Recv, Reads
<1>3. /\ m.sock = l.sock /\ m.transfer = l.transfer /\ m.inbox = l.inbox
      /\ m.listen = l.listen /\ m.chan = l.chan
      /\ m.buffer = SubSeq(l.wire, 1, n) /\ m.wire = SubSeq(l.wire, n + 1, Len(l.wire))
  BY <1>2 DEF IsLink
<1>4. IsLink(m)
  BY <1>2 DEF IsLink
<1> HIDE DEF m, l
<1>5. InStep(th[t], m)
  BY <1>2, <1>3, RecvKeepsStep
<1> QED
  BY <1>1, <1>2, <1>4, <1>5, ContinuesKeepsStep DEF m, l

LEMMA RecvRestStep ==
    ASSUME Own, AllInStep, NEW t \in Threads, RecvRest(t)
    PROVE  AllInStep'
<1> DEFINE l == Link(t)
           m == [l EXCEPT !.left = l.bye, !.bye = None]
<1>1. Continues(t, th[t], m)
  BY DEF RecvRest
<1>2. IsPlace(th[t]) /\ IsLink(l) /\ InStep(th[t], l)
  BY PlaceOfThread
<1>3. /\ IsLink(m) /\ m.sock = l.sock /\ m.transfer = l.transfer /\ m.inbox = l.inbox
      /\ m.listen = l.listen /\ m.chan = l.chan /\ m.buffer = l.buffer /\ m.wire = l.wire
  BY <1>2 DEF IsLink
<1> HIDE DEF m, l
<1>4. InStep(th[t], m)
  BY <1>2, <1>3, SameStep
<1> QED
  BY <1>1, <1>2, <1>3, <1>4, ContinuesKeepsStep

\* The greeting, and it alone, is read as the end of another line.
LEMMA JoinKeepsStep ==
    ASSUME NEW r, NEW l, NEW m, InStep(r, l), Trails(r, l), l.left # None, l.wire # <<>>,
           m.sock = l.sock, m.transfer = l.transfer, m.inbox = l.inbox, m.wire = Tail(l.wire),
           m.buffer = <<>> \/ \E q : m.buffer = <<q>>
    PROVE  r.cmd.name = "220" /\ m.wire = <<>> /\ InStep(r, m)
<1>1. r.pc = "await" /\ r.cmd.name = "220" /\ l.buffer = <<>>
  BY DEF Trails
<1>2. r.cmd.name \notin Transfers \cup Ends
  BY <1>1 DEF Transfers, Ends
<1>3. Asking(r, l) /\ ~ Silent(l)
  BY <1>1, <1>2 DEF InStep, Between, ToSend, ToDial, AskingTransfer, Moving, Ending, Silent
<1>4. PICK q : NoWork(l) /\ OneReply(l, q)
  BY <1>3 DEF Asking, Asked, Gone, Lost, AtRest, Answering
<1>5. m.wire = <<>> /\ NoWork(m)
  BY <1>1, <1>4, SequencesOfOne DEF OneReply, NoWork
<1>6. CASE m.buffer = <<>>
  BY <1>1, <1>3, <1>5, <1>6 DEF InStep, Asking, Lost, AtRest, Silent
<1>7. CASE \E u : m.buffer = <<u>>
  <2>1. PICK u : m.buffer = <<u>>
    BY <1>7
  <2>2. Answering(r, m, u)
    BY <1>1, <1>5, <2>1 DEF Answering, OneReply
  <2> QED
    BY <1>1, <1>3, <1>5, <2>2 DEF InStep, Asking
<1> QED
  BY <1>1, <1>5, <1>6, <1>7

LEMMA RecvJoinsStep ==
    ASSUME Own, AllInStep, AllTrail, NEW t \in Threads, RecvJoins(t)
    PROVE  AllInStep'
<1> DEFINE l == Link(t)
<1>1. PICK read \in {<<>>} \cup {<<Reply(code, None)>> : code \in {220, 250, 500}} :
        Continues(t, th[t], [l EXCEPT !.buffer = read, !.wire = Tail(@), !.left = None])
  BY DEF RecvJoins
<1> DEFINE m == [l EXCEPT !.buffer = read, !.wire = Tail(@), !.left = None]
<1>2. /\ IsPlace(th[t]) /\ IsLink(l) /\ InStep(th[t], l) /\ Trails(th[t], l)
      /\ l.left = "part" /\ l.wire # <<>>
  BY PlaceOfThread DEF AllTrail, RecvJoins
<1>3. l.left # None
  BY <1>2, ValuesAssumption
<1>4. /\ IsLink(m) /\ m.sock = l.sock /\ m.transfer = l.transfer /\ m.inbox = l.inbox
      /\ m.buffer = read /\ m.wire = Tail(l.wire)
  BY <1>2 DEF IsLink
<1>5. read = <<>> \/ \E q : read = <<q>>
  OBVIOUS
<1> HIDE DEF m, l
<1>6. InStep(th[t], m)
  BY <1>2, <1>3, <1>4, <1>5, JoinKeepsStep
<1> QED
  BY <1>1, <1>2, <1>4, <1>6, ContinuesKeepsStep DEF m, l

\* The connection is over, and every reply is read.
LEMMA OverAtRest ==
    ASSUME NEW r, NEW l, InStep(r, l), r.pc = "await", Silent(l), l.sock # "open"
    PROVE  AtRest(l)
<1>1. \A q : ~ OneReply(l, q)
  BY SequencesOfOne DEF OneReply, Silent
<1>2. \A q, s : ~ TwoReplies(l, q, s)
  BY SequencesOfOne, SequencesOfTwo DEF TwoReplies, Silent
<1>3. Asking(r, l) => AtRest(l)
  BY <1>1 DEF Asking, Lost, Answering, Asked, Gone
<1>4. AskingTransfer(r, l) => AtRest(l)
  BY <1>1, <1>2 DEF AskingTransfer, Asked, Running, Gone
<1>5. Ending(r, l) => AtRest(l)
  BY <1>1 DEF Ending, Finishing, Gone
<1> QED
  BY <1>3, <1>4, <1>5 DEF InStep, Between, ToSend, ToDial, Moving

LEMMA RecvEndsStep ==
    ASSUME Own, AllInStep, NEW t \in Threads, RecvEnds(t) \/ SendFails(t)
    PROVE  AllInStep'
<1>1. InStep(th[t], Link(t)) /\ Link(t).sock = "dropped" /\ Breaks(t)
  BY PlaceOfThread DEF RecvEnds, SendFails
<1>2. CASE RecvEnds(t)
  <2>1. th[t].pc = "await" /\ Silent(Link(t))
    BY <1>2 DEF RecvEnds, Reads, Silent
  <2>2. AtRest(Link(t))
    BY <1>1, <2>1, OverAtRest
  <2> QED
    BY <1>1, <2>2, BreaksKeepsStep
<1>3. CASE SendFails(t)
  BY <1>1, <1>3, PlaceOfThread, BreaksKeepsStep DEF SendFails, Sending, Ready
<1> QED
  BY <1>2, <1>3

\* What a client does that has read a 421: the call ends, or a command is
\* sent on a connection that is over.
LEMMA FarewellForm ==
    ASSUME AllInStep, AllTrail, NEW t \in Threads, TakeFarewell(t)
    PROVE  LET l == [Link(t) EXCEPT !.left = None]
               name == th[t].cmd.name
           IN
           /\ th[t].pc = "await" /\ Link(t).buffer = <<>> /\ Link(t).left = "421" /\ IsLink(l)
           /\ l.sock = Link(t).sock /\ l.wire = Link(t).wire /\ l.bye = Link(t).bye
           /\ l.left = None /\ l.buffer = <<>> /\ l.features = Link(t).features
           /\ l.flavour = Link(t).flavour /\ l.chan = Link(t).chan
           /\ \/ /\ \/ Finish(t, Store!Done, HangUp(l))
                    \/ Fails(t, HangUp(l))
              \/ /\ \/ Finish(t, Store!Done, l)
                    \/ Fails(t, l)
                 /\ name # "220" /\ AtRest(l)
                 /\ Link(t).sock # "open" /\ Link(t).wire = <<>>
              \/ /\ name = "FEAT"
                 /\ Continues(t, Probe(th[t], call[t], {}), [l EXCEPT !.features = {}])
                 /\ AtRest(l)
                 /\ Link(t).sock # "open" /\ Link(t).wire = <<>>
              \/ /\ name \in {"SIZE", "MLST"}
                 /\ \E features : Continues(t, Probe(th[t], call[t], features), l)
                 /\ AtRest(l)
                 /\ Link(t).sock # "open" /\ Link(t).wire = <<>>
<1> DEFINE k == Link(t)
           l == [k EXCEPT !.left = None]
           name == th[t].cmd.name
<1>1. /\ IsLink(k) /\ InStep(th[t], k) /\ Trails(th[t], k)
      /\ th[t].pc = "await" /\ k.buffer = <<>> /\ k.left = "421" /\ k.left # None
  <2>1. "421" # None
    BY ValuesAssumption
  <2> QED
    BY <2>1, PlaceOfThread DEF AllTrail, TakeFarewell
<1>2. /\ IsLink(l) /\ l.sock = k.sock /\ l.wire = k.wire /\ l.bye = k.bye /\ l.left = None
      /\ l.buffer = k.buffer /\ l.features = k.features /\ l.inbox = k.inbox
      /\ l.transfer = k.transfer /\ l.flavour = k.flavour /\ l.chan = k.chan
  BY <1>1 DEF IsLink
<1>3. name # "220" => k.sock # "open" /\ k.wire = <<>>
  BY <1>1 DEF Trails
<1>4. name # "220" => AtRest(l)
  BY <1>1, <1>2, <1>3, OverAtRest DEF AtRest, Silent, NoWork
<1>5. \/ Finish(t, Store!Done, HangUp(l))
      \/ Fails(t, HangUp(l))
      \/ name # "220" /\ (Finish(t, Store!Done, l) \/ Fails(t, l))
      \/ name = "FEAT" /\ Continues(t, Probe(th[t], call[t], {}), [l EXCEPT !.features = {}])
      \/ /\ name \in {"SIZE", "MLST"}
         /\ \E features : Continues(t, Probe(th[t], call[t], features), l)
  BY DEF TakeFarewell
<1> HIDE DEF l
<1> QED
  BY <1>1, <1>2, <1>3, <1>4, <1>5 DEF l

LEMMA FarewellStep ==
    ASSUME Own, AllInStep, AllTrail, NEW t \in Threads, TakeFarewell(t)
    PROVE  AllInStep'
<1> DEFINE l == [Link(t) EXCEPT !.left = None]
           k == [l EXCEPT !.features = {}]
<1>1. /\ IsLink(l) /\ l.buffer = <<>>
      /\ \/ Finish(t, Store!Done, HangUp(l)) \/ Fails(t, HangUp(l))
         \/ AtRest(l) /\ (Finish(t, Store!Done, l) \/ Fails(t, l))
         \/ AtRest(l) /\ Continues(t, Probe(th[t], call[t], {}), k)
         \/ AtRest(l) /\ \E features : Continues(t, Probe(th[t], call[t], features), l)
  BY FarewellForm
<1>2. IsPlace(th[t])
  BY PlaceOfThread
<1> HIDE DEF l
<1>3. IsLink(k) /\ (AtRest(l) => AtRest(k))
  BY <1>1 DEF IsLink, AtRest, Silent, NoWork
<1>4. IsLink(HangUp(l)) /\ AtRest(HangUp(l))
  BY <1>1, HangUpForm
<1> HIDE DEF k
<1> QED
  BY <1>1, <1>2, <1>3, <1>4, FinishKeepsStep, FailsKeepsStep, ProbeForm, GoesOnKeepsStep

LEMMA LoginStep ==
    ASSUME Own, AllInStep, NEW t \in Threads, TakeLogin(t)
    PROVE  AllInStep'
<1> DEFINE name == th[t].cmd.name
           next == LoginNext(name, Code(t))
           l == Taken(t)
<1>1. th[t].pc = "await" /\ name \in Logins /\ Link(t).buffer # <<>> /\ IsPlace(th[t])
  BY PlaceOfThread DEF TakeLogin, Awaits, Logins
<1>2. name \notin Transfers
  BY <1>1 DEF Logins, Transfers
<1>3. /\ IsLink(l) /\ AtRest(l) /\ l.buffer = <<>> /\ l.sock # "none"
      /\ Plain(th[t].resume.name)
  BY <1>1, <1>2, TakenForm
<1>4. next \in (Logins \ {"220"}) \cup {"done", "failed"}
  BY DEF LoginNext, Logins
<1> HIDE DEF next
<1>5. CASE next = "failed"
  <2>1. Fails(t, HangUp(l))
    BY <1>5 DEF TakeLogin, next
  <2> QED
    BY <1>3, <2>1, HangUpForm, FailsKeepsStep
<1>6. CASE next = "done"
  <2> DEFINE r == [th[t] EXCEPT !.pc = "send", !.cmd = th[t].resume, !.resume = None]
  <2>1. Continues(t, r, l)
    BY <1>6 DEF TakeLogin, next
  <2>2. IsPlace(r)
    BY <1>1 DEF IsPlace
  <2>3. r.pc = "send" /\ r.cmd = th[t].resume
    BY <1>1 DEF IsPlace
  <2> HIDE DEF r
  <2> QED
    BY <1>3, <2>1, <2>2, <2>3, GoesOnKeepsStep
<1>7. CASE next \in Logins \ {"220"}
  <2> DEFINE r == Sends(th[t], next, None)
  <2>1. Continues(t, r, l)
    <3>1. next # "failed" /\ next # "done"
      BY <1>7 DEF Logins
    <3> QED
      BY <3>1 DEF TakeLogin, next
  <2>2. IsPlace(r) /\ r.pc = "send" /\ r.cmd.name = next /\ r.resume = th[t].resume
    BY <1>1, SendsForm
  <2> HIDE DEF r
  <2>3. ToSend(r, l)
    BY <1>3, <1>7, <2>2 DEF ToSend, Logins, Transfers, Ends
  <2> QED
    BY <1>3, <2>1, <2>2, <2>3, ContinuesKeepsStep DEF InStep
<1> QED
  BY <1>4, <1>5, <1>6, <1>7

\* The replies after which nothing is left, whatever the call does next.
LEMMA PlainTakeForm ==
    ASSUME AllInStep, NEW t \in Threads,
           NEW names, names \cap Transfers = {}, Awaits(t, names)
    PROVE  IsPlace(th[t]) /\ IsLink(Taken(t)) /\ AtRest(Taken(t)) /\ Taken(t).sock # "none"
<1>1. th[t].pc = "await" /\ th[t].cmd.name \notin Transfers /\ Link(t).buffer # <<>>
  BY DEF Awaits
<1> QED
  BY <1>1, TakenForm, PlaceOfThread

LEMMA QuitReplyStep ==
    ASSUME Own, AllInStep, NEW t \in Threads, TakeQuit(t)
    PROVE  AllInStep'
<1> DEFINE l == IF HangsUp(t) THEN HangUp(Taken(t)) ELSE Taken(t)
<1>1. IsLink(Taken(t)) /\ AtRest(Taken(t))
  <2>1. {"QUIT"} \cap Transfers = {}
    BY DEF Transfers
  <2> QED
    BY <2>1, PlainTakeForm DEF TakeQuit
<1>2. IsLink(l) /\ AtRest(l)
  BY <1>1, HangUpForm DEF AtRest, Silent
<1>3. Finish(t, Store!Done, l)
  BY DEF TakeQuit
<1> QED
  BY <1>2, <1>3, FinishKeepsStep

LEMMA FeatReplyStep ==
    ASSUME Own, AllInStep, NEW t \in Threads, TakeFeat(t)
    PROVE  AllInStep'
<1> DEFINE f == IF Code(t) = 211 THEN Info(t) ELSE {}
           r == Probe(th[t], call[t], f)
           l == [Taken(t) EXCEPT !.features = f]
<1>1. IsPlace(th[t]) /\ IsLink(Taken(t)) /\ AtRest(Taken(t))
  <2>1. {"FEAT"} \cap Transfers = {}
    BY DEF Transfers
  <2> QED
    BY <2>1, PlainTakeForm DEF TakeFeat
<1>2. Continues(t, r, l)
  BY DEF TakeFeat
<1>3. IsPlace(r) /\ r.pc = "send" /\ Plain(r.cmd.name)
  BY <1>1, ProbeForm
<1> HIDE DEF f, r
<1>4. IsLink(l)
  BY <1>1 DEF IsLink
<1>5. AtRest(l)
  BY <1>1 DEF IsLink, AtRest, Silent, NoWork
<1> QED
  BY <1>2, <1>3, <1>4, <1>5, GoesOnKeepsStep

LEMMA MkdReplyStep ==
    ASSUME Own, AllInStep, NEW t \in Threads, TakeMkd(t)
    PROVE  AllInStep'
<1> DEFINE r == MakeParents(th[t], Tail(th[t].rest))
<1>1. IsPlace(th[t]) /\ IsLink(Taken(t)) /\ AtRest(Taken(t))
  <2>1. {"MKD"} \cap Transfers = {}
    BY DEF Transfers
  <2> QED
    BY <2>1, PlainTakeForm DEF TakeMkd
<1>2. IsPlace(r) /\ r.pc = "send" /\ Plain(r.cmd.name)
  BY <1>1, MakeParentsForm
<1>3. Continues(t, r, Taken(t)) \/ Fails(t, Taken(t))
  BY DEF TakeMkd
<1> QED
  BY <1>1, <1>2, <1>3, GoesOnKeepsStep, FailsKeepsStep

LEMMA DeleReplyStep ==
    ASSUME Own, AllInStep, NEW t \in Threads, TakeDele(t) \/ TakeFailing(t)
    PROVE  AllInStep'
<1>1. IsLink(Taken(t)) /\ AtRest(Taken(t))
  <2>1. {"DELE"} \cap Transfers = {} /\ {"226, failing"} \cap Transfers = {}
    BY DEF Transfers
  <2> QED
    BY <2>1, PlainTakeForm DEF TakeDele, TakeFailing
<1>2. \E o : Finish(t, o, Taken(t))
  BY DEF TakeDele, TakeFailing, Fails
<1> QED
  BY <1>1, <1>2, FinishKeepsStep

LEMMA ProbeReplyStep ==
    ASSUME Own, AllInStep, NEW t \in Threads, TakeProbe(t)
    PROVE  AllInStep'
<1>1. IsPlace(th[t]) /\ IsLink(Taken(t)) /\ AtRest(Taken(t))
  <2>1. {"SIZE", "MLST"} \cap Transfers = {}
    BY DEF Transfers
  <2> QED
    BY <2>1, PlainTakeForm DEF TakeProbe
<1>2. \/ \E o : Finish(t, o, Taken(t))
      \/ \E f : Continues(t, Probe(th[t], call[t], f), Taken(t))
  BY DEF TakeProbe
<1>3. \A f : LET r == Probe(th[t], call[t], f) IN IsPlace(r) /\ r.pc = "send" /\ Plain(r.cmd.name)
  BY <1>1, ProbeForm
<1> QED
  BY <1>1, <1>2, <1>3, FinishKeepsStep, GoesOnKeepsStep

LEMMA PasvReplyStep ==
    ASSUME Own, AllInStep, NEW t \in Threads, TakePasv(t)
    PROVE  AllInStep'
<1> DEFINE l == Taken(t)
           r == [th[t] EXCEPT !.pc = "dial", !.port = Info(t).port]
<1>1. th[t].pc = "await" /\ th[t].cmd.name = "PASV" /\ Link(t).buffer # <<>> /\ IsPlace(th[t])
  BY PlaceOfThread DEF TakePasv, Awaits
<1>2. th[t].cmd.name \notin Transfers
  BY <1>1 DEF Transfers
<1>3. /\ IsLink(l) /\ AtRest(l) /\ l.sock # "none" /\ l.sock = Link(t).sock
      /\ l.listen = Link(t).listen
      /\ Code(t) = 227 /\ l.sock = "open" => Info(t).port = l.listen
  BY <1>1, <1>2, TakenForm
<1>4. CASE Code(t) = 227
  <2>1. Continues(t, r, l)
    BY <1>4 DEF TakePasv
  <2>2. IsPlace(r)
    BY <1>1 DEF IsPlace
  <2>3. r.pc = "dial" /\ r.port = Info(t).port
    BY <1>1 DEF IsPlace
  <2> HIDE DEF r
  <2>4. ToDial(r, l)
    BY <1>3, <1>4, <2>3 DEF ToDial
  <2> QED
    BY <1>3, <2>1, <2>2, <2>4, ContinuesKeepsStep DEF InStep
<1>5. CASE Code(t) # 227
  <2>1. Fails(t, l)
    BY <1>5 DEF TakePasv
  <2> QED
    BY <1>3, <2>1, FailsKeepsStep
<1> QED
  BY <1>4, <1>5

LEMMA DialStep ==
    ASSUME Own, AllInStep, NEW t \in Threads, Dial(t) \/ DialRefused(t) \/ DialFails(t)
    PROVE  AllInStep'
<1>1. /\ th[t].pc = "dial" /\ IsPlace(th[t]) /\ IsLink(Link(t)) /\ AtRest(Link(t))
      /\ InStep(th[t], Link(t)) /\ Link(t).sock # "none"
  BY PlaceOfThread DEF Dial, DialRefused, DialFails
<1>2. ToDial(th[t], Link(t))
  BY <1>1 DEF InStep, Between, ToSend, Asking, AskingTransfer, Moving, Ending
<1>3. CASE Dial(t)
  <2> DEFINE l == [Link(t) EXCEPT !.chan[th[t].port] = Chan("connected", None)]
  <2>1. PICK r : /\ r \in {Sends(th[t], "STOR", call[t].key), Sends(th[t], "RETR", call[t].key),
                           Sends(th[t], "LIST", Path(t))}
                 /\ Continues(t, r, l)
    BY <1>3 DEF Dial
  <2>2. IsPlace(r) /\ r.pc = "send" /\ r.cmd.name \in Transfers /\ r.port = th[t].port
    BY <1>1, <2>1, SendsForm DEF Transfers
  <2>3. /\ IsLink(l) /\ l.sock = Link(t).sock /\ l.listen = Link(t).listen /\ AtRest(l)
    BY <1>1 DEF IsLink, AtRest, Silent, NoWork
  <2> HIDE DEF l
  <2>4. ToSend(r, l)
    BY <1>1, <1>2, <2>2, <2>3 DEF ToSend, ToDial, Transfers, Logins, Ends
  <2> QED
    BY <2>1, <2>2, <2>3, <2>4, ContinuesKeepsStep DEF InStep
<1>4. CASE DialRefused(t) \/ DialFails(t)
  <2>1. Fails(t, Link(t))
    BY <1>4 DEF DialRefused, DialFails
  <2> QED
    BY <1>1, <2>1, FailsKeepsStep
<1> QED
  BY <1>3, <1>4

LEMMA TransferReplyStep ==
    ASSUME Own, AllInStep, NEW t \in Threads, TakeTransfer(t)
    PROVE  AllInStep'
<1> DEFINE l == Link(t)
           m == Taken(t)
           r == [th[t] EXCEPT !.pc = IF th[t].cmd.name = "STOR" THEN "fill" ELSE "data"]
<1>1. /\ th[t].pc = "await" /\ th[t].cmd.name \in Transfers /\ l.buffer # <<>>
      /\ IsPlace(th[t]) /\ IsLink(l) /\ InStep(th[t], l)
  BY PlaceOfThread DEF TakeTransfer, Awaits, Transfers
<1>2. /\ m.sock = l.sock /\ m.transfer = l.transfer /\ m.inbox = l.inbox
      /\ m.listen = l.listen /\ m.chan = l.chan /\ m.wire = l.wire /\ m.buffer = Tail(l.buffer)
      /\ IsLink(m)
  BY <1>1 DEF Taken, IsLink
<1>3. l.sock \in {"none", "open", "dropped"} /\ Code(t) = Head(l.buffer).code
  BY <1>1 DEF IsLink, Code
<1> HIDE DEF l, m
<1>4. /\ m.sock # "none"
      /\ ~ Begun(Head(l.buffer)) => AtRest(m)
      /\ \/ Running(th[t], m) /\ Silent(m)
         \/ Gone(m)
         \/ NoWork(m) /\ \E q : OneReply(m, q)
         \/ ~ Begun(Head(l.buffer))
  BY <1>1, <1>2, <1>3, TransferReply
<1>5. CASE Code(t) \in {125, 150}
  <2>1. Continues(t, r, m)
    BY <1>5 DEF TakeTransfer, m
  <2>2. IsPlace(r)
    BY <1>1 DEF IsPlace
  <2>3. /\ r.pc = IF th[t].cmd.name = "STOR" THEN "fill" ELSE "data"
        /\ r.cmd = th[t].cmd /\ r.port = th[t].port
    BY <1>1 DEF IsPlace
  <2> HIDE DEF r
  <2>4. \/ Running(r, m) /\ Silent(m)
        \/ Gone(m)
        \/ NoWork(m) /\ \E q : OneReply(m, q)
    BY <1>3, <1>4, <1>5, <2>3 DEF Running, Begun
  <2>5. Moving(r, m)
    BY <1>1, <1>4, <2>3, <2>4 DEF Moving
  <2> QED
    BY <1>2, <2>1, <2>2, <2>5, ContinuesKeepsStep DEF InStep
<1>6. CASE Code(t) \notin {125, 150}
  <2>1. AtRest(m)
    BY <1>3, <1>4, <1>6 DEF Begun
  <2>2. \E o : Finish(t, o, m)
    BY <1>6 DEF TakeTransfer, Yielded, Fails, m
  <2> QED
    BY <1>2, <2>1, <2>2, FinishKeepsStep
<1> QED
  BY <1>5, <1>6

\* The client is at the end of the data, or has sent it, and awaits the end
\* of the transfer: r is where it then is, m what has become of its link.
LEMMA AwaitEnd ==
    ASSUME Own, AllInStep, NEW t \in Threads, th[t].pc \in {"data", "fill"},
           NEW r, NEW m, Continues(t, r, m), IsPlace(r), r.pc = "await", r.cmd.name \in Ends,
           IsLink(m), m.sock = Link(t).sock, m.inbox = Link(t).inbox, m.wire = Link(t).wire,
           m.buffer = Link(t).buffer, m.transfer = Link(t).transfer,
           Running(th[t], Link(t)) /\ Silent(Link(t)) /\ th[t].cmd.name = "STOR" =>
               m.chan[th[t].port].state # "connected"
    PROVE  AllInStep'
<1> DEFINE l == Link(t)
<1>1. InStep(th[t], l) /\ l.sock # "none"
  BY PlaceOfThread
<1>2. \/ Running(th[t], l) /\ Silent(l)
      \/ Gone(l)
      \/ NoWork(l) /\ \E q : OneReply(l, q)
  BY <1>1 DEF InStep, Between, ToSend, ToDial, Asking, AskingTransfer, Moving, Ending
<1>3. CASE Running(th[t], l) /\ Silent(l)
  <2>1. Finishing(m) /\ Silent(m)
    BY <1>3 DEF Finishing, Running, Silent
  <2> QED
    BY <1>1, <2>1, ContinuesKeepsStep DEF InStep, Ending
<1>4. CASE Gone(l)
  <2>1. Gone(m)
    BY <1>4 DEF Gone, AtRest, Silent, NoWork
  <2> QED
    BY <1>1, <2>1, ContinuesKeepsStep DEF InStep, Ending
<1>5. CASE NoWork(l) /\ \E q : OneReply(l, q)
  <2>1. NoWork(m) /\ \E q : OneReply(m, q)
    BY <1>5 DEF NoWork, OneReply
  <2> QED
    BY <1>1, <2>1, ContinuesKeepsStep DEF InStep, Ending
<1> QED
  BY <1>2, <1>3, <1>4, <1>5

LEMMA ReadDataStep ==
    ASSUME Own, AllInStep, NEW t \in Threads, ReadData(t)
    PROVE  AllInStep'
<1> DEFINE e == Expects(th[t], "226")
           r == [e EXCEPT !.data = IF MyChan(t).state = "received" THEN MyChan(t).data ELSE Torn]
<1>1. Continues(t, r, Link(t)) /\ th[t].pc = "data"
  BY DEF ReadData
<1>2. IsPlace(th[t]) /\ IsLink(Link(t)) /\ InStep(th[t], Link(t))
  BY PlaceOfThread
<1>3. IsPlace(e) /\ e.pc = "await" /\ e.cmd.name = "226"
  BY <1>2, ExpectsForm
<1> HIDE DEF e
<1>4. IsPlace(r) /\ r.pc = "await" /\ r.cmd.name = "226"
  BY <1>3 DEF IsPlace
<1> HIDE DEF r
<1>5. th[t].cmd.name # "STOR"
  BY <1>1, <1>2 DEF InStep, Between, ToSend, ToDial, Asking, AskingTransfer, Moving, Ending
<1> QED
  BY <1>1, <1>2, <1>4, <1>5, AwaitEnd DEF Ends

LEMMA FillDataStep ==
    ASSUME Own, AllInStep, NEW t \in Threads, FillData(t)
    PROVE  AllInStep'
<1> DEFINE l == Link(t)
           r == Expects(th[t], "226")
<1>1. PICK d : Continues(t, r, IF MyChan(t).state # "connected" THEN l
                               ELSE [l EXCEPT !.chan[th[t].port] = Chan("sent", d)])
  BY DEF FillData
<1> DEFINE s == [l EXCEPT !.chan[th[t].port] = Chan("sent", d)]
           m == IF MyChan(t).state # "connected" THEN l ELSE s
<1>2. IsPlace(th[t]) /\ IsLink(l) /\ InStep(th[t], l) /\ th[t].pc = "fill"
  BY PlaceOfThread DEF FillData
<1>3. IsPlace(r) /\ r.pc = "await" /\ r.cmd.name = "226"
  BY <1>2, ExpectsForm
<1>4. /\ IsLink(s) /\ s.sock = l.sock /\ s.inbox = l.inbox /\ s.wire = l.wire
      /\ s.buffer = l.buffer /\ s.transfer = l.transfer
      /\ th[t].port \in Ports => s.chan[th[t].port] = Chan("sent", d)
  BY <1>2 DEF IsLink
<1> HIDE DEF s, r
<1>5. /\ IsLink(m) /\ m.sock = l.sock /\ m.inbox = l.inbox /\ m.wire = l.wire
      /\ m.buffer = l.buffer /\ m.transfer = l.transfer
  BY <1>2, <1>4
<1>6. th[t].port \in Ports => m.chan[th[t].port].state # "connected"
  BY <1>4 DEF MyChan, Chan
<1> HIDE DEF m
<1>7. Running(th[t], l) => th[t].port \in Ports
  BY DEF Running
<1>8. Continues(t, r, m)
  BY <1>1 DEF m, s
<1> QED
  BY <1>2, <1>3, <1>5, <1>6, <1>7, <1>8, AwaitEnd DEF Ends

LEMMA DataFailsStep ==
    ASSUME Own, AllInStep, NEW t \in Threads, DataFails(t)
    PROVE  AllInStep'
<1> DEFINE l == Link(t)
           m == CloseData(l, th[t].port)
           r == Expects(th[t], "226, failing")
<1>1. Continues(t, r, m) /\ th[t].pc \in {"data", "fill"}
  BY DEF DataFails
<1>2. IsPlace(th[t]) /\ IsLink(l)
  BY PlaceOfThread
<1>3. IsPlace(r) /\ r.pc = "await" /\ r.cmd.name = "226, failing"
  BY <1>2, ExpectsForm
<1>4. /\ IsLink(m) /\ m.sock = l.sock /\ m.inbox = l.inbox /\ m.wire = l.wire
      /\ m.buffer = l.buffer /\ m.transfer = l.transfer
      /\ th[t].port \in Ports /\ th[t].port # None => m.chan[th[t].port].state # "connected"
  BY <1>2, CloseDataForm
<1> HIDE DEF r, m
<1>5. Running(th[t], l) => th[t].port \in Ports /\ th[t].port # None
  BY DEF Running
<1> QED
  BY <1>1, <1>3, <1>4, <1>5, AwaitEnd DEF Ends

LEMMA DoneReplyStep ==
    ASSUME Own, AllInStep, NEW t \in Threads, TakeDone(t)
    PROVE  AllInStep'
<1> DEFINE l == Taken(t)
           u == [th[t] EXCEPT !.rest = Tail(@), !.port = None]
           r == Sends(u, "PASV", None)
           m == CloseData(l, th[t].port)
<1>1. IsPlace(th[t]) /\ IsLink(l) /\ AtRest(l)
  <2>1. {"226"} \cap Transfers = {}
    BY DEF Transfers
  <2> QED
    BY <2>1, PlainTakeForm DEF TakeDone
<1>2. IsPlace(u)
  BY <1>1 DEF IsPlace
<1> HIDE DEF u
<1>3. IsPlace(r) /\ r.pc = "send" /\ r.cmd.name = "PASV"
  BY <1>2, SendsForm
<1>4. Plain("PASV")
  BY DEF Plain, Transfers, Logins, Ends
<1>5. IsLink(m) /\ AtRest(m)
  BY <1>1, CloseDataForm DEF AtRest, Silent, NoWork
<1> HIDE DEF l
<1>6. (\E o : Finish(t, o, l)) \/ Continues(t, r, m)
  <2>1. Fails(t, l) => \E o : Finish(t, o, l)
    BY DEF Fails
  <2>2. Descend(t) => (\E o : Finish(t, o, l)) \/ Continues(t, r, m)
    BY DEF Descend, Yielded, l, u
  <2> QED
    BY <2>1, <2>2 DEF TakeDone, l
<1> HIDE DEF r, m
<1> QED
  BY <1>1, <1>3, <1>4, <1>5, <1>6, FinishKeepsStep, GoesOnKeepsStep

\* While no reply is late, no timeout is what ends a wait, but for a client
\* that waits for data and has the reply already, or whose greeting is lost.
LEMMA LateStep ==
    ASSUME Own, AllInStep, timeouts = 0, timeouts' = 0, NEW t \in Threads,
           Late(t) \/ Cancel(t)
    PROVE  AllInStep'
<1>1. ~ Cancel(t)
  BY DEF Cancel
<1>2. ASSUME Timeout(t) PROVE Quiet(Uses[t]) /\ ~ (timeouts < MaxTimeouts)
  BY <1>2 DEF Timeout
<1>3. CASE RecvTimesOut(t)
  <2>1. Breaks(t) /\ Quiet(Uses[t]) /\ th[t].pc = "await" /\ Link(t).buffer = <<>>
    BY <1>2, <1>3 DEF RecvTimesOut, Reads
  <2>2. AtRest(Link(t))
    BY <2>1, NoWait DEF Lost
  <2> QED
    BY <2>1, <2>2, BreaksKeepsStep
<1>4. CASE DataTimesOut(t)
  <2> DEFINE l == Link(t)
             r == Expects(th[t], "226, failing")
  <2>1. Quiet(Uses[t]) /\ th[t].pc = "data" /\ Continues(t, r, l)
    BY <1>2, <1>4 DEF DataTimesOut
  <2>2. IsPlace(th[t]) /\ IsLink(l) /\ InStep(th[t], l)
    BY PlaceOfThread
  <2>3. th[t].cmd.name # "STOR"
    BY <2>1, <2>2 DEF InStep, Between, ToSend, ToDial, Asking, AskingTransfer, Moving, Ending
  <2>4. IsPlace(r) /\ r.pc = "await" /\ r.cmd.name = "226, failing"
    BY <2>2, ExpectsForm
  <2> HIDE DEF r
  <2> QED
    BY <2>1, <2>2, <2>3, <2>4, AwaitEnd DEF Ends
<1> QED
  BY <1>1, <1>3, <1>4 DEF Late

LEMMA ClientStep ==
    ASSUME Own, AllInStep, AllTrail, NEW t \in Threads, Client(t) \/ Unlucky(t)
    PROVE  AllInStep'
BY CloseNothingStep, ConnectStep, ConnectFailsStep, SendStep, RecvStep, RecvRestStep,
   RecvJoinsStep, RecvEndsStep, FarewellStep, LoginStep, QuitReplyStep, FeatReplyStep, MkdReplyStep, DeleReplyStep, ProbeReplyStep, PasvReplyStep,
   DialStep, TransferReplyStep, ReadDataStep, FillDataStep, DataFailsStep, DoneReplyStep
DEF Client, Unlucky

-----------------------------------------------------------------------------
(* What a server says unasked stays the last of its connection, and, until  *)
(* a fault occurs, it says nothing.                                        *)

LEMMA OneTrails ==
    ASSUME Own, AllInStep, AllTrail, faults' = 0 => faults = 0, NEW t \in Threads, NEW r, NEW m,
           th' = [th EXCEPT ![t] = r], link' = [link EXCEPT ![Uses[t]] = m],
           Trails(r, m), Lost(r, m) /\ m.sock = "open" => faults # 0,
           faults = 0 => Trailless(m)
    PROVE  AllTrail'
<1>1. Uses[t] \in Blobs /\ \A u \in Threads : Uses[u] \in Blobs
  BY UsesAssumption
<1>2. th'[t] = r /\ link'[Uses[t]] = m
  BY <1>1 DEF AllInStep
<1>3. \A u \in Threads \ {t} : th'[u] = th[u] /\ link'[Uses[u]] = Link(u)
  BY <1>1 DEF AllInStep, Own, Link
<1>4. \A b \in Blobs \ {Uses[t]} : link'[b] = link[b]
  BY DEF AllInStep
<1>5. ASSUME NEW u \in Threads
      PROVE  /\ Trails(th'[u], link'[Uses[u]])
             /\ Lost(th'[u], link'[Uses[u]]) /\ link'[Uses[u]].sock = "open" => faults' # 0
  BY <1>2, <1>3, <1>5 DEF AllTrail
<1>6. faults' = 0 => \A b \in Blobs : Trailless(link'[b])
  BY <1>1, <1>2, <1>4 DEF AllTrail
<1> QED
  BY <1>5, <1>6 DEF AllTrail, Link

\* Link m is that of t as far as this goes, or t has hung up.
Near(t, m) ==
    m.sock = Link(t).sock /\ m.wire = Link(t).wire /\ m.bye = Link(t).bye /\ m.left = Link(t).left

NearReply(t, m) ==
    Near(t, m) /\ (th[t].pc # "await" \/ Link(t).buffer # <<>> \/ Link(t).wire = <<>>)

Over(m) == m.bye = None /\ m.left = None

HungUp(t, m) ==
    m.sock # "open" /\ m.wire = <<>> /\ m.bye = None /\ m.left \in {None, Link(t).left}

LEMMA NearTrails ==
    ASSUME Own, AllInStep, AllTrail, faults' = 0 => faults = 0, NEW t \in Threads, NEW r, NEW m,
           th' = [th EXCEPT ![t] = r], link' = [link EXCEPT ![Uses[t]] = m],
           NearReply(t, m) \/ HungUp(t, m) \/ Over(m), ~ (r.pc = "await" /\ r.cmd.name = "220")
    PROVE  AllTrail'
<1>1. Trails(th[t], Link(t)) /\ (faults = 0 => Trailless(Link(t)))
  BY UsesAssumption DEF AllTrail, Link
<1>2. Trails(r, m) /\ (faults = 0 => Trailless(m))
  BY <1>1 DEF Trails, Trailless, Near, NearReply, HungUp, Over
<1>3. ~ Lost(r, m)
  BY DEF Lost
<1> QED
  BY <1>2, <1>3, OneTrails

LEMMA ContinuesTrails ==
    ASSUME Own, AllInStep, AllTrail, faults' = 0 => faults = 0, NEW t \in Threads, NEW r, NEW l,
           Continues(t, r, l), NearReply(t, l) \/ HungUp(t, l) \/ Over(l),
           ~ (r.pc = "await" /\ r.cmd.name = "220")
    PROVE  AllTrail'
BY NearTrails DEF Continues

LEMMA FinishTrails ==
    ASSUME Own, AllInStep, AllTrail, faults' = 0 => faults = 0, NEW t \in Threads, NEW o, NEW l,
           Finish(t, o, l), IsLink(l), NearReply(t, l) \/ HungUp(t, l) \/ Over(l)
    PROVE  AllTrail'
<1> DEFINE r == [Outside EXCEPT !.pc = "done"]
           m == CloseData(l, th[t].port)
<1>1. th' = [th EXCEPT ![t] = r] /\ link' = [link EXCEPT ![Uses[t]] = m]
  BY DEF Finish
<1>2. m.sock = l.sock /\ m.wire = l.wire /\ m.bye = l.bye /\ m.left = l.left
  BY CloseDataForm
<1>3. r.pc = "done"
  BY OutsideForm
<1> HIDE DEF r, m
<1>4. NearReply(t, m) \/ HungUp(t, m) \/ Over(m)
  BY <1>2 DEF Near, NearReply, HungUp, Over
<1> QED
  BY <1>1, <1>3, <1>4, NearTrails

\* The end of a call, which hangs up or does not.
LEMMA EndTrails ==
    ASSUME Own, AllInStep, AllTrail, faults' = 0 => faults = 0, NEW t \in Threads, NEW o, NEW l,
           Finish(t, o, l) \/ Finish(t, o, HangUp(l)), IsLink(l), NearReply(t, l)
    PROVE  AllTrail'
<1>1. IsLink(HangUp(l)) /\ HungUp(t, HangUp(l))
  BY HangUpForm DEF HungUp, Near, NearReply
<1> QED
  BY <1>1, FinishTrails

LEMMA NearForms ==
    ASSUME AllInStep, NEW t \in Threads
    PROVE  /\ IsLink(Link(t)) /\ Near(t, Link(t))
           /\ IsLink(Taken(t)) /\ Near(t, Taken(t))
           /\ \A f : Near(t, [Taken(t) EXCEPT !.features = f])
           /\ \A p, c : Near(t, [Link(t) EXCEPT !.chan[p] = c])
           /\ \A p : Near(t, CloseData(Link(t), p)) /\ Near(t, CloseData(Taken(t), p))
<1>1. IsLink(Link(t)) /\ Near(t, Link(t))
  BY PlaceOfThread DEF Near
<1>2. IsLink(Taken(t)) /\ Near(t, Taken(t))
  BY <1>1 DEF Taken, Near, IsLink
<1>3. \A f : Near(t, [Taken(t) EXCEPT !.features = f])
  BY <1>2 DEF Near, IsLink
<1>4. \A p, c : Near(t, [Link(t) EXCEPT !.chan[p] = c])
  BY <1>1 DEF Near, IsLink
<1>5. \A p : Near(t, CloseData(Link(t), p)) /\ Near(t, CloseData(Taken(t), p))
  BY <1>1, <1>2, CloseDataForm DEF Near
<1> QED
  BY <1>1, <1>2, <1>3, <1>4, <1>5

\* Steps of a client that takes a reply, or awaits none.
LEMMA TakeTrails ==
    ASSUME Own, AllInStep, AllTrail, faults' = 0 => faults = 0, NEW t \in Threads,
           \/ TakeLogin(t) \/ TakeQuit(t) \/ TakeFeat(t) \/ TakeMkd(t) \/ TakeDele(t)
           \/ TakeProbe(t) \/ TakePasv(t) \/ TakeTransfer(t) \/ TakeDone(t) \/ TakeFailing(t)
    PROVE  AllTrail'
<1> DEFINE l == Taken(t)
           Going(r) == r.pc # "await"
<1>1. Link(t).buffer # <<>>
  BY DEF TakeLogin, TakeQuit, TakeFeat, TakeMkd, TakeDele, TakeProbe, TakePasv, TakeTransfer,
         TakeDone, TakeFailing, Awaits
<1>2. IsPlace(th[t]) /\ IsLink(l) /\ NearReply(t, l)
  BY <1>1, PlaceOfThread, NearForms DEF NearReply
<1>3. ASSUME NEW o, Finish(t, o, l) \/ Finish(t, o, HangUp(l)) PROVE AllTrail'
  BY <1>2, <1>3, EndTrails
<1>4. ASSUME Fails(t, l) \/ Fails(t, HangUp(l)) PROVE AllTrail'
  BY <1>3, <1>4 DEF Fails
<1>5. ASSUME NEW r, NEW m, Continues(t, r, m), r.pc # "await", Near(t, m) PROVE AllTrail'
  BY <1>1, <1>5, ContinuesTrails DEF NearReply
<1>6. \A name, arg : Sends(th[t], name, arg).pc = "send"
  BY <1>2, SendsForm
<1>7. CASE TakeLogin(t)
  <2> DEFINE r == [th[t] EXCEPT !.pc = "send", !.cmd = th[t].resume, !.resume = None]
             next == LoginNext(th[t].cmd.name, Code(t))
  <2>1. r.pc = "send"
    BY <1>2 DEF IsPlace
  <2> HIDE DEF r, next
  <2>2. \/ Fails(t, HangUp(l))
        \/ Continues(t, r, l)
        \/ Continues(t, Sends(th[t], next, None), l)
    BY <1>7 DEF TakeLogin, r, next
  <2> QED
    BY <1>2, <1>4, <1>5, <1>6, <2>1, <2>2 DEF NearReply
<1>8. CASE TakeQuit(t)
  BY <1>3, <1>8 DEF TakeQuit
<1>9. CASE TakeFeat(t)
  <2> DEFINE f == IF Code(t) = 211 THEN Info(t) ELSE {}
  <2>1. Continues(t, Probe(th[t], call[t], f), [l EXCEPT !.features = f])
    BY <1>9 DEF TakeFeat
  <2> HIDE DEF f
  <2>2. Probe(th[t], call[t], f).pc = "send"
    BY <1>2, ProbeForm
  <2> QED
    BY <1>5, <2>1, <2>2, NearForms
<1>10. CASE TakeMkd(t)
  <2>1. Continues(t, MakeParents(th[t], Tail(th[t].rest)), l) \/ Fails(t, l)
    BY <1>10 DEF TakeMkd
  <2>2. MakeParents(th[t], Tail(th[t].rest)).pc = "send"
    BY <1>2, MakeParentsForm
  <2> QED
    BY <1>2, <1>4, <1>5, <2>1, <2>2 DEF NearReply
<1>11. CASE TakeDele(t) \/ TakeFailing(t)
  <2>1. \E o : Finish(t, o, l)
    BY <1>11 DEF TakeDele, TakeFailing, Fails
  <2> QED
    BY <1>3, <2>1
<1>12. CASE TakeProbe(t)
  <2>1. \/ \E o : Finish(t, o, l)
        \/ \E f : Continues(t, Probe(th[t], call[t], f), l)
    BY <1>12 DEF TakeProbe
  <2>2. \A f : Probe(th[t], call[t], f).pc = "send"
    BY <1>2, ProbeForm
  <2> QED
    BY <1>2, <1>3, <1>5, <2>1, <2>2 DEF NearReply
<1>13. CASE TakePasv(t)
  <2> DEFINE r == [th[t] EXCEPT !.pc = "dial", !.port = Info(t).port]
  <2>1. Continues(t, r, l) \/ Fails(t, l)
    BY <1>13 DEF TakePasv
  <2>2. r.pc = "dial"
    BY <1>2 DEF IsPlace
  <2> HIDE DEF r
  <2> QED
    BY <1>2, <1>4, <1>5, <2>1, <2>2 DEF NearReply
<1>14. CASE TakeTransfer(t)
  <2> DEFINE r == [th[t] EXCEPT !.pc = IF th[t].cmd.name = "STOR" THEN "fill" ELSE "data"]
  <2>1. Continues(t, r, l) \/ \E o : Finish(t, o, l)
    BY <1>14 DEF TakeTransfer, Yielded, Fails
  <2>2. r.pc # "await"
    BY <1>2 DEF IsPlace
  <2> HIDE DEF r
  <2> QED
    BY <1>2, <1>3, <1>5, <2>1, <2>2 DEF NearReply
<1>15. CASE TakeDone(t)
  <2> DEFINE u == [th[t] EXCEPT !.rest = Tail(@), !.port = None]
             r == Sends(u, "PASV", None)
             m == CloseData(l, th[t].port)
  <2>1. IsPlace(u)
    BY <1>2 DEF IsPlace
  <2> HIDE DEF u
  <2>2. r.pc = "send"
    BY <2>1, SendsForm
  <2>3. (\E o : Finish(t, o, l)) \/ Continues(t, r, m)
    <3>1. Fails(t, l) => \E o : Finish(t, o, l)
      BY DEF Fails
    <3>2. Descend(t) => (\E o : Finish(t, o, l)) \/ Continues(t, r, m)
      BY DEF Descend, Yielded, u
    <3> QED
      BY <1>15, <3>1, <3>2 DEF TakeDone
  <2> HIDE DEF r
  <2> QED
    BY <1>3, <1>5, <2>2, <2>3, NearForms
<1> QED
  BY <1>7, <1>8, <1>9, <1>10, <1>11, <1>12, <1>13, <1>14, <1>15

LEMMA OtherTrails ==
    ASSUME Own, AllInStep, AllTrail, faults' = 0 => faults = 0, NEW t \in Threads,
           \/ CloseNothing(t) \/ OpenDone(t) \/ ConnectFails(t) \/ Send(t) \/ SendFails(t)
           \/ RecvEnds(t) \/ Dial(t) \/ DialRefused(t) \/ DialFails(t) \/ ReadData(t)
           \/ FillData(t) \/ DataFails(t) \/ DataTimesOut(t)
    PROVE  AllTrail'
<1> DEFINE l == Link(t)
<1>1. th[t].pc # "await" \/ l.wire = <<>>
  BY DEF CloseNothing, OpenDone, ConnectFails, Connecting, Send, SendFails, Sending, Ready, RecvEnds,
         Dial, DialRefused, DialFails, ReadData, FillData, DataFails, DataTimesOut
<1>2. IsPlace(th[t]) /\ InStep(th[t], l) /\ IsLink(l) /\ NearReply(t, l)
  BY <1>1, PlaceOfThread, NearForms DEF NearReply
<1>3. ASSUME NEW o, Finish(t, o, l) \/ Finish(t, o, HangUp(l)) PROVE AllTrail'
  BY <1>2, <1>3, EndTrails
<1>4. ASSUME NEW r, NEW m, Continues(t, r, m), ~ (r.pc = "await" /\ r.cmd.name = "220"), Near(t, m)
      PROVE  AllTrail'
  BY <1>1, <1>4, ContinuesTrails DEF NearReply
<1>5. CASE \/ CloseNothing(t) \/ OpenDone(t) \/ ConnectFails(t) \/ SendFails(t) \/ RecvEnds(t)
           \/ DialRefused(t) \/ DialFails(t)
  <2>1. \E o : Finish(t, o, l) \/ Finish(t, o, HangUp(l))
    BY <1>5 DEF CloseNothing, OpenDone, ConnectFails, SendFails, RecvEnds, DialRefused, DialFails,
                Breaks, Fails
  <2> QED
    BY <1>3, <2>1
<1>6. CASE Send(t)
  <2> DEFINE r == [th[t] EXCEPT !.pc = "await"]
             m == IF l.sock = "open" THEN [l EXCEPT !.inbox = Append(@, th[t].cmd)] ELSE l
  <2>1. Continues(t, r, m) /\ th[t].pc = "send"
    BY <1>6 DEF Send, Sending, Ready
  <2>2. r.cmd.name # "220"
    BY <1>2, <2>1 DEF IsPlace, InStep, Between, ToSend, ToDial, Asking, AskingTransfer, Moving, Ending
  <2>3. Near(t, m)
    BY <1>2 DEF IsLink, Near
  <2> HIDE DEF r, m
  <2> QED
    BY <1>4, <2>1, <2>2, <2>3
<1>7. CASE Dial(t)
  <2>1. PICK r : /\ r \in {Sends(th[t], "STOR", call[t].key), Sends(th[t], "RETR", call[t].key),
                           Sends(th[t], "LIST", Path(t))}
                 /\ Continues(t, r, [l EXCEPT !.chan[th[t].port] = Chan("connected", None)])
    BY <1>7 DEF Dial
  <2>2. r.pc = "send"
    BY <1>2, <2>1, SendsForm
  <2> QED
    BY <1>4, <2>1, <2>2, NearForms
<1>8. CASE ReadData(t)
  <2> DEFINE e == Expects(th[t], "226")
             d == IF MyChan(t).state = "received" THEN MyChan(t).data ELSE Torn
  <2>1. Continues(t, [e EXCEPT !.data = d], l)
    BY <1>8 DEF ReadData
  <2>2. IsPlace(e) /\ e.cmd.name = "226"
    BY <1>2, ExpectsForm
  <2> HIDE DEF e, d
  <2>3. [e EXCEPT !.data = d].cmd.name # "220"
    BY <2>2 DEF IsPlace
  <2> QED
    BY <1>2, <1>4, <2>1, <2>3 DEF NearReply
<1>9. CASE FillData(t) \/ DataFails(t) \/ DataTimesOut(t)
  <2>1. PICK name, m : name \in Ends /\ Continues(t, Expects(th[t], name), m) /\ Near(t, m)
    <3>1. CASE FillData(t)
      <4>1. PICK d : Continues(t, Expects(th[t], "226"),
                               IF MyChan(t).state # "connected" THEN l
                               ELSE [l EXCEPT !.chan[th[t].port] = Chan("sent", d)])
        BY <3>1 DEF FillData
      <4> QED
        BY <4>1, NearForms DEF Ends
    <3>2. CASE DataFails(t)
      BY <3>2, NearForms DEF DataFails, Ends
    <3>3. CASE DataTimesOut(t)
      BY <3>3, NearForms DEF DataTimesOut, Ends
    <3> QED
      BY <1>9, <3>1, <3>2, <3>3
  <2>2. Expects(th[t], name).cmd.name = name /\ name # "220"
    BY <1>2, <2>1, ExpectsForm DEF Ends
  <2> QED
    BY <1>4, <2>1, <2>2
<1> QED
  BY <1>5, <1>6, <1>7, <1>8, <1>9

\* The greeting follows what is left.
LEMMA ConnectTrails ==
    ASSUME Own, AllInStep, AllTrail, faults' = 0 => faults = 0, NEW t \in Threads, Connect(t)
    PROVE  AllTrail'
<1> DEFINE u == [th[t] EXCEPT !.resume = Wanted(t)]
           r == Expects(u, "220")
           h == HangUp(Link(t))
           q == Reply(220, None)
           m == [h EXCEPT !.sock = "open", !.wire = <<q>>]
<1>1. Continues(t, r, m) /\ AtRest(Link(t)) /\ IsPlace(th[t])
  BY PlaceOfThread DEF Connect, Connecting
<1>2. IsPlace(u)
  BY <1>1 DEF IsPlace
<1> HIDE DEF u
<1>3. r.pc = "await" /\ r.cmd.name = "220"
  BY <1>2, ExpectsForm
<1>4. IsLink(h) /\ h.buffer = <<>> /\ h.bye = None /\ h.left = Link(t).left
  BY <1>1, HangUpForm DEF AtRest, Silent
<1> HIDE DEF r, h, q
<1>5. m.bye = None /\ m.left = Link(t).left /\ m.buffer = <<>> /\ m.wire = <<q>> /\ <<q>> # <<>>
  BY <1>4, SequencesOfOne DEF IsLink
<1> HIDE DEF m
<1>6. Trails(r, m)
  BY <1>3, <1>5 DEF Trails
<1>7. ~ Lost(r, m)
  BY <1>5 DEF Lost, AtRest, Silent
<1>8. faults = 0 => Trailless(m)
  BY <1>5, UsesAssumption DEF AllTrail, Trailless, Link
<1> QED
  BY <1>1, <1>6, <1>7, <1>8, OneTrails DEF Continues

LEMMA RecvTrails ==
    ASSUME Own, AllInStep, AllTrail, faults' = 0 => faults = 0, NEW t \in Threads,
           Recv(t) \/ RecvRest(t) \/ RecvJoins(t)
    PROVE  AllTrail'
<1> DEFINE l == Link(t)
           r == th[t]
<1>1. IsLink(l) /\ Trails(r, l) /\ (faults = 0 => Trailless(l))
  BY PlaceOfThread, UsesAssumption DEF AllTrail, Link
<1>2. CASE Recv(t)
  <2>1. PICK n \in 1 .. Len(l.wire), rest \in {None, l.bye} :
          /\ rest # None => n = Len(l.wire)
          /\ Continues(t, r, [l EXCEPT
                !.buffer = SubSeq(l.wire, 1, n),
                !.wire = SubSeq(l.wire, n + 1, Len(l.wire)),
                !.left = rest,
                !.bye = IF rest = None THEN @ ELSE None])
    BY <1>2 DEF Recv
  <2> DEFINE m == [l EXCEPT
                !.buffer = SubSeq(l.wire, 1, n),
                !.wire = SubSeq(l.wire, n + 1, Len(l.wire)),
                !.left = rest,
                !.bye = IF rest = None THEN @ ELSE None]
  <2>2. /\ m.sock = l.sock /\ m.left = rest /\ (m.bye = l.bye \/ m.bye = None)
        /\ m.buffer = SubSeq(l.wire, 1, n) /\ m.wire = SubSeq(l.wire, n + 1, Len(l.wire))
    BY <1>1 DEF IsLink
  <2>3. Continues(t, r, m)
    BY <2>1
  <2>4. rest # None => m.wire = <<>>
    <3>1. \A s : SubSeq(s, Len(l.wire) + 1, Len(l.wire)) = <<>>
      BY <2>1, SubSeqEmpty
    <3> QED
      BY <2>1, <2>2, <3>1
  <2>5. m.buffer # <<>>
    BY <2>1, <2>2
  <2> HIDE DEF m
  <2>6. Trails(r, m) /\ ~ Lost(r, m) /\ (faults = 0 => Trailless(m))
    BY <1>1, <2>1, <2>2, <2>4, <2>5 DEF Trails, Trailless, Lost, AtRest, Silent
  <2> QED
    BY <2>3, <2>6, OneTrails DEF Continues
<1>3. CASE RecvRest(t)
  <2> DEFINE m == [l EXCEPT !.left = l.bye, !.bye = None]
  <2>1. Continues(t, r, m) /\ l.bye # None /\ l.wire = <<>>
    BY <1>3 DEF RecvRest
  <2>2. m.sock = l.sock /\ m.wire = l.wire /\ m.left = l.bye /\ m.bye = None
    BY <1>1 DEF IsLink
  <2> HIDE DEF m
  <2>3. Trails(r, m) /\ m.sock # "open" /\ faults # 0
    BY <1>1, <2>1, <2>2 DEF Trails, Trailless
  <2> QED
    BY <2>1, <2>3, OneTrails DEF Continues
<1>4. CASE RecvJoins(t)
  <2>1. PICK read : Continues(t, r, [l EXCEPT !.buffer = read, !.wire = Tail(@), !.left = None])
    BY <1>4 DEF RecvJoins
  <2> DEFINE m == [l EXCEPT !.buffer = read, !.wire = Tail(@), !.left = None]
  <2>2. m.sock = l.sock /\ m.left = None /\ m.bye = l.bye
    BY <1>1 DEF IsLink
  <2>3. Continues(t, r, m)
    BY <2>1
  <2> HIDE DEF m
  <2>4. Trails(r, m) /\ (faults = 0 => Trailless(m))
    BY <1>1, <2>2 DEF Trails, Trailless
  <2>5. faults # 0
    BY <1>1, <1>4, ValuesAssumption DEF RecvJoins, Trailless
  <2> QED
    BY <2>3, <2>4, <2>5, OneTrails DEF Continues
<1> QED
  BY <1>2, <1>3, <1>4

LEMMA FarewellTrails ==
    ASSUME Own, AllInStep, AllTrail, faults' = 0 => faults = 0, NEW t \in Threads, TakeFarewell(t)
    PROVE  AllTrail'
<1> DEFINE l == [Link(t) EXCEPT !.left = None]
           k == [l EXCEPT !.features = {}]
<1>1. /\ IsLink(l) /\ l.sock = Link(t).sock /\ l.bye = Link(t).bye /\ l.left = None
      /\ \/ Finish(t, Store!Done, HangUp(l)) \/ Fails(t, HangUp(l))
         \/ l.sock # "open" /\ l.wire = <<>> /\ (Finish(t, Store!Done, l) \/ Fails(t, l))
         \/ l.sock # "open" /\ l.wire = <<>> /\ Continues(t, Probe(th[t], call[t], {}), k)
         \/ /\ l.sock # "open" /\ l.wire = <<>>
            /\ \E features : Continues(t, Probe(th[t], call[t], features), l)
  BY FarewellForm
<1>2. IsPlace(th[t]) /\ Trails(th[t], Link(t)) /\ (faults = 0 => Trailless(Link(t)))
  BY PlaceOfThread, UsesAssumption DEF AllTrail, Link
<1> HIDE DEF l
<1>3. IsLink(k) /\ k.sock = l.sock /\ k.bye = l.bye /\ k.left = None
  BY <1>1 DEF IsLink
<1>4. IsLink(HangUp(l)) /\ Over(HangUp(l))
  BY <1>1, HangUpForm DEF Over
<1> HIDE DEF k
<1>5. CASE Finish(t, Store!Done, HangUp(l)) \/ Fails(t, HangUp(l))
  BY <1>4, <1>5, FinishTrails DEF Fails
<1>6. ASSUME NEW m, IsLink(m), m.sock = Link(t).sock, m.bye = Link(t).bye, m.left = None, NEW r,
             r.pc # "await", th' = [th EXCEPT ![t] = r], link' = [link EXCEPT ![Uses[t]] = m]
      PROVE  AllTrail'
  <2>1. Trails(r, m) /\ ~ Lost(r, m) /\ (faults = 0 => Trailless(m))
    BY <1>2, <1>6 DEF Trails, Trailless, Lost
  <2> QED
    BY <1>6, <2>1, OneTrails
<1>7. CASE Finish(t, Store!Done, l) \/ Fails(t, l)
  <2> DEFINE r == [Outside EXCEPT !.pc = "done"]
             m == CloseData(l, th[t].port)
  <2>1. th' = [th EXCEPT ![t] = r] /\ link' = [link EXCEPT ![Uses[t]] = m] /\ r.pc = "done"
    BY <1>7, OutsideForm DEF Fails, Finish
  <2>2. IsLink(m) /\ m.sock = l.sock /\ m.bye = l.bye /\ m.left = l.left
    BY <1>1, CloseDataForm
  <2> HIDE DEF r, m
  <2> QED
    BY <1>1, <1>6, <2>1, <2>2
<1>8. \A features : Probe(th[t], call[t], features).pc = "send"
  BY <1>2, ProbeForm
<1>9. CASE Continues(t, Probe(th[t], call[t], {}), k)
  BY <1>1, <1>3, <1>6, <1>8, <1>9 DEF Continues
<1>10. CASE \E features : Continues(t, Probe(th[t], call[t], features), l)
  BY <1>1, <1>6, <1>8, <1>10 DEF Continues
<1> QED
  BY <1>1, <1>5, <1>7, <1>9, <1>10

\* While no reply is late, a client gives up on a reply only if the greeting
\* is lost: nothing is left then.
LEMMA LateTrails ==
    ASSUME Own, AllInStep, AllTrail, faults' = 0 => faults = 0, timeouts = 0, timeouts' = 0,
           NEW t \in Threads, Late(t) \/ Cancel(t)
    PROVE  AllTrail'
<1>1. ~ Cancel(t)
  BY DEF Cancel
<1>2. CASE RecvTimesOut(t)
  <2>1. Breaks(t) /\ Quiet(Uses[t]) /\ Link(t).wire = <<>>
    BY <1>2 DEF RecvTimesOut, Timeout, Quiet, Link
  <2>2. IsLink(Link(t)) /\ NearReply(t, Link(t))
    BY <2>1, NearForms DEF NearReply
  <2> QED
    BY <2>1, <2>2, EndTrails DEF Breaks, Fails
<1> QED
  BY <1>1, <1>2, OtherTrails DEF Late

LEMMA ClientTrails ==
    ASSUME Own, AllInStep, AllTrail, faults' = 0 => faults = 0,
           NEW t \in Threads, Client(t) \/ Unlucky(t)
    PROVE  AllTrail'
BY TakeTrails, OtherTrails, ConnectTrails, RecvTrails, FarewellTrails DEF Client, Unlucky

LEMMA InvokeTrails ==
    ASSUME Own, AllInStep, AllTrail, faults' = 0 => faults = 0,
           NEW t \in Threads, Invoke(t) \/ Return(t)
    PROVE  AllTrail'
<1>1. PICK r : th' = [th EXCEPT ![t] = r] /\ r.pc # "await" /\ UNCHANGED link
  <2>1. CASE Invoke(t)
    <3>1. PICK q : th' = [th EXCEPT ![t] = Starts(q, Link(t))]
      BY <2>1 DEF Invoke
    <3> QED
      BY <2>1, <3>1, StartsForm DEF Invoke
  <2>2. CASE Return(t)
    BY <2>2, OutsideForm DEF Return
  <2> QED
    BY <2>1, <2>2
<1>2. th[t].pc # "await"
  BY DEF Invoke, Return
<1>3. link' = [link EXCEPT ![Uses[t]] = Link(t)]
  BY <1>1, UsesAssumption DEF AllInStep, Link
<1>4. NearReply(t, Link(t))
  BY <1>2 DEF NearReply, Near
<1> QED
  BY <1>1, <1>3, <1>4, NearTrails

\* A server that answers has a client that awaits no greeting, or has not
\* read it.
LEMMA ServerTrails ==
    ASSUME Own, AllInStep, AllTrail, faults' = 0 => faults = 0, NEW b \in Blobs, NEW m, NEW q,
           UNCHANGED th, link' = [link EXCEPT ![b] = m],
           Pending(b) \/ link[b].transfer # None,
           m.wire = Append(link[b].wire, q), m.bye = link[b].bye, m.left = link[b].left
    PROVE  AllTrail'
<1>1. PICK t \in Threads : Uses[t] = b
  BY DEF AllInStep, Unused, AtRest, NoWork, Pending
<1> DEFINE r == th[t]
           l == link[b]
<1>2. IsLink(l) /\ InStep(r, l) /\ Trails(r, l) /\ (faults = 0 => Trailless(l))
  BY <1>1 DEF AllInStep, AllTrail, Link
<1>3. /\ l.sock = "open"
      /\ r.pc = "await" /\ r.cmd.name = "220" => l.wire = <<>> /\ l.transfer = None
  <2>1. CASE Pending(b)
    <3>1. Asked(r, l)
      BY <1>2, <2>1, PendingIsAsked DEF Pending
    <3> QED
      BY <2>1, <3>1 DEF Pending, Asked, Silent
  <2>2. CASE l.transfer # None
    <3>1. \/ AskingTransfer(r, l) /\ Running(r, l)
          \/ Moving(r, l) /\ Running(r, l)
          \/ Ending(r, l) /\ Finishing(l)
      BY <1>2, <2>2 DEF InStep, Between, ToSend, ToDial, Asking, Lost, AskingTransfer, Moving, Ending,
                        Asked, AtRest, Gone, NoWork
    <3> QED
      BY <3>1 DEF AskingTransfer, Moving, Ending, Running, Finishing, Transfers, Ends
  <2> QED
    BY <2>1, <2>2
<1>4. l.bye = None /\ l.left = None
  BY <1>2, <1>3 DEF Trails
<1>5. r.pc = "await" /\ r.cmd.name = "220" => m.wire # <<>>
  BY <1>3, SequencesOfOne
<1>6. Trails(r, m) /\ ~ Lost(r, m) /\ (faults = 0 => Trailless(m))
  BY <1>4, <1>5 DEF Trails, Trailless, Lost, AtRest, Silent
<1>7. th' = [th EXCEPT ![t] = r]
  BY DEF AllInStep
<1> QED
  BY <1>1, <1>6, <1>7, OneTrails

LEMMA AnswersTrail ==
    ASSUME Own, AllInStep, AllTrail, faults' = 0 => faults = 0, NEW b \in Blobs, Pending(b),
           UNCHANGED th, NEW code, NEW info, NEW in,
           Answers(b, code, info) \/ AnswersAs(b, code, info, in)
    PROVE  AllTrail'
<1> DEFINE l == link[b]
           q == Reply(code, info)
<1>1. IsLink(l)
  BY DEF AllInStep
<1>2. PICK m : /\ link' = [link EXCEPT ![b] = m]
               /\ m.wire = Append(l.wire, q) /\ m.bye = l.bye /\ m.left = l.left
  <2>1. CASE Answers(b, code, info)
    <3> DEFINE m == [l EXCEPT !.inbox = Tail(@), !.wire = Append(@, q)]
    <3>1. link' = [link EXCEPT ![b] = m]
      BY <2>1 DEF Answers, AllInStep
    <3>2. m.wire = Append(l.wire, q) /\ m.bye = l.bye /\ m.left = l.left
      BY <1>1 DEF IsLink
    <3> QED
      BY <3>1, <3>2
  <2>2. CASE AnswersAs(b, code, info, in)
    <3> DEFINE m == [l EXCEPT !.inbox = Tail(@), !.wire = Append(@, q), !.loggedIn = in]
    <3>1. link' = [link EXCEPT ![b] = m]
      BY <2>2 DEF AnswersAs, AllInStep
    <3>2. m.wire = Append(l.wire, q) /\ m.bye = l.bye /\ m.left = l.left
      BY <1>1 DEF IsLink
    <3> QED
      BY <3>1, <3>2
  <2> QED
    BY <2>1, <2>2
<1> QED
  BY <1>2, ServerTrails

LEMMA DropTrails ==
    ASSUME Own, AllInStep, AllTrail, NEW b \in Blobs, Drop(b), faults \in Nat
    PROVE  AllTrail'
<1> DEFINE l == link[b]
<1>1. PICK bye : link' = [link EXCEPT ![b] = [Ended(l) EXCEPT !.bye = bye]]
  BY DEF Drop
<1> DEFINE m == [Ended(l) EXCEPT !.bye = bye]
<1>2. IsLink(l) /\ l.sock = "open" /\ UNCHANGED th /\ faults' # 0
  BY DEF AllInStep, Drop, Fault
<1>3. /\ IsLink(m) /\ m.sock = "dropped" /\ m.inbox = <<>> /\ m.transfer = None
      /\ m.buffer = l.buffer /\ m.wire = l.wire /\ m.listen = None /\ m.left = l.left
  BY <1>2, DroppedForm
<1>4. link' = [link EXCEPT ![b] = m]
  BY <1>1
<1> HIDE DEF m
<1>5. ASSUME NEW t \in Threads, Trails(th[t], Link(t)) PROVE Trails(th[t], link'[Uses[t]])
  <2>1. CASE Uses[t] = b
    <3>1. link'[Uses[t]] = m
      BY <1>4, <2>1 DEF AllInStep
    <3> QED
      BY <1>2, <1>3, <1>5, <2>1, <3>1 DEF Trails, Link
  <2>2. CASE Uses[t] # b
    <3>1. link'[Uses[t]] = Link(t)
      BY <1>4, <2>2, UsesAssumption DEF AllInStep, Link
    <3> QED
      BY <1>5, <3>1
  <2> QED
    BY <2>1, <2>2
<1> QED
  BY <1>2, <1>5 DEF AllTrail, Link

LEMMA ServerTrail ==
    ASSUME Own, AllInStep, AllTrail, faults' = 0 => faults = 0, faults \in Nat,
           NEW b \in Blobs, Server(b) \/ Faulty(b)
    PROVE  AllTrail'
<1> DEFINE l == link[b]
<1>1. IsLink(l)
  BY DEF AllInStep
<1>2. ASSUME NEW m, NEW q, UNCHANGED th, link' = [link EXCEPT ![b] = m],
             Pending(b) \/ l.transfer # None,
             m.wire = Append(l.wire, q), m.bye = l.bye, m.left = l.left
      PROVE  AllTrail'
  BY <1>2, ServerTrails
<1>3. ASSUME Pending(b), UNCHANGED th, NEW code, NEW info,
             Answers(b, code, info) \/ AnswersAs(b, code, info, TRUE)
      PROVE  AllTrail'
  BY <1>3, AnswersTrail
<1>4. CASE ServeLogin(b)
  <2>1. UNCHANGED th /\ Pending(b)
    BY <1>4 DEF ServeLogin, Serves
  <2>2. \/ Answers(b, 331, None) \/ AnswersAs(b, 230, None, TRUE) \/ Answers(b, 530, None)
    BY <1>4 DEF ServeLogin, AnswersAs
  <2> QED
    BY <1>3, <2>1, <2>2
<1>5. CASE ServeSession(b) \/ ServeMkd(b) \/ ServeDele(b) \/ Refuse(b)
  <2>1. UNCHANGED th /\ Pending(b) /\ \E code, info : Answers(b, code, info)
    BY <1>5 DEF ServeSession, ServeMkd, ServeDele, Refuse, Serves
  <2> QED
    BY <1>3, <2>1
<1>6. CASE ServeQuit(b)
  <2> DEFINE q == Reply(221, None)
             e == [l EXCEPT !.wire = Append(@, q)]
  <2>1. link' = [link EXCEPT ![b] = Ended(e)] /\ UNCHANGED th /\ Pending(b)
    BY <1>6 DEF ServeQuit, Serves
  <2>2. IsLink(e) /\ e.wire = Append(l.wire, q) /\ e.bye = l.bye /\ e.left = l.left
    BY <1>1 DEF IsLink
  <2> HIDE DEF e
  <2>3. LET m == Ended(e) IN m.wire = e.wire /\ m.bye = e.bye /\ m.left = e.left
    BY <2>2, EndedForm
  <2> QED
    BY <1>2, <2>1, <2>2, <2>3
<1>7. CASE ServePasv(b)
  <2>1. PICK p \in Ports :
        link' = [link EXCEPT
            ![b].inbox = Tail(@),
            ![b].wire = Append(@, Reply(227, [port |-> p])),
            ![b].listen = p,
            ![b].chan = [q \in Ports |->
                IF q = p THEN Chan("listen", None)
                ELSE IF @[q].state \in {"listen", "cut"} THEN Free ELSE @[q]]]
    BY <1>7 DEF ServePasv
  <2> DEFINE c == [q \in Ports |->
                  IF q = p THEN Chan("listen", None)
                  ELSE IF l.chan[q].state \in {"listen", "cut"} THEN Free ELSE l.chan[q]]
             q == Reply(227, [port |-> p])
             m == [l EXCEPT !.inbox = Tail(@), !.wire = Append(@, q), !.listen = p, !.chan = c]
  <2>2. link' = [link EXCEPT ![b] = m]
    BY <2>1
  <2>3. UNCHANGED th /\ Pending(b)
    BY <1>7 DEF ServePasv, Serves
  <2> HIDE DEF c, q
  <2>4. m.wire = Append(l.wire, q) /\ m.bye = l.bye /\ m.left = l.left
    BY <1>1 DEF IsLink
  <2> QED
    BY <1>2, <2>2, <2>3, <2>4
<1>8. CASE \E name \in {"RETR", "LIST", "STOR"} : StartTransfer(b, name)
  <2>1. PICK name \in Transfers : StartTransfer(b, name)
    BY <1>8 DEF Transfers
  <2>2. UNCHANGED th /\ Pending(b)
    BY <2>1 DEF StartTransfer, Serves
  <2>3. CASE Transferable(name, Told(b)) /\ Attached(b)
    <3> DEFINE tr == [cmd |-> Head(l.inbox), port |-> l.listen, data |-> Content(name, Told(b))]
               q == Reply(150, None)
               m == [l EXCEPT !.inbox = Tail(@), !.wire = Append(@, q), !.transfer = tr]
    <3>1. link' = [link EXCEPT ![b] = m]
      BY <2>1, <2>3 DEF AllInStep, StartTransfer
    <3> HIDE DEF tr, q
    <3>2. m.wire = Append(l.wire, q) /\ m.bye = l.bye /\ m.left = l.left
      BY <1>1 DEF IsLink
    <3> QED
      BY <1>2, <2>2, <3>1, <3>2
  <2>4. CASE ~ (Transferable(name, Told(b)) /\ Attached(b))
    <3>1. Answers(b, IF Transferable(name, Told(b)) THEN 425 ELSE 550, None)
      BY <2>1, <2>4 DEF StartTransfer
    <3> QED
      BY <1>3, <2>2, <3>1
  <2> QED
    BY <2>3, <2>4
<1>9. CASE EndStor(b) \/ EndRetr(b) \/ AbortTransfer(b)
  <2>1. PICK code, c : EndsTransfer(b, code, c) /\ l.transfer # None /\ UNCHANGED th
    <3>1. CASE EndStor(b)
      BY <3>1 DEF EndStor
    <3>2. CASE EndRetr(b)
      BY <3>2 DEF EndRetr
    <3>3. CASE AbortTransfer(b)
      BY <3>3 DEF AbortTransfer
    <3> QED
      BY <1>9, <3>1, <3>2, <3>3
  <2> DEFINE q == Reply(code, None)
             m == [l EXCEPT !.transfer = None, !.wire = Append(@, q), !.chan[l.transfer.port] = c]
  <2>2. link' = [link EXCEPT ![b] = m]
    BY <2>1 DEF AllInStep, EndsTransfer
  <2> HIDE DEF q
  <2>3. m.wire = Append(l.wire, q) /\ m.bye = l.bye /\ m.left = l.left
    BY <1>1 DEF IsLink
  <2> QED
    BY <1>2, <2>1, <2>2, <2>3
<1>10. CASE Drop(b)
  BY <1>10, DropTrails
<1> QED
  BY <1>4, <1>5, <1>6, <1>7, <1>8, <1>9, <1>10 DEF Server, Faulty

-----------------------------------------------------------------------------
(* The theorems. *)

LEMMA InitInStep ==
    ASSUME Init
    PROVE  AllInStep
<1>1. \A f : LET d == Disconnected(f) IN IsLink(d) /\ Unused(d)
  BY DEF Disconnected, IsLink, Unused, AtRest, Silent, NoWork
<1>2. \A b \in Blobs : IsLink(link[b]) /\ Unused(link[b])
  BY <1>1 DEF Init
<1>3. th = [t \in Threads |-> th[t]] /\ link = [b \in Blobs |-> link[b]]
  BY DEF Init
<1>4. \A t \in Threads : IsPlace(th[t]) /\ InStep(th[t], Link(t))
  <2> SUFFICES ASSUME NEW t \in Threads PROVE IsPlace(th[t]) /\ InStep(th[t], Link(t))
    OBVIOUS
  <2>1. th[t] = Outside
    BY DEF Init
  <2>2. AtRest(Link(t))
    BY <1>2, UsesAssumption DEF Link, Unused
  <2> QED
    BY <2>1, <2>2, OutsideForm DEF InStep, Between
<1> QED
  BY <1>2, <1>3, <1>4 DEF AllInStep

LEMMA InitTrails ==
    ASSUME Init
    PROVE  AllTrail
<1>1. \A f : LET d == Disconnected(f) IN d.bye = None /\ d.left = None /\ d.sock = "none"
  BY DEF Disconnected
<1>2. \A b \in Blobs : link[b].bye = None /\ link[b].left = None /\ link[b].sock = "none"
  BY <1>1 DEF Init
<1> QED
  BY <1>2, UsesAssumption DEF AllTrail, Trails, Trailless, Link

\* A timeout or a cancellation is never taken back.
LEMMA TimeoutsGrow ==
    ASSUME timeouts \in 0 .. MaxTimeouts, Next
    PROVE  timeouts' \in 0 .. MaxTimeouts /\ (timeouts' = 0 => timeouts = 0)
<1>1. timeouts' = timeouts \/ (timeouts < MaxTimeouts /\ timeouts' = timeouts + 1)
  <2>1. ASSUME NEW t \in Threads, Invoke(t) \/ Return(t) PROVE timeouts' = timeouts
    BY <2>1 DEF Invoke, Return, bounds
  <2>2. ASSUME NEW t \in Threads, Client(t) PROVE timeouts' = timeouts
    BY <2>2 DEF Client, CloseNothing, Connect, OpenDone, Send, Recv, RecvRest, RecvJoins, RecvEnds,
                TakeFarewell, TakeLogin, TakeQuit, TakeFeat, TakeMkd, TakeDele, TakeProbe, TakePasv, Dial, DialRefused, TakeTransfer,
                ReadData, FillData, TakeDone, TakeFailing, bounds
  <2>3. ASSUME NEW t \in Threads, Unlucky(t) PROVE timeouts' = timeouts
    BY <2>3 DEF Unlucky, ConnectFails, SendFails, DialFails, DataFails, Fault, bounds
  <2>4. ASSUME NEW t \in Threads, Late(t) \/ Cancel(t)
        PROVE  timeouts' = timeouts \/ (timeouts < MaxTimeouts /\ timeouts' = timeouts + 1)
    BY <2>4 DEF Late, RecvTimesOut, DataTimesOut, Timeout, Cancel
  <2>5. ASSUME NEW b \in Blobs, Server(b) PROVE timeouts' = timeouts
    BY <2>5 DEF Server, ServeLogin, ServeSession, ServeQuit, ServeMkd, ServeDele, ServePasv,
                StartTransfer, EndStor, EndRetr, bounds
  <2>6. ASSUME NEW b \in Blobs, Faulty(b) PROVE timeouts' = timeouts
    BY <2>6 DEF Faulty, AbortTransfer, Refuse, Drop, Fault
  <2> QED
    BY <2>1, <2>2, <2>3, <2>4, <2>5, <2>6 DEF Next
<1> QED
  BY <1>1, BoundsAssumption

\* Nor is a fault.
LEMMA FaultsGrow ==
    ASSUME faults \in 0 .. MaxFaults, Next
    PROVE  faults' \in 0 .. MaxFaults /\ (faults' = 0 => faults = 0)
<1>1. faults' = faults \/ (faults < MaxFaults /\ faults' = faults + 1)
  <2>1. ASSUME NEW t \in Threads, Invoke(t) \/ Return(t) PROVE faults' = faults
    BY <2>1 DEF Invoke, Return, bounds
  <2>2. ASSUME NEW t \in Threads, Client(t) PROVE faults' = faults
    BY <2>2 DEF Client, CloseNothing, Connect, OpenDone, Send, Recv, RecvRest, RecvJoins, RecvEnds,
                TakeFarewell, TakeLogin, TakeQuit, TakeFeat, TakeMkd, TakeDele, TakeProbe, TakePasv, Dial, DialRefused, TakeTransfer,
                ReadData, FillData, TakeDone, TakeFailing, bounds
  <2>3. ASSUME NEW t \in Threads, Unlucky(t)
        PROVE  faults' = faults \/ (faults < MaxFaults /\ faults' = faults + 1)
    BY <2>3 DEF Unlucky, ConnectFails, SendFails, DialFails, DataFails, Fault, bounds
  <2>4. ASSUME NEW t \in Threads, Late(t) \/ Cancel(t) PROVE faults' = faults
    BY <2>4 DEF Late, RecvTimesOut, DataTimesOut, Timeout, Cancel
  <2>5. ASSUME NEW b \in Blobs, Server(b) PROVE faults' = faults
    BY <2>5 DEF Server, ServeLogin, ServeSession, ServeQuit, ServeMkd, ServeDele, ServePasv,
                StartTransfer, EndStor, EndRetr, bounds
  <2>6. ASSUME NEW b \in Blobs, Faulty(b) PROVE faults < MaxFaults /\ faults' = faults + 1
    BY <2>6 DEF Faulty, AbortTransfer, Refuse, Drop, Fault
  <2> QED
    BY <2>1, <2>2, <2>3, <2>4, <2>5, <2>6 DEF Next
<1> QED
  BY <1>1, BoundsAssumption

LEMMA NextKeepsStep ==
    ASSUME Own, NoneIsNoRecord, IInv, [Next]_vars
    PROVE  IInv'
<1>1. CASE UNCHANGED vars
  BY <1>1 DEF IInv, AllInStep, AllTrail, Link, vars, bounds
<1>2. CASE Next
  <2>1. timeouts' \in 0 .. MaxTimeouts /\ (timeouts' = 0 => timeouts = 0)
    BY <1>2, TimeoutsGrow DEF IInv
  <2>2. faults' \in 0 .. MaxFaults /\ (faults' = 0 => faults = 0) /\ faults \in Nat
    BY <1>2, FaultsGrow, BoundsAssumption DEF IInv
  <2>3. ASSUME timeouts' = 0 PROVE AllInStep' /\ AllTrail'
    <3>1. timeouts = 0 /\ AllInStep /\ AllTrail
      BY <2>1, <2>3 DEF IInv
    <3>2. ASSUME NEW t \in Threads, Invoke(t) \/ Return(t) PROVE AllInStep' /\ AllTrail'
      BY <2>2, <3>1, <3>2, InvokeStep, ReturnStep, InvokeTrails
    <3>3. ASSUME NEW t \in Threads, Client(t) \/ Unlucky(t) PROVE AllInStep' /\ AllTrail'
      BY <2>2, <3>1, <3>3, ClientStep, ClientTrails
    <3>4. ASSUME NEW t \in Threads, Late(t) \/ Cancel(t) PROVE AllInStep' /\ AllTrail'
      BY <2>2, <2>3, <3>1, <3>4, LateStep, LateTrails
    <3>5. ASSUME NEW b \in Blobs, Server(b) \/ Faulty(b) PROVE AllInStep' /\ AllTrail'
      BY <2>2, <3>1, <3>5, ServerStep, ServerTrail
    <3> QED
      BY <1>2, <3>2, <3>3, <3>4, <3>5 DEF Next
  <2> QED
    BY <2>1, <2>2, <2>3 DEF IInv
<1> QED
  BY <1>1, <1>2

(***************************************************************************)
(* Where every thread has an instance of its own, both ends of each        *)
(* connection are never further apart than what the thread is at explains, *)
(* until a reply is late or a task is cancelled.                           *)
(***************************************************************************)
THEOREM Invariance ==
    ASSUME Own, NoneIsNoRecord
    PROVE  Spec => []IInv
<1>1. Init => IInv
  BY InitInStep, InitTrails, BoundsAssumption DEF Init, IInv
<1>2. IInv /\ [Next]_vars => IInv'
  BY NextKeepsStep
<1> QED
  BY <1>1, <1>2, PTL DEF Spec

(***************************************************************************)
(* Each path out of a call, errors, refusals and drops included, reads     *)
(* exactly the replies the server sends for it: as long as no timeout or   *)
(* cancellation intervenes, the connection is in step between calls.       *)
(***************************************************************************)
THEOREM InSyncBetweenCalls ==
    ASSUME Own, NoneIsNoRecord, MaxTimeouts = 0
    PROVE  Spec => []ControlInSync
<1>1. ASSUME IInv PROVE ControlInSync
  <2>1. AllInStep
    BY <1>1 DEF IInv
  <2> SUFFICES ASSUME NEW b \in Blobs, ~ InUse(b), link[b].sock = "open"
               PROVE  /\ link[b].inbox = <<>> /\ link[b].wire = <<>> /\ link[b].buffer = <<>>
                      /\ link[b].left = None /\ link[b].transfer = None
    BY DEF ControlInSync
  <2>2. PICK t \in Threads : Uses[t] = b
    BY <2>1 DEF AllInStep, Unused
  <2>3. th[t].pc \in {"idle", "done"}
    BY <2>2 DEF InUse
  <2>4. AtRest(link[b])
    BY <2>1, <2>2, <2>3, PlaceOfThread DEF Link
  <2>5. link[b].left = None
    BY <1>1, <2>2, <2>3 DEF IInv, AllTrail, Trails, Link
  <2> QED
    BY <2>4, <2>5 DEF AtRest, Silent, NoWork
<1> QED
  BY <1>1, Invariance, PTL

(***************************************************************************)
(* Whatever is refused, aborted or dropped, client and server never wait   *)
(* for each other, but for a greeting read as part of what the connection  *)
(* before it has left: the first timeout, if any, is of that or of a reply *)
(* that was late.                                                          *)
(***************************************************************************)
THEOREM NeverBothWait ==
    ASSUME Own, NoneIsNoRecord
    PROVE  Spec => []NoMutualWait
<1>1. ASSUME IInv PROVE NoMutualWait
  <2> SUFFICES ASSUME timeouts = 0, NEW t \in Threads, Quiet(Uses[t]),
                      th[t].pc \in {"await", "data"}, Link(t).buffer = <<>>
               PROVE  th[t].cmd.name = "220" /\ faults # 0
    BY DEF NoMutualWait
  <2>1. AllInStep /\ AllTrail
    BY <1>1 DEF IInv
  <2>2. Lost(th[t], Link(t)) /\ Link(t).sock = "open"
    BY <2>1, NoWait DEF Quiet, Link
  <2> QED
    BY <2>1, <2>2 DEF AllTrail, Lost
<1> QED
  BY <1>1, Invariance, PTL

=============================================================================
