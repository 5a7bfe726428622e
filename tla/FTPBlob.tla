------------------------------- MODULE FTPBlob -------------------------------
(***************************************************************************)
(* The FTP backend against an FTP server: the synchronous one              *)
(* (src/gufo/blob/sync/ftp.py) and the asynchronous one (aio/ftp.py).      *)
(*                                                                         *)
(* An instance talks to the server over one control connection.  A command *)
(* is sent, then a reply is read: from `_response_buffer` if it holds a    *)
(* line, else from the socket, where one recv() may bring several lines.   *)
(* Replies carry no mark of the command they answer.  A transfer also uses *)
(* a data connection to the port announced in reply to PASV.  The server   *)
(* serves the commands of a connection in order; it may refuse a command,  *)
(* abort a transfer or drop the connection, saying so in a 421 or breaking *)
(* off in the middle of a line, and a reply may come later than the client *)
(* is willing to wait.                                                     *)
(*                                                                         *)
(* The two variants exchange the same commands and replies, with three     *)
(* differences: a task may be cancelled where it awaits; the asynchronous  *)
(* close() forgets its connection first, so that the QUIT it sends opens,  *)
(* and leaves behind, another; and the asynchronous put() shuts the data   *)
(* connection down when most, but not always all, of the data has left.    *)
(*                                                                         *)
(* Not modelled: two threads of one instance that both find it unconnected *)
(* at the same moment, and commands the server still executes after the    *)
(* client has hung up.                                                     *)
(*                                                                         *)
(* Keys and directories are paths, sequences of names.                     *)
(***************************************************************************)
EXTENDS Naturals, Sequences, FiniteSets

CONSTANTS
    Threads,
    Blobs,            \* instances of the backend
    Uses,             \* Uses[t]: the instance thread t calls
    Keys, Prefixes,   \* paths
    Values,
    Large,            \* those that may not fit in what sockets buffer
    Flavours,         \* the variants: a subset of {"sync", "aio"}
    Ops,              \* the operations the threads call
    HasRoot,          \* is a root directory configured?
    GivenFeatures,    \* features passed to the constructor, or None
    ServerFeatures,   \* those the server has: a subset of {"SIZE", "MLSD"}
    Refusals,         \* codes it refuses commands with
    Ports,            \* ports for data connections
    MaxFaults,        \* bound: refusals, aborts, drops and failed connects
    MaxTimeouts,      \* bound: timeouts of the client, and cancellations
    Torn,             \* the content of a file of which a part was written
    Unknown,          \* what no caller can know
    None

ASSUME UsesAssumption == Uses \in [Threads -> Blobs]
ASSUME BoundsAssumption == MaxFaults \in Nat /\ MaxTimeouts \in Nat
ASSUME PathsAssumption == Keys \subseteq Seq(STRING) \ {<<>>} /\ Prefixes \subseteq Seq(STRING)
ASSUME ValuesAssumption ==
    {Torn, Unknown, None} \cap Values = {} /\ None \notin {Torn, Unknown, "421", "part"}
ASSUME RefusalsAssumption == Refusals \subseteq 400 .. 599
ASSUME PortsAssumption == Ports \subseteq Nat \ {None}

VARIABLES
    files,      \* files[k]: content of file k on the server, or None
    dirs,       \* directories on the server, below the root
    link,       \* link[b]: both ends of the connections of instance b
    th,         \* th[t]: where thread t is
    call, ret,
    known,      \* known[k]: what the finished calls tell about key k
    was,        \* was[t]: known when t's call began
    alone,      \* alone[t]: no call that changes a key of t's overlaps it
    faults, timeouts

server == <<files, dirs>>
callers == <<call, ret, known, was, alone>>
bounds == <<faults, timeouts>>
vars == <<server, link, th, callers, bounds>>

-----------------------------------------------------------------------------
(* Paths. *)

Prefix(k, i) == SubSeq(k, 1, i)

\* Mutant: the key itself is made a directory too.
ParentsAndKey(k) == [i \in 1 .. Len(k) |-> Prefix(k, i)]

\* iter_parent_dirs(key), from the top down.
Parents(k) == [i \in 1 .. Len(k) - 1 |-> Prefix(k, i)]

AllDirs == UNION {{Prefix(k, i) : i \in 1 .. Len(k) - 1} : k \in Keys}
Parent(p) == Prefix(p, Len(p) - 1)
IsDir(p) == p = <<>> \/ p \in dirs
IsFile(p) == p \in Keys /\ files[p] # None

\* What the server lists in directory p: paths, and which of them are directories.
Listing(p) ==
    {[path |-> q, isDir |-> q \in dirs] :
        q \in {q \in Keys \cup AllDirs : (IsFile(q) \/ q \in dirs) /\ Parent(q) = p}}

-----------------------------------------------------------------------------
(* Records. *)

Command(name, arg) == [name |-> name, arg |-> arg]
Reply(code, info) == [code |-> code, info |-> info]
Has(features, f) == f \in features

Lifecycle == {"open", "close"}
Mutators == {"put", "delete"}

\* The keys within a prefix.
Under == [p \in Prefixes |-> {k \in Keys : Len(p) <= Len(k) /\ Prefix(k, Len(p)) = p}]

Store == INSTANCE BlobStore WITH Clients <- Threads, store <- files

\* What is read of a file is not taken for a listing.
ASSUME ListingsAssumption ==
    \A d \in SUBSET [path : Keys \cup AllDirs, isDir : BOOLEAN] : d \notin Values \cup {Torn, None}

ASSUME NoneAssumption == None \notin Store!Requests \cup [op : Lifecycle] \cup Store!Outcomes

\* A data connection: what has become of it, and what it carries.
Chan(state, data) == [state |-> state, data |-> data]
Free == Chan("free", None)

Cancelled == [raised |-> "CancelledError"]

Disconnected(flavour) ==
    [flavour |-> flavour,
     sock |-> "none",         \* self._sock, _conn: none, open, or closed by the server
     buffer |-> <<>>,         \* self._response_buffer
     features |-> GivenFeatures,
     inbox |-> <<>>,          \* commands the server has yet to serve
     wire |-> <<>>,           \* replies on their way
     bye |-> None,            \* behind them, unasked: "421", or a "part" of a line
     left |-> None,           \* of those, what self._response_buffer ends with
     transfer |-> None,       \* the command whose transfer the server is in
     loggedIn |-> FALSE,      \* the server's view
     listen |-> None,         \* the port of its last reply to PASV
     chan |-> [p \in Ports |-> Free]]

Outside ==
    [pc |-> "idle",
     cmd |-> None,            \* the command to send, or whose reply is awaited
     resume |-> None,         \* the command to send once logged in
     port |-> None,           \* the data connection
     rest |-> <<>>,           \* parents to make, or path still to descend
     data |-> None,           \* what was read from the data connection
     got |-> {}]              \* keys yielded

Init ==
    /\ files = [k \in Keys |-> None]
    /\ dirs = {}
    /\ link \in [Blobs -> {Disconnected(f) : f \in Flavours}]
    /\ th = [t \in Threads |-> Outside]
    /\ call = [t \in Threads |-> None]
    /\ ret = [t \in Threads |-> None]
    /\ known = [k \in Keys |-> None]
    /\ was = [t \in Threads |-> None]
    /\ alone = [t \in Threads |-> TRUE]
    /\ faults = 0
    /\ timeouts = 0

Fault == faults < MaxFaults /\ faults' = faults + 1 /\ UNCHANGED timeouts

-----------------------------------------------------------------------------
(* The server. *)

Link(t) == link[Uses[t]]

Async(t) == Link(t).flavour = "aio"

Channel(b) == link[b].chan[link[b].transfer.port]

\* The server of b waits for the client: for a command, or for data to store.
Quiet(b) ==
    /\ link[b].sock = "open" /\ link[b].wire = <<>>
    /\ IF link[b].transfer = None THEN link[b].inbox = <<>>
       ELSE link[b].transfer.cmd.name = "STOR" /\ Channel(b).state = "connected"

\* The server of b answers the command at the head of its inbox.
Answers(b, code, info) ==
    link' = [link EXCEPT ![b].inbox = Tail(@), ![b].wire = Append(@, Reply(code, info))]

Pending(b) == link[b].sock = "open" /\ link[b].transfer = None /\ link[b].inbox # <<>>

Serves(b, name) ==
    /\ Pending(b)
    /\ link[b].loggedIn \/ name \in {"USER", "PASS", "QUIT"}
    /\ Head(link[b].inbox).name = name

Told(b) == Head(link[b].inbox).arg

\* The name alone, or the password, logs in; before that nothing else is served.
ServeLogin(b) ==
    /\ \/ Serves(b, "USER") /\ Answers(b, 331, None)
       \/ /\ Serves(b, "USER") \/ Serves(b, "PASS")
          /\ link' = [link EXCEPT ![b].inbox = Tail(@), ![b].wire = Append(@, Reply(230, None)),
                                  ![b].loggedIn = TRUE]
       \/ /\ Pending(b) /\ ~ link[b].loggedIn
          /\ Head(link[b].inbox).name \notin {"USER", "PASS", "QUIT"}
          /\ Answers(b, 530, None)
    /\ UNCHANGED <<server, th, callers, bounds>>

ServeSession(b) ==
    /\ \/ Serves(b, "CWD")  /\ Answers(b, 250, None)
       \/ Serves(b, "TYPE") /\ Answers(b, 200, None)
       \/ Serves(b, "FEAT") /\ Answers(b, 211, ServerFeatures)
       \/ Serves(b, "SIZE") /\ Answers(b, IF IsFile(Told(b)) THEN 213 ELSE 550, None)
       \/ Serves(b, "MLST") /\ Answers(b, IF IsFile(Told(b)) \/ IsDir(Told(b)) THEN 250 ELSE 550,
                                       [file |-> IsFile(Told(b))])
    /\ UNCHANGED <<server, th, callers, bounds>>

\* The connection is over: replies already sent arrive, nothing else does.
Ended(l) ==
    [l EXCEPT !.sock = "dropped", !.inbox = <<>>, !.transfer = None, !.listen = None,
              !.chan = [p \in Ports |->
                  CASE @[p].state = "received"  -> @[p]
                    [] @[p].state = "connected" -> Chan("received", Torn)
                    [] OTHER                    -> Free]]

ServeQuit(b) ==
    /\ Serves(b, "QUIT")
    /\ link' = [link EXCEPT ![b] = Ended([link[b] EXCEPT !.wire = Append(@, Reply(221, None))])]
    /\ UNCHANGED <<server, th, callers, bounds>>

ServeMkd(b) ==
    /\ Serves(b, "MKD")
    /\ LET made == IsDir(Parent(Told(b))) /\ ~ IsDir(Told(b)) /\ ~ IsFile(Told(b)) IN
          /\ dirs' = IF made THEN dirs \cup {Told(b)} ELSE dirs
          /\ Answers(b, IF made THEN 257 ELSE 550, None)
    /\ UNCHANGED <<files, th, callers, bounds>>

ServeDele(b) ==
    /\ Serves(b, "DELE")
    /\ files' = [files EXCEPT ![Told(b)] = None]
    /\ Answers(b, IF IsFile(Told(b)) THEN 250 ELSE 550, None)
    /\ UNCHANGED <<dirs, th, callers, bounds>>

\* A port no one else has in mind.
FreshPort(b, p) ==
    /\ link[b].chan[p].state \in {"free", "listen", "cut"}
    /\ \A t \in Threads : th[t].port # p
    /\ \A r \in {link[b].wire[i] : i \in DOMAIN link[b].wire}
            \cup {link[b].buffer[i] : i \in DOMAIN link[b].buffer} : r.code = 227 => r.info.port # p

ServePasv(b) ==
    /\ Serves(b, "PASV")
    /\ \E p \in Ports :
          /\ FreshPort(b, p)
          /\ \A q \in Ports : FreshPort(b, q) => p <= q
          /\ link' = [link EXCEPT
                ![b].inbox = Tail(@),
                ![b].wire = Append(@, Reply(227, [port |-> p])),
                ![b].listen = p,
                ![b].chan = [q \in Ports |->
                    IF q = p THEN Chan("listen", None)
                    ELSE IF @[q].state \in {"listen", "cut"} THEN Free ELSE @[q]]]
    /\ UNCHANGED <<server, th, callers, bounds>>

\* What the server does with the argument of a transfer command.
Transferable(name, arg) ==
    \/ name = "RETR" /\ IsFile(arg)
    \/ name = "LIST" /\ IsDir(arg)
    \/ name = "STOR" /\ IsDir(Parent(arg)) /\ ~ IsDir(arg)

Content(name, arg) ==
    CASE name = "RETR" -> files[arg]
      [] name = "LIST" -> Listing(arg)
      [] name = "STOR" -> None

\* A client has connected to the port last announced.
Attached(b) ==
    LET p == link[b].listen IN p # None /\ link[b].chan[p].state \in {"connected", "cut"}

StartTransfer(b, name) ==
    /\ Serves(b, name)
    /\ IF Transferable(name, Told(b)) /\ Attached(b)
       THEN /\ link' = [link EXCEPT
                  ![b].inbox = Tail(@), ![b].wire = Append(@, Reply(150, None)),
                  ![b].transfer = [cmd |-> Head(link[b].inbox), port |-> link[b].listen,
                                   data |-> Content(name, Told(b))]]
            /\ files' = IF name = "STOR" THEN [files EXCEPT ![Told(b)] = Torn] ELSE files
       ELSE /\ Answers(b, IF Transferable(name, Told(b)) THEN 425 ELSE 550, None)
            /\ UNCHANGED files
    /\ UNCHANGED <<dirs, th, callers, bounds>>

EndsTransfer(b, code, chan) ==
    link' = [link EXCEPT
        ![b].transfer = None,
        ![b].wire = Append(@, Reply(code, None)),
        ![b].chan[link[b].transfer.port] = chan]

\* The server reads to the end of the data; it cannot tell whether it is all.
\* It writes to the file that STOR opened, which may have been deleted since.
EndStor(b) ==
    /\ link[b].transfer # None
    /\ link[b].transfer.cmd.name = "STOR"
    /\ \/ /\ Channel(b).state = "cut"
          /\ UNCHANGED files
       \/ /\ Channel(b).state = "sent"
          /\ files' = [files EXCEPT ![link[b].transfer.cmd.arg] =
                          IF @ = None THEN None ELSE Channel(b).data]
    /\ EndsTransfer(b, 226, Free)
    /\ UNCHANGED <<dirs, th, callers, bounds>>

\* The file as it is now, or as it was when the transfer began.
EndRetr(b) ==
    LET tr == link[b].transfer IN
    /\ link[b].transfer # None
    /\ tr.cmd.name \in {"RETR", "LIST"}
    /\ \/ /\ Channel(b).state = "connected"
          /\ \E d \in {tr.data, Content(tr.cmd.name, tr.cmd.arg)} \ {None} :
                EndsTransfer(b, 226, Chan("received", d))
       \/ /\ Channel(b).state \in {"cut", "sent"}
          /\ EndsTransfer(b, 426, Free)
    /\ UNCHANGED <<server, th, callers, bounds>>

\* The transfer breaks off: the client reads a part, or the file holds a part.
AbortTransfer(b) ==
    /\ Fault
    /\ link[b].transfer # None
    /\ Channel(b).state # "cut"
    /\ EndsTransfer(b, 426, IF Channel(b).state = "connected" THEN Chan("received", Torn) ELSE Free)
    /\ UNCHANGED <<server, th, callers>>

\* No space, no permission, busy, too many users: any command but QUIT.
Refuse(b) ==
    /\ Fault
    /\ \E name \in {"USER", "PASS", "CWD", "TYPE", "FEAT", "SIZE", "MLST", "MKD", "DELE",
                    "PASV", "RETR", "LIST", "STOR"} : Serves(b, name)
    /\ \E code \in Refusals : Answers(b, code, None)
    /\ UNCHANGED <<server, th, callers>>

\* The server closes the control connection: without a word, after a 421
\* that says so (idle for too long, shutting down), or inside a line.
Drop(b) ==
    /\ Fault
    /\ link[b].sock = "open"
    /\ \E bye \in {None, "421", "part"} :
          link' = [link EXCEPT ![b] = [Ended(link[b]) EXCEPT !.bye = bye]]
    /\ UNCHANGED <<server, th, callers>>

Server(b) ==
    \/ ServeLogin(b) \/ ServeSession(b) \/ ServeQuit(b) \/ ServeMkd(b) \/ ServeDele(b) \/ ServePasv(b)
    \/ \E name \in {"RETR", "LIST", "STOR"} : StartTransfer(b, name)
    \/ EndStor(b) \/ EndRetr(b)

Faulty(b) == AbortTransfer(b) \/ Refuse(b) \/ Drop(b)

-----------------------------------------------------------------------------
(* The client: parts of a step. *)

\* Thread t goes on with record r, and its link becomes l.
Continues(t, r, l) ==
    /\ th' = [th EXCEPT ![t] = r]
    /\ link' = [link EXCEPT ![Uses[t]] = l]
    /\ UNCHANGED <<server, callers>>

Sends(r, name, arg) == [r EXCEPT !.pc = "send", !.cmd = Command(name, arg)]
Expects(r, name) == [r EXCEPT !.pc = "await", !.cmd = Command(name, None)]

\* The client closes its end of data connection p, if there is one.
CloseData(l, p) ==
    IF p = None THEN l
    ELSE [l EXCEPT !.chan[p] =
            CASE @.state = "connected"     -> Chan("cut", None)
              [] @.state \in {"sent", "cut"} -> @
              [] OTHER -> Free]

\* The socket is closed; what was read of it stays in _response_buffer.
HangUp(l) ==
    [Disconnected(l.flavour) EXCEPT !.buffer = l.buffer, !.left = l.left, !.features = l.features]

\* What the outcome o of a call that changes its key tells about the key.
Learned(t, o) ==
    IF ~ alone[t] \/ o \in {Store!BlobError, Cancelled} THEN Unknown
    ELSE IF call[t].op = "put" THEN call[t].data ELSE None

Finish(t, o, l) ==
    /\ th' = [th EXCEPT ![t] = [Outside EXCEPT !.pc = "done"]]
    /\ link' = [link EXCEPT ![Uses[t]] = CloseData(l, th[t].port)]
    /\ ret' = [ret EXCEPT ![t] = o]
    /\ known' = IF call[t].op \in Mutators
                THEN [known EXCEPT ![call[t].key] = Learned(t, o)] ELSE known
    /\ UNCHANGED <<server, call, was, alone>>

\* BlobError; close() suppresses it.
Fails(t, l) == Finish(t, IF call[t].op = "close" THEN Store!Done ELSE Store!BlobError, l)

\* The reply t waits for is at hand: r is it, l the link without it.
Awaits(t, names) ==
    th[t].pc = "await" /\ th[t].cmd.name \in names /\ Link(t).buffer # <<>>
Code(t) == Head(Link(t).buffer).code
Info(t) == Head(Link(t).buffer).info
Taken(t) == [Link(t) EXCEPT !.buffer = Tail(@)]

-----------------------------------------------------------------------------
(* Calls. *)

\* put(): MKD for each parent from the top, then the transfer.
MakeParents(r, parents) ==
    LET s == [r EXCEPT !.rest = parents]
    IN  IF parents = <<>> THEN Sends(s, "PASV", None) ELSE Sends(s, "MKD", Head(parents))

\* exists(): SIZE, MLST or a scan for the key, as the features allow; scan().
Probe(r, q, features) ==
    CASE q.op = "exists" /\ Has(features, "SIZE") -> Sends(r, "SIZE", q.key)
      [] q.op = "exists" /\ ~ Has(features, "SIZE") /\ Has(features, "MLSD") ->
            Sends(r, "MLST", q.key)
      [] OTHER -> Sends([r EXCEPT !.rest = IF q.op = "scan" THEN q.prefix ELSE q.key],
                        "PASV", None)

Starts(q, l) ==
    CASE q.op = "open"   -> Sends(Outside, "open", None)
      [] q.op = "close"  -> Sends(Outside, IF l.flavour = "aio" THEN "close" ELSE "QUIT", None)
      [] q.op = "put"    -> MakeParents(Outside, Parents(q.key))
      [] q.op = "get"    -> Sends(Outside, "PASV", None)
      [] q.op = "delete" -> Sends(Outside, "DELE", q.key)
      [] OTHER           -> IF l.features = None THEN Sends(Outside, "FEAT", None)
                            ELSE Probe(Outside, q, l.features)

KeysOf(q) ==
    IF q = None \/ q.op \in Lifecycle THEN {}
    ELSE IF q.op = "scan" THEN Keys ELSE {q.key}

Clash(q, r) ==
    /\ KeysOf(q) \cap KeysOf(r) # {}
    /\ q.op \in Mutators \/ r.op \in Mutators

\* A call that changes a key spoils what others are about to learn of it.
Invoke(t) ==
    /\ th[t].pc = "idle"
    /\ \E q \in {q \in Store!Requests \cup [op : Lifecycle] : q.op \in Ops} :
          /\ call' = [call EXCEPT ![t] = q]
          /\ th' = [th EXCEPT ![t] = Starts(q, Link(t))]
          /\ was' = [was EXCEPT ![t] = known]
          /\ known' = IF q.op \in Mutators THEN [known EXCEPT ![q.key] = Unknown] ELSE known
          /\ alone' = [u \in Threads |->
                IF u = t THEN ~ \E w \in Threads \ {t} : Clash(q, call[w])
                ELSE alone[u] /\ ~ Clash(q, call[u])]
    /\ UNCHANGED <<server, link, ret, bounds>>

Return(t) ==
    /\ th[t].pc = "done"
    /\ th' = [th EXCEPT ![t] = Outside]
    /\ call' = [call EXCEPT ![t] = None]
    /\ ret' = [ret EXCEPT ![t] = None]
    /\ was' = [was EXCEPT ![t] = None]
    /\ alone' = [alone EXCEPT ![t] = TRUE]
    /\ UNCHANGED <<server, link, known, bounds>>

-----------------------------------------------------------------------------
(* The property `connection`, _cmd() and _read_response(). *)

\* A command, or what needs the connection and sends none.
Ready(t) == th[t].pc = "send" /\ Link(t).sock # "none" /\ th[t].cmd.name # "close"
Sending(t) == Ready(t) /\ th[t].cmd.name # "open"

\* close() of the synchronous variant.
CloseNothing(t) ==
    /\ th[t].pc = "send" /\ th[t].cmd.name = "QUIT" /\ Link(t).sock = "none"
    /\ Finish(t, Store!Done, Link(t))
    /\ UNCHANGED bounds

\* close() of the asynchronous one connects, whether or not it is connected:
\* the connection it has is forgotten, to be closed in the end, and QUIT asks
\* for another.
Connecting(t) ==
    /\ th[t].pc = "send"
    /\ \/ Link(t).sock = "none" /\ th[t].cmd.name # "QUIT"
       \/ th[t].cmd.name = "close"

Wanted(t) == IF th[t].cmd.name = "close" THEN Command("QUIT", None) ELSE th[t].cmd

\* The socket is set before the login: the command to send waits for it.
Connect(t) ==
    /\ Connecting(t)
    /\ Continues(t, Expects([th[t] EXCEPT !.resume = Wanted(t)], "220"),
                 [HangUp(Link(t)) EXCEPT !.sock = "open", !.wire = <<Reply(220, None)>>])
    /\ UNCHANGED bounds

\* All the attempts of _connect() fail.
ConnectFails(t) ==
    /\ Connecting(t)
    /\ Fault
    /\ Fails(t, HangUp(Link(t)))

OpenDone(t) ==
    /\ Ready(t) /\ th[t].cmd.name = "open"
    /\ Finish(t, Store!Done, Link(t))
    /\ UNCHANGED bounds

\* A command sent on a connection the server has closed is lost.
Send(t) ==
    /\ Sending(t)
    /\ Continues(t, [th[t] EXCEPT !.pc = "await"],
                 IF Link(t).sock = "open" THEN [Link(t) EXCEPT !.inbox = Append(@, th[t].cmd)]
                                          ELSE Link(t))
    /\ UNCHANGED bounds

\* The client reads on: no whole reply is in _response_buffer.
Reads(t) == th[t].pc = "await" /\ Link(t).buffer = <<>> /\ Link(t).left # "421"

\* One recv() brings at least one of the replies under way, or more, and,
\* with the last of them, what the server said as it closed.
Recv(t) ==
    /\ Reads(t) /\ Link(t).left = None
    /\ \E n \in 1 .. Len(Link(t).wire) :
       \E rest \in {None} \cup (IF n = Len(Link(t).wire) THEN {Link(t).bye} ELSE {}) :
          Continues(t, th[t], [Link(t) EXCEPT
              !.buffer = SubSeq(Link(t).wire, 1, n),
              !.wire = SubSeq(Link(t).wire, n + 1, Len(Link(t).wire)),
              !.left = rest,
              !.bye = IF rest = None THEN @ ELSE None])
    /\ UNCHANGED bounds

\* Nothing but that is under way.
RecvRest(t) ==
    /\ Reads(t) /\ Link(t).left = None
    /\ Link(t).wire = <<>> /\ Link(t).bye # None
    /\ Continues(t, th[t], [Link(t) EXCEPT !.left = Link(t).bye, !.bye = None])
    /\ UNCHANGED bounds

\* The first line of a new connection is read as the end of the line that the
\* previous one broke off: another code, the same one, or, behind the "211-"
\* of a reply of several lines, no reply at all.
RecvJoins(t) ==
    /\ Reads(t) /\ Link(t).left = "part" /\ Link(t).wire # <<>>
    /\ \E read \in {<<>>} \cup {<<Reply(code, None)>> : code \in {220, 250, 500}} :
          Continues(t, th[t], [Link(t) EXCEPT
              !.buffer = read, !.wire = Tail(@), !.left = None])
    /\ UNCHANGED bounds

\* The client is out of patience: the server is late, or has nothing to say.
\* Only the former is bounded.
Timeout(t) ==
    /\ Quiet(Uses[t]) \/ timeouts < MaxTimeouts
    /\ timeouts' = IF timeouts < MaxTimeouts THEN timeouts + 1 ELSE timeouts
    /\ UNCHANGED faults

\* close() of the synchronous variant and a login that fails hang up; any
\* other caller leaves the control connection as it is.
HangsUp(t) == th[t].resume # None \/ (th[t].cmd.name = "QUIT" /\ ~ Async(t))

\* _cmd() or _expect() raises.
Breaks(t) == Fails(t, IF HangsUp(t) THEN HangUp(Link(t)) ELSE Link(t))

\* The server has closed the connection.
RecvEnds(t) ==
    /\ Reads(t) /\ Link(t).wire = <<>> /\ Link(t).bye = None
    /\ Link(t).sock = "dropped"
    /\ Breaks(t)
    /\ UNCHANGED bounds

SendFails(t) ==
    /\ Sending(t)
    /\ Link(t).sock = "dropped"
    /\ Breaks(t)
    /\ UNCHANGED bounds

RecvTimesOut(t) ==
    /\ Reads(t)
    /\ Timeout(t)
    /\ Breaks(t)

\* _login(): the next command, by the code of the reply to this one.
LoginNext(name, code) ==
    CASE name = "220" /\ code = 220            -> "USER"
      [] name = "USER" /\ code = 331           -> "PASS"
      [] name \in {"USER", "PASS"} /\ code = 230 -> IF HasRoot THEN "CWD" ELSE "TYPE"
      [] name = "CWD" /\ code = 250            -> "TYPE"
      [] name = "TYPE" /\ code = 200           -> "done"
      [] OTHER                                 -> "failed"

TakeLogin(t) ==
    LET name == th[t].cmd.name
        next == LoginNext(name, Code(t))
    IN
    /\ Awaits(t, {"220", "USER", "PASS", "CWD", "TYPE"})
    /\ CASE next = "failed" -> Fails(t, HangUp(Taken(t)))
         [] next = "done"   -> Continues(t, [th[t] EXCEPT !.pc = "send", !.cmd = th[t].resume,
                                                          !.resume = None], Taken(t))
         [] OTHER           -> Continues(t, Sends(th[t], next, None), Taken(t))
    /\ UNCHANGED bounds

-----------------------------------------------------------------------------
(* Replies to the commands of the operations. *)

TakeQuit(t) ==
    /\ Awaits(t, {"QUIT"})
    /\ Finish(t, Store!Done, IF HangsUp(t) THEN HangUp(Taken(t)) ELSE Taken(t))
    /\ UNCHANGED bounds

TakeFeat(t) ==
    LET f == IF Code(t) = 211 THEN Info(t) ELSE {} IN
    /\ Awaits(t, {"FEAT"})
    /\ Continues(t, Probe(th[t], call[t], f), [Taken(t) EXCEPT !.features = f])
    /\ UNCHANGED bounds

\* Mutant: the loop over the parents does not advance.
TakeMkdAgain(t) ==
    /\ Awaits(t, {"MKD"})
    /\ IF Code(t) \in {257, 550}
       THEN Continues(t, MakeParents(th[t], th[t].rest), Taken(t))
       ELSE Fails(t, Taken(t))
    /\ UNCHANGED bounds

\* Mutant: a directory that is already there is an error.
TakeMkdCreated(t) ==
    /\ Awaits(t, {"MKD"})
    /\ IF Code(t) = 257
       THEN Continues(t, MakeParents(th[t], Tail(th[t].rest)), Taken(t))
       ELSE Fails(t, Taken(t))
    /\ UNCHANGED bounds

\* 550 is taken for a directory that is already there.
TakeMkd(t) ==
    /\ Awaits(t, {"MKD"})
    /\ IF Code(t) \in {257, 550}
       THEN Continues(t, MakeParents(th[t], Tail(th[t].rest)), Taken(t))
       ELSE Fails(t, Taken(t))
    /\ UNCHANGED bounds

TakeDele(t) ==
    /\ Awaits(t, {"DELE"})
    /\ Finish(t, CASE Code(t) = 550 -> Store!KeyError
                   [] Code(t) = 250 -> Store!Done
                   [] OTHER         -> Store!BlobError, Taken(t))
    /\ UNCHANGED bounds

\* SIZE or MLST settles it, or the next way to find out is tried.
TakeProbe(t) ==
    LET name == th[t].cmd.name
        yes == \/ name = "SIZE" /\ Code(t) = 213
               \/ name = "MLST" /\ Code(t) = 250 /\ Info(t) = [file |-> TRUE]
        no == \/ Code(t) = 550
              \/ name = "MLST" /\ Code(t) = 250
        left == IF name = "SIZE" THEN Link(t).features \ {"SIZE"} ELSE {}
    IN
    /\ Awaits(t, {"SIZE", "MLST"})
    /\ IF yes \/ no THEN Finish(t, [found |-> yes], Taken(t))
                    ELSE Continues(t, Probe(th[t], call[t], left), Taken(t))
    /\ UNCHANGED bounds

\* The 421 is taken for the reply to whatever command was sent last.
TakeFarewell(t) ==
    LET name == th[t].cmd.name
        l == [Link(t) EXCEPT !.left = None]
        features == IF name = "SIZE" THEN l.features \ {"SIZE"} ELSE {}
    IN
    /\ th[t].pc = "await" /\ Link(t).buffer = <<>> /\ Link(t).left = "421"
    /\ CASE name = "QUIT" -> Finish(t, Store!Done, IF HangsUp(t) THEN HangUp(l) ELSE l)
         [] name = "FEAT" -> Continues(t, Probe(th[t], call[t], {}), [l EXCEPT !.features = {}])
         [] name \in {"SIZE", "MLST"} -> Continues(t, Probe(th[t], call[t], features), l)
         [] name \in {"220", "USER", "PASS", "CWD", "TYPE"} -> Fails(t, HangUp(l))
         [] OTHER -> Fails(t, l)
    /\ UNCHANGED bounds

TakePasv(t) ==
    /\ Awaits(t, {"PASV"})
    /\ IF Code(t) = 227
       THEN Continues(t, [th[t] EXCEPT !.pc = "dial", !.port = Info(t).port], Taken(t))
       ELSE Fails(t, Taken(t))
    /\ UNCHANGED bounds

\* The directory a scan, or an exists() that scans, is at.
Path(t) ==
    LET target == IF call[t].op = "scan" THEN call[t].prefix ELSE call[t].key
    IN  Prefix(target, Len(target) - Len(th[t].rest))

Dial(t) ==
    LET l == [Link(t) EXCEPT !.chan[th[t].port] = Chan("connected", None)] IN
    /\ th[t].pc = "dial"
    /\ Link(t).chan[th[t].port].state = "listen"
    /\ Continues(t, CASE call[t].op = "put" -> Sends(th[t], "STOR", call[t].key)
                      [] call[t].op = "get" -> Sends(th[t], "RETR", call[t].key)
                      [] OTHER              -> Sends(th[t], "LIST", Path(t)), l)
    /\ UNCHANGED bounds

DialRefused(t) ==
    /\ th[t].pc = "dial"
    /\ Link(t).chan[th[t].port].state # "listen"
    /\ Fails(t, Link(t))
    /\ UNCHANGED bounds

DialFails(t) ==
    /\ th[t].pc = "dial"
    /\ Link(t).chan[th[t].port].state = "listen"
    /\ Fault
    /\ Fails(t, Link(t))

\* The end of a scan, with the keys ks yielded.
Yielded(t, ks, l) ==
    Finish(t, IF call[t].op = "scan" THEN [keys |-> ks] ELSE [found |-> call[t].key \in ks], l)

TakeTransfer(t) ==
    LET name == th[t].cmd.name IN
    /\ Awaits(t, {"RETR", "LIST", "STOR"})
    /\ CASE Code(t) \in {125, 150} ->
              Continues(t, [th[t] EXCEPT !.pc = IF name = "STOR" THEN "fill" ELSE "data"], Taken(t))
         [] Code(t) = 550 /\ name = "RETR" -> Finish(t, Store!KeyError, Taken(t))
         [] Code(t) = 550 /\ name = "LIST" -> Yielded(t, th[t].got, Taken(t))
         [] OTHER -> Fails(t, Taken(t))
    /\ UNCHANGED bounds

MyChan(t) == Link(t).chan[th[t].port]

\* recv() until the server closes; a connection that is gone gives no more.
ReadData(t) ==
    /\ th[t].pc = "data"
    /\ MyChan(t).state # "connected"
    /\ Continues(t, [Expects(th[t], "226") EXCEPT
            !.data = IF MyChan(t).state = "received" THEN MyChan(t).data ELSE Torn], Link(t))
    /\ UNCHANGED bounds

\* Mutant: put() does not read the reply that ends the transfer.
FillWithoutReply(t) ==
    /\ th[t].pc = "fill"
    /\ Finish(t, Store!Done, IF MyChan(t).state # "connected" THEN Link(t)
                 ELSE [Link(t) EXCEPT !.chan[th[t].port] = Chan("sent", call[t].data)])
    /\ UNCHANGED bounds

\* Mutant: put() reads it before it closes the data connection.
FillWithoutClose(t) ==
    /\ th[t].pc = "fill"
    /\ Continues(t, Expects(th[t], "226"), Link(t))
    /\ UNCHANGED bounds

\* What has left when the data connection is shut down: all that sendall()
\* was given, or all but what drain() leaves in the buffer.
Leaving(t) ==
    IF Async(t) /\ call[t].data \in Large THEN {call[t].data, Torn} ELSE {call[t].data}

FillData(t) ==
    /\ th[t].pc = "fill"
    /\ \E d \in Leaving(t) :
          Continues(t, Expects(th[t], "226"),
                    IF MyChan(t).state # "connected" THEN Link(t)
                    ELSE [Link(t) EXCEPT !.chan[th[t].port] = Chan("sent", d)])
    /\ UNCHANGED bounds

\* An error on the data connection: the reply to the transfer is read while
\* the data socket is still open, and the call fails whatever it says.
DataFails(t) ==
    /\ th[t].pc \in {"data", "fill"}
    /\ Fault
    /\ Continues(t, Expects(th[t], "226, failing"), CloseData(Link(t), th[t].port))

DataTimesOut(t) ==
    /\ \/ th[t].pc = "fill" /\ timeouts < MaxTimeouts
       \/ th[t].pc = "data" /\ MyChan(t).state = "connected"
    /\ Timeout(t)
    /\ Continues(t, Expects(th[t], "226, failing"), Link(t))

\* The lines of a listing: the part of the path to descend into, or files.
\* Anything else read in its place names no key.
Descend(t) ==
    LET lines == IF th[t].data \in Values \cup {Torn, None} THEN {} ELSE th[t].data
        match == {e \in lines : e.path = Append(Path(t), Head(th[t].rest))}
        files_ == {e.path : e \in {e \in lines : ~ e.isDir}}
    IN
    IF th[t].rest = <<>> THEN Yielded(t, th[t].got \cup files_, Taken(t))
    ELSE IF \E e \in match : e.isDir
    THEN Continues(t, Sends([th[t] EXCEPT !.rest = Tail(@), !.port = None], "PASV", None),
                   CloseData(Taken(t), th[t].port))
    ELSE Yielded(t, th[t].got \cup {e.path : e \in match}, Taken(t))

\* Mutant: the code of that reply is not looked at.
TakeAnyDone(t) ==
    /\ Awaits(t, {"226"})
    /\ CASE call[t].op = "put" -> Finish(t, Store!Done, Taken(t))
         [] call[t].op = "get" -> Finish(t, [value |-> th[t].data], Taken(t))
         [] OTHER              -> Descend(t)
    /\ UNCHANGED bounds

TakeDone(t) ==
    /\ Awaits(t, {"226"})
    /\ IF Code(t) # 226 THEN Fails(t, Taken(t))
       ELSE CASE call[t].op = "put" -> Finish(t, Store!Done, Taken(t))
              [] call[t].op = "get" -> Finish(t, [value |-> th[t].data], Taken(t))
              [] OTHER              -> Descend(t)
    /\ UNCHANGED bounds

TakeFailing(t) ==
    /\ Awaits(t, {"226, failing"})
    /\ Fails(t, Taken(t))
    /\ UNCHANGED bounds

\* CancelledError where the task awaits: `finally` closes the data connection
\* and, in close(), the connection it began with.  What was sent stays sent,
\* its reply is left unread, and a login stays where it is.
Cancel(t) ==
    /\ Async(t) /\ timeouts < MaxTimeouts
    /\ Connecting(t) \/ th[t].pc \in {"await", "dial", "data", "fill"}
    /\ Finish(t, Cancelled, IF Connecting(t) THEN HangUp(Link(t)) ELSE Link(t))
    /\ timeouts' = timeouts + 1
    /\ UNCHANGED faults

Client(t) ==
    \/ CloseNothing(t) \/ Connect(t) \/ OpenDone(t) \/ Send(t) \/ Recv(t) \/ RecvRest(t) \/ RecvJoins(t)
    \/ RecvEnds(t) \/ TakeFarewell(t) \/ TakeLogin(t) \/ TakeQuit(t) \/ TakeFeat(t) \/ TakeMkd(t) \/ TakeDele(t) \/ TakeProbe(t)
    \/ TakePasv(t) \/ Dial(t) \/ DialRefused(t) \/ TakeTransfer(t) \/ ReadData(t) \/ FillData(t)
    \/ TakeDone(t) \/ TakeFailing(t)

Unlucky(t) ==
    ConnectFails(t) \/ SendFails(t) \/ DialFails(t) \/ DataFails(t)

Late(t) == RecvTimesOut(t) \/ DataTimesOut(t)

Next ==
    \/ \E t \in Threads : Invoke(t) \/ Client(t) \/ Unlucky(t) \/ Late(t) \/ Cancel(t) \/ Return(t)
    \/ \E b \in Blobs : Server(b) \/ Faulty(b)

Spec == Init /\ [][Next]_vars

\* A thread in a call and the server both go on whenever they can, and a
\* thread that waits for a server that waits for it times out.
FairSpec ==
    /\ Spec
    /\ \A t \in Threads : WF_vars(Client(t)) /\ WF_vars(Quiet(Uses[t]) /\ Late(t))
    /\ \A b \in Blobs : WF_vars(Server(b))

-----------------------------------------------------------------------------

Names == {"open", "close", "220", "226", "226, failing", "USER", "PASS", "CWD", "TYPE", "QUIT",
          "FEAT", "SIZE", "MLST", "MKD", "DELE", "PASV", "RETR", "LIST", "STOR"}
Commands == [name : Names, arg : Keys \cup AllDirs \cup Prefixes \cup {<<>>, None}]
States == {"free", "listen", "connected", "cut", "sent", "received"}

TypeOK ==
    /\ files \in [Keys -> Values \cup {Torn, None}]
    /\ dirs \subseteq AllDirs
    /\ \A b \in Blobs :
          /\ link[b].flavour \in Flavours
          /\ link[b].sock \in {"none", "open", "dropped"}
          /\ link[b].inbox \in Seq(Commands)
          /\ link[b].listen \in Ports \cup {None}
          /\ \A p \in Ports : link[b].chan[p].state \in States
    /\ \A t \in Threads :
          /\ th[t].pc \in {"idle", "send", "await", "dial", "data", "fill", "done"}
          /\ th[t].cmd \in Commands \cup {None}
          /\ th[t].resume \in Commands \cup {None}
          /\ th[t].port \in Ports \cup {None}
          /\ th[t].got \subseteq Keys
    /\ call \in [Threads -> Store!Requests \cup [op : Lifecycle] \cup {None}]
    /\ ret \in [Threads -> Store!Outcomes \cup {[value |-> Torn], Cancelled, None}]
    /\ known \in [Keys -> Values \cup {Unknown, None}]
    /\ faults \in 0 .. MaxFaults
    /\ timeouts \in 0 .. MaxTimeouts

\* The call of t was neither cancelled nor did it fail, and it was alone on its keys.
Answered(t, op) ==
    /\ th[t].pc = "done" /\ call[t].op = op
    /\ alone[t] /\ ret[t] \notin {Store!BlobError, Cancelled}

(***************************************************************************)
(* What a call answers is true.  Where no other call interferes and the    *)
(* calls before it, all answered, tell what a key holds, get(), exists()   *)
(* and delete() answer accordingly, whatever failed before or meanwhile:   *)
(* the reply a call acts on is the reply to its own command, and data cut  *)
(* short is never returned as a value.  A scan yields nothing that is      *)
(* known not to be there.                                                  *)
(***************************************************************************)
ResultsTruthful ==
    \A t \in Threads :
        LET w == was[t][call[t].key] IN
        /\ Answered(t, "get") /\ w # Unknown =>
              ret[t] = IF w = None THEN Store!KeyError ELSE [value |-> w]
        /\ Answered(t, "delete") /\ w # Unknown =>
              ret[t] = IF w = None THEN Store!KeyError ELSE Store!Done
        /\ Answered(t, "exists") /\ w # Unknown => ret[t] = [found |-> w # None]
        /\ Answered(t, "scan") => \A k \in ret[t].keys : was[t][k] # None

(***************************************************************************)
(* scan(prefix) yields "all keys within prefix" (base.py:165): every one   *)
(* that is known to be there, and none that does not start with the prefix *)
(* (ftp.py:580, "Only entries whose names start with the given prefix").   *)
(***************************************************************************)
ScanYieldsPrefix ==
    \A t \in Threads : Answered(t, "scan") =>
        LET S == Under[call[t].prefix] IN
        {k \in S : was[t][k] \in Values} \subseteq ret[t].keys /\ ret[t].keys \subseteq S

(***************************************************************************)
(* Between calls an open control connection is in step: no command is      *)
(* left to serve, no reply left to read, no transfer under way.  Each      *)
(* path out of put(), get() and scan(), errors included, reads exactly the *)
(* replies the server sends for it.                                        *)
(***************************************************************************)
InUse(b) == \E t \in Threads : Uses[t] = b /\ th[t].pc \notin {"idle", "done"}

ControlInSync ==
    \A b \in Blobs : ~ InUse(b) /\ link[b].sock = "open" =>
        /\ link[b].inbox = <<>> /\ link[b].wire = <<>> /\ link[b].buffer = <<>>
        /\ link[b].left = None /\ link[b].transfer = None

(***************************************************************************)
(* A new connection starts with nothing left over of the previous one      *)
(* (docs/backends/ftp.md:28, "reconnects cleanly on the next access").     *)
(***************************************************************************)
CleanReconnect ==
    \A b \in Blobs : link[b].sock = "none" => link[b].buffer = <<>> /\ link[b].left = None

(***************************************************************************)
(* Clients with instances of their own do not disturb each other: as long  *)
(* as the server does its part in time, and no directory has the name of a *)
(* key, no call fails, though two puts may race to make the same parents.  *)
(***************************************************************************)
NoSpuriousFailure ==
    faults = 0 /\ timeouts = 0 => \A t \in Threads : ret[t] # Store!BlobError

(***************************************************************************)
(* A late reply, or a cancelled task, disturbs the client it belongs to    *)
(* and no other, whose calls race with what the server still does for the  *)
(* first: where clients have instances of their own and nothing else       *)
(* fails, no more calls fail at a time than replies were late.             *)
(***************************************************************************)
LatenessIsolated ==
    faults = 0 /\ timeouts # 0 =>
        Cardinality({t \in Threads : ret[t] = Store!BlobError}) <= timeouts

(***************************************************************************)
(* The client never waits for the server while the server waits for the    *)
(* client, whatever is refused, aborted or dropped: as long as no reply    *)
(* was late, no timeout is what ends a call.  But for one case: the        *)
(* greeting of a new connection that was read as part of what the one      *)
(* before it, dropped inside a line, has left behind (see CleanReconnect). *)
(***************************************************************************)
NoMutualWait ==
    timeouts = 0 => \A t \in Threads :
        ~ /\ Quiet(Uses[t]) /\ th[t].pc \in {"await", "data"} /\ Link(t).buffer = <<>>
          /\ th[t].cmd.name = "220" => faults = 0

(***************************************************************************)
(* Every call returns: whatever the server answers, the loops over parent  *)
(* directories, features, probes and listings end.                         *)
(***************************************************************************)
EveryCallReturns == \A t \in Threads : th[t].pc # "idle" ~> th[t].pc = "done"
=============================================================================
