----------------------------- MODULE MCFileBlob -----------------------------
(***************************************************************************)
(* A small instance of FileBlob for TLC.                                   *)
(***************************************************************************)
EXTENDS FileBlob

CONSTANTS t1, t2, v1, v2

MCThreads == {t1, t2}
MCValues == {v1, v2}

\* A file whose name is that of a directory, a file two levels below it, and
\* a key and a prefix that _resolve() refuses.
Top == "d"
Deep == "d/e/y"
Outer == "../d"
MCNames == {Top, Deep, Outer}
MCResolve == [n \in Names |->
    CASE n = Top -> <<"d">> [] n = Deep -> <<"d", "e", "y">> [] n = Outer -> None]
MCPrefixes == {<<>>, <<"d">>, None}

Request(op, n) == [op |-> op, key |-> n]
Puts(names, v) == {[op |-> "put", key |-> n, data |-> v] : n \in names}
MCCalls == [t \in Threads |->
    IF t = t1
    THEN Puts({Top, Deep}, v1) \cup {Request("delete", n) : n \in {Top, Deep}}
    ELSE Puts({Deep}, v2)
         \cup {Request(op, n) : op \in {"get", "exists", "delete"}, n \in {Top, Deep}}
         \cup {Request("get", Outer)}
         \cup [op : {"scan"}, prefix : Prefixes]]
=============================================================================
