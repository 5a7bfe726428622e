---------------------------- MODULE MCSQLiteBlob ----------------------------
(***************************************************************************)
(* Small instances of SQLiteBlob for TLC.                                  *)
(***************************************************************************)
EXTENDS SQLiteBlob

CONSTANTS t1, t2, b1, b2, v1, all, some

\* Two threads, each with an instance of its own on one database.
TwoThreads == {t1, t2}
TwoBlobs == {b1, b2}
OwnBlob == [t \in Threads |-> IF t = t1 THEN b1 ELSE b2]

\* Two threads that share one instance.
OneBlob == {b1}
SharedBlob == [t \in Threads |-> b1]

OneKey == {1}
TwoKeys == 1 .. 2
OneValue == {v1}
MCPrefixes == {all, some}
OnePrefix == {all}
MCUnder == [p \in Prefixes |-> IF p = all THEN Keys ELSE Keys \ {1}]

\* The second instance is behind the asynchronous backend.
Second == {b2}

OwnOps == {"put", "get", "exists", "delete", "scan", "close"}
LifecycleOps == {"put", "delete", "scan", "open", "close"}
PointOps == {"put", "get", "exists"}
DeleteOps == {"put", "delete"}
=============================================================================
