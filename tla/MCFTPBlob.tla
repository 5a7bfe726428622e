----------------------------- MODULE MCFTPBlob -----------------------------
(***************************************************************************)
(* Small instances of FTPBlob for TLC.                                     *)
(***************************************************************************)
EXTENDS FTPBlob, TLC

CONSTANTS t1, t2, b1, b2, v1

OneThread == {t1}
TwoThreads == {t1, t2}
OneBlob == {b1}
TwoBlobs == {b1, b2}
OwnBlob == [t \in Threads |-> IF t = t1 THEN b1 ELSE b2]
SharedBlob == [t \in Threads |-> b1]

\* Two clients with an instance each are alike.
Alike ==
    {p \in Permutations({t1, t2, b1, b2}) :
        {p[t1], p[t2]} = {t1, t2} /\ (p[t1] = t1 <=> p[b1] = b1)}

\* A key at the root and one in a directory.
FlatKey == <<"b">>
DeepKey == <<"a", "x">>
OneKey == {DeepKey}
TwoKeys == {FlatKey, DeepKey}
MCPrefixes == {<<>>, <<"a">>}
OneValue == {v1}
NoValue == {}

Synchronous == {"sync"}
Asynchronous == {"aio"}
Variants == {"sync", "aio"}

AllFeatures == {"SIZE", "MLSD"}

AllOps == {"put", "get", "delete", "exists", "scan", "open", "close"}
PointOps == {"put", "get", "delete", "exists"}
PutScan == {"put", "scan"}
PutOnly == {"put"}
=============================================================================
