---------------------------- MODULE MCMemoryBlob ----------------------------
(***************************************************************************)
(* Small instances of MemoryBlob for TLC.                                  *)
(***************************************************************************)
EXTENDS MemoryBlob

CONSTANTS t1, t2, a, b, c, short, long, all, some

MCThreads == {t1, t2}
MCKeys == {a, b, c}
MCValues == {short, long}
MCBytes == [v \in Values |-> IF v = short THEN 1 ELSE 2]
MCPrefixes == {all, some}
MCUnder == [p \in Prefixes |-> IF p = all THEN Keys ELSE {a, b}]
=============================================================================
