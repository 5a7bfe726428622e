----------------------------- MODULE MCS3Blob -----------------------------
(***************************************************************************)
(* Small instances of S3Blob for TLC.                                      *)
(***************************************************************************)
EXTENDS S3Blob

CONSTANTS c1, c2, v1, v2, all

TwoClients == {c1, c2}
MCKeys == 1 .. 2
MCValues == {v1, v2}
MCPrefixes == {all}
MCUnder == [p \in Prefixes |-> Keys]
=============================================================================
