-------------------------- MODULE MCSocketStreamRcv --------------------------
(* Values for the constants of SocketStreamRcv: bytes in {0, 1}, so that   *)
(* the length field takes the values 0 (close), 1, 2 and 3 (ping); storage *)
(* that holds either the longest meta-blob or not.                         *)
EXTENDS SocketStreamRcv

CONSTANT h1

MCHandle == {h1}
MCStorageSize == {1, 2}
=============================================================================
