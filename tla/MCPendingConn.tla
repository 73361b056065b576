---- MODULE MCPendingConn ----
(***************************************************************************)
(* Small instances of PendingConn for TLC.                                 *)
(***************************************************************************)
EXTENDS PendingConn
====
