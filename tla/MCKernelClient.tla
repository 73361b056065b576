---- MODULE MCKernelClient ----
(***************************************************************************)
(* Small instances of KernelClient for TLC.                                *)
(***************************************************************************)
EXTENDS KernelClient

CONSTANTS udp, tcp, server, server_z, w1, w2

ExitOrder == <<udp, tcp, server, server_z>>
TargetOf == [w \in Writes |-> IF w = w1 THEN udp ELSE tcp]
====
