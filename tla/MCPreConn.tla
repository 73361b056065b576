---- MODULE MCPreConn ----
(***************************************************************************)
(* A small instance of PreConn for TLC: one client whose SYN is repeated,  *)
(* two next hops, one CPU.                                                 *)
(***************************************************************************)
EXTENDS PreConn, TLC

CONSTANTS h1, h2

KeyOf == [t \in Tasks |-> <<1, 7>>]
CpuOfKey(k) == k[1]
HopOf == [t \in Pre |-> h1]

Symm == Permutations(Pre) \cup Permutations(Conns)
\* The two crashes of prealloc_connection change nothing else and end the run:
\* the state before them is the one that counts.
View == IF oops \in {"uninit_tx", "freed_preconn"} THEN <<oops>> ELSE preVars
====
