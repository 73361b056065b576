---- MODULE MCListener ----
(***************************************************************************)
(* A small instance of Listener for TLC: a tenant that is added twice and  *)
(* deleted, and another one.                                               *)
(***************************************************************************)
EXTENDS Listener

CONSTANT s3

TidOf == [a \in Servers \cup Dels \cup Syns |-> IF a = s3 THEN 2 ELSE 1]
====
