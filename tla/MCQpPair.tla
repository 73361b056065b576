---- MODULE MCQpPair ----
(***************************************************************************)
(* Small instances of QpPair for TLC: keys of two bytes, two clients.      *)
(***************************************************************************)
EXTENDS QpPair, TLC

CONSTANTS Keys, l1, l2, l3, r1, r2, r3

\* Two clients whose keys differ in the first byte, on one CPU.
PlainKeys == <<<<1, 7>>, <<2, 7>>>>
\* Two clients whose keys differ only behind a NUL byte: port 80 is 00 50.
NulKeys == <<<<0, 7>>, <<0, 9>>>>

\* l3 and r3 belong to the second client; the first one has two tasks of each
\* kind: a repeated SYN, a connection that is accepted again.
KeyOf == [t \in Tasks |-> IF t \in {l3, r3} THEN Keys[2] ELSE Keys[1]]
OneCpu(k) == 0

Symm == Permutations({l1, l2} \cap Ls) \cup Permutations({r1, r2} \cap Rs)
====
