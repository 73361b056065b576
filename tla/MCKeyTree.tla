---- MODULE MCKeyTree ----
(***************************************************************************)
(* Small instances of KeyTree for TLC: keys of four bits.                  *)
(***************************************************************************)
EXTENDS KeyTree

\* Keys that are counted up, as an administrator numbers tenants.
NearKeys == {-1, 0, 1, 2, 3, 4}
\* Addresses all over the range, and three of them that form a circle.
FarKeys == {-8, -5, -2, 1, 4, 7}
ThreeKeys == {-8, -2, 4}

AllKeySets == {NearKeys, FarKeys, ThreeKeys}
AllKeys == NearKeys \cup FarKeys
====
