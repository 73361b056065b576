---- MODULE MCStreamLogger ----
(***************************************************************************)
(* Small instances of StreamLogger for TLC.                                *)
(***************************************************************************)
EXTENDS StreamLogger

CONSTANTS w1, w2, w3, r1, r2

\* A third line is too long for the buffer.
SizeOf == [w \in Writers |-> CASE w = w1 -> 1 [] w = w2 -> 2 [] w = w3 -> 3]
\* One reader has a buffer that is too small for all there may be.
RoomOf == [r \in Readers |-> IF r = r1 THEN 2 ELSE 1]
AllModes == {"serial", "one_writer", "any"}
====
