------------------------------ MODULE MCCBuff -------------------------------
(* The circular buffer for TLC: 4 bytes, pointers modulo 16, two byte      *)
(* values; the starts put the pointers before and across both wraps.       *)
EXTENDS CBuff

MCByte == {"a", "b"}
MCStarts == {0, 6, 14}
MCChunks == UNION {[1 .. n -> MCByte] : n \in 0 .. 3} \union {<<"a", "b", "a", "b">>}
=============================================================================
