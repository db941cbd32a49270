----------------------------- MODULE MCNetRing ------------------------------
(* Pairs of interfaces for TLC, and what arrives on them. *)
EXTENDS NetRing

Both(a, b) == [w \in Nets |-> IF w = 0 THEN a ELSE b]
NoDial == Both(<<>>, <<>>)
Handles == Both(2, 3)

(* A modem asks for a connection before the first frame. *)
Dial == Both(<<>>, <<<<"A", 1, 0, 1>>, <<"cr", 1, 0, 2>>>>)

(* The first character of a frame, that of an IP datagram, is none that     *)
(* SLIP or the modem knows.                                                 *)
Short == <<"ip">>
Plain == <<"ip", "x">>
WithEnd == <<"ip", "end">>
WithEsc == <<"ip", "esc">>

Pair(kinds, forward, dial, bytes) ==
    [kind |-> kinds, handle |-> Handles, forward |-> forward, dial |-> dial, bytes |-> bytes]

Cards == Pair(Both("ne", "3c"), TRUE, NoDial, Both(<<Plain, Short, Plain, Short>>, <<Short, Plain>>))
Serial == Pair(Both("ne", "slip"), TRUE, Dial, Both(<<WithEsc>>, <<WithEnd, Plain>>))
Packet == Pair(Both("pktd", "pktd"), TRUE, NoDial, Both(<<Plain, Short>>, <<Short, Plain>>))
Watch == Pair(Both("slip", "3c"), FALSE, NoDial, Both(<<WithEsc, WithEnd>>, <<Plain, Short>>))
AllSetups == {Cards, Serial, Packet, Watch}

Twins == {Pair(Both("slip", "slip"), FALSE, NoDial, Both(<<WithEsc>>, <<Plain>>))}
=============================================================================
