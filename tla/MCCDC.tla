------------------------------- MODULE MCCDC -------------------------------
(* Packets of two bytes; sends longer than a packet and than the queue. *)
EXTENDS CDC

CONSTANTS a, b
MCSends   == [t \in Task |-> IF t = a THEN {<<0, 1, 1>>} ELSE {<<0>>}]
MCLengths == [t \in Task |-> IF t = a THEN {3} ELSE {}]
MCPackets == {<<0, 1>>}

\* The first interface's layout, in units of 16 bytes: full packets.
MCSendsFull   == [t \in Task |-> IF t = a THEN {<<0, 0, 0, 0>>} ELSE {}]
MCLengthsFull == [t \in Task |-> IF t = b THEN {4} ELSE {}]
MCPacketsFull == {<<1, 1, 1, 1>>}
=============================================================================
