------------------------------- MODULE MCSPIF3 -------------------------------
(* Two tasks: one posts pairs whose first transfer leaves its slave selected, *)
(* for one or for another slave, the other one or two transfers or, as the    *)
(* code allows, none at all.  A pair is refused while the queue holds one.    *)
EXTENDS SPIF3

CONSTANTS a, b, v, w, x, y, z
MCLists      == [t \in Task |-> IF t = a THEN {<<w, x>>, <<w, y>>} ELSE {<<z>>, <<z, v>>, <<>>}]
MCSlave      == [i \in Transfer |-> IF i \in {w, x} THEN "gyro" ELSE "flash"]
MCNoDeselect == [i \in Transfer |-> i \in {w, z}]
MCLenShort   == [i \in Transfer |-> IF i = w THEN 1 ELSE 3]
MCLen        == [i \in Transfer |-> IF i = w THEN 6 ELSE 3]
=============================================================================
