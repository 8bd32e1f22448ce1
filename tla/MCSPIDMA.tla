------------------------------ MODULE MCSPIDMA ------------------------------
(* Transfers of four speeds and two slaves; a list of three is refused. *)
EXTENDS SPIDMA

CONSTANTS a, b, w, x, y, z
MCLists == [t \in Task |-> IF t = a THEN {<<w>>, <<w, x>>, <<y, w>>, <<x, z>>, <<z, y, x>>, <<>>}
                                    ELSE {}]
\* Two tasks post, each as if it were alone.
MCListsTwo   == [t \in Task |-> IF t = a THEN {<<w, x>>} ELSE {<<y>>, <<>>}]
MCSlave      == [i \in Transfer |-> IF i \in {w, x} THEN "gyro" ELSE "flash"]
MCNoDeselect == [i \in Transfer |-> i \in {w, z}]
MCSpeed      == [i \in Transfer |->
                   CASE i = w -> 1280 [] i = x -> 320 [] i = y -> 288 [] i = z -> 96]
=============================================================================
