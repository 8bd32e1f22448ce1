------------------------------ MODULE MCBoard ------------------------------
(* Board with two tasks that create others, an LED each, and room in the table for one more. *)
EXTENDS Board
CONSTANTS a, b, x, y, idle

By(fa, fb, fm, other) == [p \in Caller |-> CASE p = a -> fa [] p = b -> fb [] p = Main -> fm [] OTHER -> other]
MCCreates == By(<<x>>, <<y>>, <<a, b, idle>>, <<>>)
MCMallocs == By({1}, {13}, {}, {})
MCSizes   == {1, 6, 13}
Tag(p, f, v) == [pin |-> p, func |-> f, initial |-> v]
MCLEDPins == <<Tag(1, "output", 1), Tag(2, "output", 0)>>
MCUSBPins == <<Tag(3, "altfunc_out", 0)>>
MCTaskPins == By(<<Tag(4, "output", 1)>>, <<Tag(5, "altfunc_in", 0)>>, <<>>, <<>>)
MCUses    == By({0}, {1}, {}, {})
MCLitFirst == <<0, 2>>
\* The view leaves out locals that are dead: of the allocator's outside its
\* calls, and of RTTaskCreate's where it will set them again.
Same == << HeapSize, HeapPos, pc, blocks,
           [p \in Caller |-> IF pc[p] = "idle" THEN 0 ELSE asked[p]],
           [p \in Caller |-> IF pc[p] = "swap" THEN myPos[p] ELSE 0],
           taskTable, taskId, framed, at, func,
           [p \in Caller |-> IF at[p] = "idle" THEN 0 ELSE i[p]],
           [p \in Caller |-> IF at[p] = "fill" THEN task[p] ELSE FALSE],
           todo, ask, ticking, started, fault, overlap, dio, mainPC, toInit >>
=============================================================================
