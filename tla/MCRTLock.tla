------------------------------ MODULE MCRTLock ------------------------------
(* RTLock on small instances. *)
EXTENDS RTLock

MCPrio == <<2, 1, 2, 0>>

\* The view under which TLC compares states.  The code only ever takes
\* differences of a task's counters, so states that differ by a shift of one
\* task's wakeCount, wakeThreshold and count are the same; so are those that
\* differ in a local that is dead, written again before it is read, and in
\* ticksCreateWakes and ticking, which never change here.
Only(t, at, x) == IF pc[t] \in at THEN x ELSE 0
Same ==
  << [t \in Task |-> Consider(wakeThreshold[t], wakeCount[t])],
     [t \in Task |-> Only(t, {"try", "wait"}, Consider(count[t], wakeCount[t]))],
     [t \in Task |-> Only(t, {"add", "scan", "wake"}, slot[t])],
     [t \in Task |-> Only(t, {"wake"}, task[t])],
     [t \in Task |-> IF pc[t] \in {"scan", "wake"} THEN woke[t] ELSE FALSE],
     curTask, pendSV, burst, lock, pc >>
=============================================================================
