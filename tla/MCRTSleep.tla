------------------------------ MODULE MCRTSleep ------------------------------
EXTENDS RTSleep
MCPrio   == <<2, 1, 0>>
MCSleeps == {1, 3}
\* The view takes differences of counters and of the clock, as the code does,
\* and leaves out locals that are dead.
Same == <<[t \in Task |-> Consider(wakeThreshold[t], wakeCount[t])],
          [t \in Task |-> IF pc[t] = "wait" THEN Consider(threshold[t], wakeCount[t]) ELSE 0],
          [t \in Task |-> IF pc[t] = "out" THEN 0 ELSE TicksTo(completion[t])],
          [t \in Task |-> IF pc[t] = "out" THEN 0 ELSE left[t]],
          [t \in Task |-> IF pc[t] \in {"out", "check"} THEN 0 ELSE remain[t]],
          ticksCreateWakes, curTask, pendSV, ticking, burst, pc>>
==============================================================================
