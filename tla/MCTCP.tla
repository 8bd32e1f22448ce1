------------------------------- MODULE MCTCP -------------------------------
EXTENDS TCP
MCSends   == <<{}, {<<0, 1>>}>>
MCLengths == <<{}, {2}>>
MCSleeps == <<{}, {2}>>
MCChunks  == {<<1>>}
Live(f) == [t \in Task |-> f[t] /\ pc[t] \in {"move", "cb", "test", "wait"}]
At(S, x) == IF at \in S THEN x ELSE 0
\* The view takes of the counters and the clock what the code does, differences
\* where the task still needs them, and leaves out locals that are dead.
Same == <<stream, pc, call, Live(woken), active, read, socket, at, taskTable, ticksCreateWakes, i, blocked, op,
  At({"read", "write"}, avail), At({"txdone"}, cnt), At({"rtwakerx", "rtwaketx"}, waiting),
  IF at = "loop" /\ op[TCPTask] = "run" THEN FALSE ELSE didSomething,
  [t \in Thread |-> IF op[t] = "cond" THEN Consider(thresh[t], wakes[t]) ELSE 0],
  [t \in Thread |-> IF op[t] = "count" THEN target[t] ELSE IF Holds(t) THEN Consider(target[t], wakes[t]) ELSE 0],
  [t \in Thread |-> IF Sleeping(t) THEN Remain(t) ELSE 0]>>
=============================================================================
